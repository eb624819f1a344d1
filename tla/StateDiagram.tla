---------------------------- MODULE StateDiagram ----------------------------
(***************************************************************************)
(* What docs/design/state-diagram.puml says of a strategy and what         *)
(* ZeroDteStrategy does not do.  Each property below is read from the line *)
(* it quotes; TLC shows the behaviour that contradicts it.                 *)
(***************************************************************************)
EXTENDS ZeroDteStrategy

\* "PendingEntry --> Flat : rejected or cancelled" (state-diagram.puml:25).  The base
\* class handles a rejected and a denied order and no cancelled one: an entry that the
\* venue cancels unfilled leaves the strategy in PENDING_ENTRY for good.
CancelledEntryEndsFlat ==
    \A i \in Intents :
        (state = "PendingEntry" /\ activeIntent = i /\ orders[<<i, "entry">>] = Closed)
            ~> state # "PendingEntry"

\* "Flat : no open position" (state-diagram.puml:7).  Any fill that comes while EXITING
\* is taken for the end of the trade: one leg of a bracket that races the exit, or a
\* part of the exit.
FlatHoldsNothing == state = "Flat" => position = 0

\* "InPosition --> Exiting : TP / SL / hedge trigger" (state-diagram.puml:33).
\* _exit_submitted is set by the first take-profit or stop-loss exit and never reset:
\* later trades of the same strategy are not watched any more.
TriggersArmedInPosition == state = "InPosition" => ~ exitSubmitted

\* "InPosition --> Flat : SessionActor flatten signal" (state-diagram.puml:34).  The
\* handler of the phase and that of every later quote raise at cancel_all_orders()
\* before they send anything, and while the signal stands the take-profit and
\* stop-loss checks are not reached: the position stays for as long as the signal.
FlattenHonoured ==
    (flattenSignal /\ state = "InPosition") ~> (~ flattenSignal \/ state # "InPosition")
=============================================================================
