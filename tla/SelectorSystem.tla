--------------------------- MODULE SelectorSystem ---------------------------
(***************************************************************************)
(* Several strategies that compete for capital behind the SelectorActor:   *)
(* each queues its intent and waits; the actor collects what comes within  *)
(* a batch interval, applies the diversification policy and answers every  *)
(* intent of the batch.  actors/selector.py with the selector path of      *)
(* strategies/base.py and the order in which a node stops its parts.       *)
(*                                                                         *)
(* The message bus is synchronous: an intent is in the buffer when the     *)
(* publishing handler returns, and finalize() runs the handlers of all the *)
(* strategies it answers, the rejected ones first.  What the orders of a   *)
(* strategy do is in ZeroDteStrategy; here only the states they lead to.   *)
(***************************************************************************)
EXTENDS Diversification

CONSTANTS
    Strategies,   \* the strategies of the node, all with selector_enabled
    Ids,          \* bound: the intent ids there are, drawn in any order like UUIDs
    Instruments, Edges,
    Policy,       \* the diversification policy
    Interval,     \* batch_interval_ms, in ticks of the clock
    None

ASSUME SelectorAssumption ==
    /\ Strategies # {} /\ IsFiniteSet(Strategies)
    /\ Ids \subseteq Nat
    /\ Interval \in Nat \ {0}

VARIABLES
    phase,     \* the node: running, its actors stopped, or all stopped
    state,     \* per strategy: self._state
    pending,   \* per strategy: self._pending_intent
    active,    \* per strategy: self._active_intent_id
    buffer,    \* SelectorActor._buffer
    alert,     \* ticks until the alert "selector_finalize" fires, or None
    owner,     \* history: which strategy built an intent
    verdict,   \* history: what became of an intent
    waited     \* history: ticks since the oldest intent of the buffer came in

trade == <<state, pending, active>>
batch == <<buffer, alert, waited>>
vars  == <<phase, trade, batch, owner, verdict>>

Intent == [id : Ids, strategy : Strategies, instrument : Instruments, edge : Edges]

ASSUME NoneAssumption ==
    None \notin Strategies /\ None \notin Intent /\ None \notin Ids /\ None \notin 0 .. Interval

Init ==
    /\ phase = "running"
    /\ state   = [s \in Strategies |-> "Flat"]
    /\ pending = [s \in Strategies |-> None]
    /\ active  = [s \in Strategies |-> None]
    /\ buffer = <<>>
    /\ alert = None
    /\ owner   = [i \in Ids |-> None]
    /\ verdict = [i \in Ids |-> "unused"]
    /\ waited = 0

-----------------------------------------------------------------------------
(* SelectorActor.                                                           *)

\* Mutant of Collect: the alert comes a tick late.
CollectLate(intent) ==
    /\ buffer' = Append(buffer, intent)
    /\ alert' = Interval + 1
    /\ waited' = IF buffer = <<>> THEN 0 ELSE waited

\* Mutant of Collect: an alert is only set for company.
CollectInCompany(intent) ==
    /\ buffer' = Append(buffer, intent)
    /\ alert' = IF buffer = <<>> THEN alert ELSE Interval
    /\ waited' = IF buffer = <<>> THEN 0 ELSE waited

\* Every collected intent moves the alert: override=True on one alert name.
Collect(intent) ==
    /\ buffer' = Append(buffer, intent)
    /\ alert' = Interval
    /\ waited' = IF buffer = <<>> THEN 0 ELSE waited

\* Mutant of Takes: any answer will do.
TakesAnyAnswer(s, intents) ==
    state[s] = "PendingApproval" /\ pending[s] # None /\ intents # {}

\* A strategy drops an answer that is not for the intent it waits for.
Takes(s, intents) ==
    /\ state[s] = "PendingApproval"
    /\ pending[s] # None
    /\ \E i \in intents : i.strategy = s /\ i.id = pending[s].id

IdsOf(intents) == {i.id : i \in intents}

\* Mutant of ClearBatch: the batch is answered and kept.
KeepBatch == UNCHANGED <<buffer, waited>>

\* finalize takes the buffer and leaves an empty one.
ClearBatch == buffer' = <<>> /\ waited' = 0

\* Both approval handlers approve whatever they are given; an approved intent
\* is submitted at once, unless its instrument is not found.  (\E binds the two
\* answers so that TLC computes each once.)
Finalize ==
    \E yes \in {Approved(buffer, Policy)}, no \in {Rejected(buffer, Policy)} :
        /\ \E found \in SUBSET {s \in Strategies : Takes(s, yes)} :
              state' = [s \in Strategies |->
                           IF Takes(s, no) THEN "Flat"
                           ELSE IF Takes(s, yes)
                                THEN (IF s \in found THEN "PendingEntry" ELSE "Flat")
                           ELSE state[s]]
        /\ active'  = [s \in Strategies |-> IF Takes(s, yes) THEN pending[s].id ELSE active[s]]
        /\ pending' = [s \in Strategies |-> IF Takes(s, yes) \/ Takes(s, no)
                                            THEN None ELSE pending[s]]
        /\ verdict' = [i \in Ids |-> IF i \in IdsOf(yes) THEN "approved"
                                     ELSE IF i \in IdsOf(no) THEN "rejected"
                                     ELSE verdict[i]]
        /\ ClearBatch

OnFinalizeAlert ==
    /\ phase = "running"
    /\ alert = 0
    /\ alert' = None
    /\ Finalize
    /\ UNCHANGED <<phase, owner>>

\* An alert that is due fires before more time passes.
Tick ==
    /\ phase = "running"
    /\ alert \notin {None, 0}
    /\ alert' = alert - 1
    /\ waited' = waited + 1
    /\ UNCHANGED <<phase, trade, buffer, owner, verdict>>

-----------------------------------------------------------------------------
(* The strategies.                                                          *)

\* A signal that passes the gates: the intent is published and collected.  The
\* gates may pass at any time here, whatever the session phase: a blackout moves no
\* state, since the flatten it calls for raises (ZeroDteStrategy).
Evaluate(s) ==
    /\ phase = "running"
    /\ state[s] = "Flat"
    /\ \E intent \in Intent :
          /\ intent.strategy = s
          /\ verdict[intent.id] = "unused"
          /\ pending' = [pending EXCEPT ![s] = intent]
          /\ owner'   = [owner EXCEPT ![intent.id] = s]
          /\ verdict' = [verdict EXCEPT ![intent.id] = "asked"]
          /\ Collect(intent)
    /\ state' = [state EXCEPT ![s] = "PendingApproval"]
    /\ UNCHANGED <<phase, active>>

\* Mutant of OrderMoves: a late fill opens a position from FLAT.
OrderMovesFromFlat == { <<"PendingEntry", "InPosition">>, <<"PendingEntry", "Flat">>,
                        <<"InPosition", "Exiting">>, <<"InPosition", "Flat">>,
                        <<"Exiting", "Flat">>, <<"Flat", "InPosition">> }

\* Events of the orders, and the take-profit and stop-loss exits.
OrderMoves == { <<"PendingEntry", "InPosition">>,  \* a fill
                <<"PendingEntry", "Flat">>,        \* a rejection or denial
                <<"InPosition", "Exiting">>,       \* an exit trigger
                <<"InPosition", "Flat">>,          \* the same, instrument not found
                <<"Exiting", "Flat">> }            \* a fill

OrderEvent(s) ==
    /\ phase = "running"
    /\ \E move \in OrderMoves :
          /\ state[s] = move[1]
          /\ state' = [state EXCEPT ![s] = move[2]]
          /\ active' = IF move[2] = "Flat" /\ move[1] # "InPosition"
                       THEN [active EXCEPT ![s] = None]
                       ELSE active
    /\ UNCHANGED <<phase, pending, batch, owner, verdict>>

-----------------------------------------------------------------------------
(* Stopping the node: first the actors, then the strategies, in one call.   *)

\* Mutant of StopActors: the buffer is not flushed.
StopActorsDropping ==
    /\ phase = "running"
    /\ phase' = "actorsStopped"
    /\ alert' = None
    /\ UNCHANGED <<trade, buffer, owner, waited, verdict>>

StopActors ==
    /\ phase = "running"
    /\ phase' = "actorsStopped"
    /\ alert' = None
    /\ IF buffer # <<>> THEN Finalize ELSE UNCHANGED <<trade, buffer, waited, verdict>>
    /\ UNCHANGED owner

\* on_stop of a strategy unsubscribes; it neither cancels nor flattens.
StopStrategies ==
    /\ phase = "actorsStopped"
    /\ phase' = "stopped"
    /\ UNCHANGED <<trade, batch, owner, verdict>>

-----------------------------------------------------------------------------
Next ==
    \/ OnFinalizeAlert
    \/ Tick
    \/ \E s \in Strategies : Evaluate(s) \/ OrderEvent(s)
    \/ StopActors
    \/ StopStrategies

Spec == Init /\ [][Next]_vars

\* The clock goes on, with time or with the alert that is due; nothing else is promised.
FairSpec == Spec /\ WF_vars(Tick \/ OnFinalizeAlert)

-----------------------------------------------------------------------------
(* Properties.                                                              *)

States == {"Flat", "PendingApproval", "PendingEntry", "InPosition", "Exiting"}

\* Every variable holds a value of its kind.
TypeOK ==
    /\ phase \in {"running", "actorsStopped", "stopped"}
    /\ state \in [Strategies -> States]
    /\ pending \in [Strategies -> Intent \cup {None}]
    /\ active \in [Strategies -> Ids \cup {None}]
    /\ buffer \in Seq(Intent)
    /\ alert \in 0 .. Interval \cup {None}
    /\ owner \in [Ids -> Strategies \cup {None}]
    /\ verdict \in [Ids -> {"unused", "asked", "approved", "rejected"}]
    /\ waited \in Nat

\* The buffer holds the intent of every strategy that awaits an answer, once, and no
\* other intent: nobody waits for an answer the actor has no reason to give, and the
\* policy counts no intent twice.  An alert is set exactly while it holds any.
BufferIsWhatIsAwaited ==
    /\ ToSet(buffer) = {pending[s] : s \in {t \in Strategies : state[t] = "PendingApproval"}}
    /\ Len(buffer) = Cardinality({s \in Strategies : state[s] = "PendingApproval"})
    /\ buffer # <<>> <=> alert # None

\* The alert is moved by every intent that comes in, and yet no intent waits longer than
\* one interval per strategy: a strategy that waits publishes nothing more.
BoundedWait == waited <= Cardinality(Strategies) * Interval

\* Only approved intents are traded, and only by the strategy that built them.
TradedWasApproved ==
    \A s \in Strategies : active[s] # None =>
        verdict[active[s]] = "approved" /\ owner[active[s]] = s

\* A node that stops leaves no intent unanswered: the actor answers the batch it has
\* collected before the strategies unsubscribe (selector.py on_stop).
NoneWaitingAfterStop ==
    phase # "running" => \A s \in Strategies : state[s] # "PendingApproval"

\* An intent is answered once: a verdict is never replaced by another one.
VerdictIsFinal ==
    [][\A i \in Ids : verdict[i] \in {"approved", "rejected"} => verdict'[i] = verdict[i]]_vars

\* Every queued intent is answered, if only time passes: where strategies wait, there
\* comes a moment when none does.
EveryIntentAnswered ==
    (\E s \in Strategies : state[s] = "PendingApproval")
        ~> \A s \in Strategies : state[s] # "PendingApproval"

(* Each strategy implements TradeLifecycle for the intents it built.        *)
StageOfState == [PendingEntry |-> "entering", InPosition |-> "open", Exiting |-> "closing"]

Stage(s, i) ==
    IF owner[i] # s THEN "unbuilt"
    ELSE IF pending[s] # None /\ pending[s].id = i THEN "proposed"
    ELSE IF active[s] = i /\ state[s] \in DOMAIN StageOfState THEN StageOfState[state[s]]
    ELSE "over"

Lifecycle(s) == INSTANCE TradeLifecycle WITH Intents <- Ids, stage <- [i \in Ids |-> Stage(s, i)]

\* No answer, batch or stop makes a strategy work on two intents or resume one.
\* (The conjunction of Lifecycle(s)!Spec over all strategies, with the box outermost.)
ImplementsLifecycle ==
    /\ \A s \in Strategies : Lifecycle(s)!Init
    /\ [][\A s \in Strategies :
              Lifecycle(s)!Next \/ UNCHANGED [i \in Ids |-> Stage(s, i)]]_vars
=============================================================================
