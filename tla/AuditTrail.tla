----------------------------- MODULE AuditTrail -----------------------------
(***************************************************************************)
(* A node process, its strategy and the journal they write, with failures: *)
(* a write may fail halfway, the exception leaves the handler where it     *)
(* stands, the process may die between any two effects and be started      *)
(* again.  The file and the orders at the venue outlive it; the state of   *)
(* the strategy does not: on_start reads neither.                          *)
(*                                                                         *)
(* A handler is the sequence of its effects in the order of the code: it   *)
(* moves the state machine and records the transition, records an event,   *)
(* publishes the intent, sends an order.  Events of the venue wait for the *)
(* running handler.  The strategy is that of ZeroDteStrategy in each of    *)
(* its profiles, without its bracket and its cancellations; an order is    *)
(* filled at once, and the selector is that of SelectorSystem with this    *)
(* strategy alone, its diversification free to go either way.              *)
(***************************************************************************)
EXTENDS Journal, FiniteSets

CONSTANTS
    Profiles,     \* the profiles a node is started with
    MaxIntents,   \* bound: intents ever built
    MaxFaults,    \* bound: writes that fail
    MaxLives,     \* bound: starts of the node
    MaxRequests   \* bound: runs of the command "flatten"

ASSUME AuditAssumption ==
    MaxIntents \in Nat /\ MaxFaults \in Nat /\ MaxLives \in Nat /\ MaxRequests \in Nat

\* dry_run and selector_enabled, of which the first wins; backtest_plumbing; and
\* whether there is a perpetual to hedge with.
Profile == [mode : {"direct", "selector", "dryRun"}, plumbing : BOOLEAN, hedging : BOOLEAN]

ASSUME ProfileAssumption == Profiles \subseteq Profile

NoIntent == 0
Intents  == 1 .. MaxIntents
Roles    == {"entry", "exit", "hedge"}

VARIABLES
    profile,       \* the profile of this node
    file,          \* the journal file
    acknowledged,  \* history: the places of the entries whose record() returned
    faults,        \* history: writes that failed
    requests,      \* history: runs of "flatten"
    lives,         \* history: starts of the node
    handler, at,   \* the running handler and its next effect; or "idle", or "down"
    aborted,       \* history: a handler of this process was left by an exception
    state,         \* self._state
    active,        \* self._active_intent_id
    hedged,        \* self._hedge_submitted
    triggered,     \* self._exit_submitted
    unfound,       \* history: an exit of this process did not find its instrument
    built,         \* intents built so far, in all lives
    asked,         \* the selector has an intent of this process in its buffer
    sent,          \* history: orders sent
    working        \* those among them whose events this process will get

journal  == <<file, acknowledged, faults>>
process  == <<lives, handler, at, aborted>>
latches  == <<hedged, triggered, unfound>>
strategy == <<state, active, latches, built>>
venue    == <<sent, working>>
vars     == <<profile, journal, requests, process, strategy, asked, venue>>

-----------------------------------------------------------------------------
(* Handlers: the effects of each, in the order of the code.                 *)

To(s)    == [do |-> "move",   what |-> s]
Rec(e)   == [do |-> "record", what |-> e]
Send(r)  == [do |-> "send",   what |-> r]
Build    == [do |-> "build",  what |-> "node"]
Publish  == [do |-> "publish", what |-> "intent"]

\* node/factory.py run_backtest, cli paper, and on_start behind the build.
StartEffects   == <<Rec("NODE_START"), Build, Rec("STRATEGY_START")>>
StopEffects    == <<Rec("STRATEGY_STOP"), Rec("NODE_STOP")>>
LeaveEffects   == <<Rec("NODE_STOP")>>

RejectEffects  == <<To("Evaluating"), Rec("GATE_REJECT"), To("Flat")>>
DryEffects     == <<To("Evaluating"), Rec("GREEK_PASSED"), Rec("DRY_RUN_INTENT"), To("Flat")>>
QueueEffects   == <<To("Evaluating"), Rec("GREEK_PASSED"), To("PendingApproval"), Publish>>
EnterEffects   == <<To("Evaluating"), Rec("GREEK_PASSED"), To("PendingEntry"),
                    Rec("ORDER_SUBMIT"), Send("entry")>>

\* Mutant of UnknownEffects: the error of the entry is recorded and the state stays.
UnknownEffectsNoReturn ==
    <<To("Evaluating"), Rec("GREEK_PASSED"), To("PendingEntry"), Rec("ORDER_SUBMIT"),
      Rec("ORDER_ERROR")>>

\* Mutant of UnknownEffects: the instrument is looked up before ORDER_SUBMIT.
UnknownEffectsEarly ==
    <<To("Evaluating"), Rec("GREEK_PASSED"), To("PendingEntry"), Rec("ORDER_ERROR"), To("Flat")>>

UnknownEffects == <<To("Evaluating"), Rec("GREEK_PASSED"), To("PendingEntry"),
                    Rec("ORDER_SUBMIT"), Rec("ORDER_ERROR"), To("Flat")>>

\* finalize of the selector and the handler of the answer, in one call.  Both record
\* SELECTOR_REJECTED; the entry of the strategy is REJECTION_HEARD here.
TurnDownEffects == <<Rec("SELECTOR_REJECTED"), Rec("REJECTION_HEARD"), To("Flat")>>
ApproveEffects  == <<Rec("SELECTOR_APPROVED"), Rec("APPROVAL"), To("PendingEntry"),
                     Rec("ORDER_SUBMIT"), Send("entry")>>
ApproveUnknownEffects ==
    <<Rec("SELECTOR_APPROVED"), Rec("APPROVAL"), To("PendingEntry"), Rec("ORDER_SUBMIT"),
      Rec("ORDER_ERROR"), To("Flat")>>

BookedEffects  == <<Rec("FILL"), Rec("LEARNING_RECORD"), Rec("PNL")>>
EnteredEffects == <<Rec("FILL"), Rec("LEARNING_RECORD"), Rec("PNL"), To("InPosition")>>
ExitedEffects  == <<Rec("FILL"), Rec("LEARNING_RECORD"), Rec("PNL"), To("Flat")>>
StrayEffects   == <<Rec("FILL"), Rec("PNL")>>
RefusedEffects == <<Rec("ORDER_REFUSED"), To("Flat")>>
HedgeEffects   == <<Rec("DELTA_HEDGE"), Send("hedge")>>

\* Mutant of ExitEffects: the exit is sent before the transition.
ExitEffectsSendFirst == <<Send("exit"), To("Exiting")>>

ExitEffects    == <<To("Exiting"), Send("exit")>>

\* The instrument of the exit is not found: a spread is left as it is, plumbing
\* records the error and gives up.
ExitLostEffects    == <<To("Exiting")>>
ExitUnknownEffects == <<To("Exiting"), Rec("ORDER_ERROR"), To("Flat")>>

Effects ==
    [start |-> StartEffects, stop |-> StopEffects, leave |-> LeaveEffects,
     reject |-> RejectEffects, enter |-> EnterEffects, unknown |-> UnknownEffects,
     dry |-> DryEffects, queue |-> QueueEffects, turnDown |-> TurnDownEffects,
     approve |-> ApproveEffects, approveUnknown |-> ApproveUnknownEffects,
     entered |-> EnteredEffects, exited |-> ExitedEffects, booked |-> BookedEffects,
     stray |-> StrayEffects, refused |-> RefusedEffects, hedge |-> HedgeEffects,
     exit |-> ExitEffects, exitLost |-> ExitLostEffects, exitUnknown |-> ExitUnknownEffects]

Trading == DOMAIN Effects \ {"start", "stop", "leave"}

\* An entry carries the intent it is about.
NodeEvents   == {"NODE_START", "STRATEGY_START", "STRATEGY_STOP", "NODE_STOP", "FLATTEN_REQUEST"}
IntentEvents == {"GATE_REJECT", "GREEK_PASSED", "DRY_RUN_INTENT", "SELECTOR_APPROVED", "APPROVAL",
                 "SELECTOR_REJECTED", "REJECTION_HEARD", "ORDER_SUBMIT", "ORDER_ERROR"}

Entry(event, intent) == [event |-> event, ref |-> intent]

-----------------------------------------------------------------------------
(* Running the effects.                                                     *)

Running == handler \notin {"idle", "down"}
Effect  == Effects[handler][at]

\* What the process does when the last effect of a handler is behind it.
Continue(h) == IF h \in {"stop", "leave"} THEN "down" ELSE "idle"

Step ==
    IF at < Len(Effects[handler])
      THEN at' = at + 1 /\ UNCHANGED handler
      ELSE at' = 1 /\ handler' = Continue(handler)

\* Mutant of ActiveAfter: the intent becomes active when its entry fills.
ActiveAfterFill ==
    CASE Effect = To("InPosition") -> built
      [] Effect = To("Flat") /\ handler \in {"exited", "refused"} -> NoIntent
      [] OTHER -> active

\* The state, the intent and the latches are set before anything is recorded.
ActiveAfter ==
    CASE Effect = To("PendingEntry") -> built
      [] Effect = To("Flat") /\ handler \in {"exited", "refused"} -> NoIntent
      [] OTHER -> active

Move ==
    /\ state' = IF Effect.do = "move" THEN Effect.what ELSE state
    /\ active' = ActiveAfter
    /\ hedged' = (hedged \/ handler = "hedge")
    /\ triggered' = (triggered \/ Effect = To("Exiting"))
    /\ unfound' = (unfound \/ handler = "exitLost")
    /\ UNCHANGED built

Written ==
    Entry(Effect.what, CASE Effect.what \in NodeEvents   -> NoIntent
                         [] Effect.what \in IntentEvents -> built
                         [] OTHER                        -> active')

\* Mutant of Recorded: the newline of an entry is written with the next one.
RecordedWithoutNewline(entry) ==
    /\ file' = Appended(file, entry, "text")
    /\ acknowledged' = acknowledged \cup {Len(file')}
    /\ UNCHANGED faults

\* Mutant of Recorded: the file is opened for writing.
RecordedOver(entry) ==
    /\ file' = Appended(<<>>, entry, "line")
    /\ acknowledged' = {1}
    /\ UNCHANGED faults

Recorded(entry) ==
    /\ file' = Appended(file, entry, "line")
    /\ acknowledged' = acknowledged \cup {Len(file')}
    /\ UNCHANGED faults

\* The call raises; a piece of the text may have reached the file.
NotRecorded(entry) ==
    /\ faults < MaxFaults
    /\ faults' = faults + 1
    /\ \/ UNCHANGED file
       \/ \E form \in Torn : file' = Appended(file, entry, form)
    /\ UNCHANGED acknowledged

\* A move and its record, or a record of an event, is one synchronous call.
RecordSucceeds ==
    /\ Running /\ Effect.do \in {"move", "record"}
    /\ Move
    /\ Recorded(Written)
    /\ Step
    /\ UNCHANGED <<profile, requests, lives, aborted, asked, venue>>

\* The exception leaves the handler.  The engine logs it and goes on, or the
\* node stops and the finally clause records it, or the process dies.
Left ==
    \/ handler' = "idle" /\ handler \in Trading
    \/ handler' = "leave" /\ (handler \in Trading \/ handler = "stop" \/ Effect = Rec("STRATEGY_START"))
    \/ handler' = "down"

RecordFails ==
    /\ Running /\ Effect.do \in {"move", "record"}
    /\ Move
    /\ NotRecorded(Written)
    /\ Left
    /\ at' = 1
    /\ aborted' = TRUE
    /\ UNCHANGED <<profile, requests, lives, asked, venue>>

SendOrder ==
    /\ Running /\ Effect.do = "send"
    /\ sent' = sent \cup {<<active, Effect.what>>}
    /\ working' = working \cup {<<active, Effect.what>>}
    /\ Step
    /\ UNCHANGED <<profile, journal, requests, lives, aborted, strategy, asked>>

\* The intent is in the buffer of the selector, and its alert is set.
PublishIntent ==
    /\ Running /\ Effect.do = "publish"
    /\ asked' = TRUE
    /\ Step
    /\ UNCHANGED <<profile, journal, requests, lives, aborted, strategy, venue>>

\* NODE_START is in the file when the build raises, and no NODE_STOP follows.
BuildNode ==
    /\ Running /\ Effect = Build
    /\ \/ Step
       \/ handler' = "down" /\ at' = 1
    /\ UNCHANGED <<profile, journal, requests, lives, aborted, strategy, asked, venue>>

-----------------------------------------------------------------------------
(* Handlers begin.                                                          *)

Begin(h) == handler = "idle" /\ handler' = h /\ at' = 1 /\ UNCHANGED <<lives, aborted>>

\* What an evaluation comes to that passes the gates.
Passed == CASE profile.mode = "dryRun"   -> {"dry"}
            [] profile.mode = "selector" -> {"queue"}
            [] profile.mode = "direct"   -> {"enter", "unknown"}

Evaluate ==
    /\ state = "Flat" /\ built < MaxIntents
    /\ built' = built + 1
    /\ \E h \in {"reject"} \cup Passed : Begin(h)
    /\ UNCHANGED <<profile, journal, requests, state, active, latches, asked, venue>>

\* finalize empties the buffer before it answers, at its alert or when the actors stop.
OnAnswer ==
    /\ asked
    /\ asked' = FALSE
    /\ \E h \in {"approve", "approveUnknown", "turnDown"} : Begin(h)
    /\ UNCHANGED <<profile, journal, requests, strategy, venue>>

\* The hedge is latched although its instrument may not be found.
OnOptionGreeks ==
    /\ ~profile.plumbing /\ profile.hedging
    /\ state = "InPosition" /\ ~hedged
    /\ \/ Begin("hedge") /\ UNCHANGED hedged
       \/ handler = "idle" /\ hedged' = TRUE /\ UNCHANGED process
    /\ UNCHANGED <<profile, journal, requests, state, active, triggered, unfound, built, asked, venue>>

\* A take-profit or stop-loss trigger.
CheckExitTriggers ==
    /\ state = "InPosition" /\ active # NoIntent /\ ~triggered
    /\ \E h \in {"exit", IF profile.plumbing THEN "exitUnknown" ELSE "exitLost"} : Begin(h)
    /\ UNCHANGED <<profile, journal, requests, strategy, asked, venue>>

\* cancel_all_orders needs an instrument: the call raises before anything else is done,
\* and the exception takes the ways of Left.  (The engine that goes on changes nothing.)
FlattenPositions ==
    /\ handler = "idle" /\ state \in {"InPosition", "PendingEntry"}
    /\ handler' \in {"leave", "down"} /\ at' = 1
    /\ UNCHANGED <<profile, journal, requests, lives, aborted, strategy, asked, venue>>

FillHandler ==
    CASE active = NoIntent      -> "stray"
      [] state = "PendingEntry" -> "entered"
      [] state = "Exiting"      -> "exited"
      [] OTHER                  -> "booked"

OnOrderFilled ==
    /\ \E order \in working : working' = working \ {order}
    /\ Begin(FillHandler)
    /\ UNCHANGED <<profile, journal, requests, strategy, asked, sent>>

\* on_order_rejected and on_order_denied act on any order of the strategy.
OnOrderRefused ==
    /\ \E order \in working : working' = working \ {order}
    /\ IF state = "PendingEntry" THEN Begin("refused") ELSE handler = "idle" /\ UNCHANGED process
    /\ UNCHANGED <<profile, journal, requests, strategy, asked, sent>>

-----------------------------------------------------------------------------
(* The process, and the command line beside it.                             *)

Start ==
    /\ handler = "down" /\ lives < MaxLives
    /\ lives' = lives + 1
    /\ handler' = "start" /\ at' = 1 /\ aborted' = FALSE
    /\ state' = "Flat" /\ active' = NoIntent
    /\ hedged' = FALSE /\ triggered' = FALSE /\ unfound' = FALSE
    /\ asked' = FALSE /\ working' = {}
    /\ UNCHANGED <<profile, journal, requests, built, sent>>

\* The actors stop first: the selector has answered when the strategy stops.
Stop ==
    /\ ~asked
    /\ Begin("stop")
    /\ UNCHANGED <<profile, journal, requests, strategy, asked, venue>>

Die ==
    /\ handler # "down"
    /\ handler' = "down" /\ at' = 1
    /\ UNCHANGED <<profile, journal, requests, lives, aborted, strategy, asked, venue>>

\* cli flatten: nothing but an entry, from another process.
CliFlatten ==
    /\ requests < MaxRequests
    /\ requests' = requests + 1
    /\ Recorded(Entry("FLATTEN_REQUEST", NoIntent)) \/ NotRecorded(Entry("FLATTEN_REQUEST", NoIntent))
    /\ UNCHANGED <<profile, process, strategy, asked, venue>>

Init ==
    /\ profile \in Profiles
    /\ file = <<>> /\ acknowledged = {} /\ faults = 0
    /\ requests = 0 /\ lives = 0
    /\ handler = "down" /\ at = 1 /\ aborted = FALSE
    /\ state = "Flat" /\ active = NoIntent /\ built = 0
    /\ hedged = FALSE /\ triggered = FALSE /\ unfound = FALSE
    /\ asked = FALSE /\ sent = {} /\ working = {}

Next ==
    \/ RecordSucceeds \/ RecordFails \/ PublishIntent \/ SendOrder \/ BuildNode
    \/ Evaluate \/ OnAnswer \/ OnOptionGreeks \/ CheckExitTriggers \/ FlattenPositions
    \/ OnOrderFilled \/ OnOrderRefused
    \/ Start \/ Stop \/ Die \/ CliFlatten

Spec == Init /\ [][Next]_vars

-----------------------------------------------------------------------------
(* Properties.                                                              *)

States == {"Flat", "Evaluating", "PendingApproval", "PendingEntry", "InPosition", "Exiting"}
Events == NodeEvents \cup IntentEvents \cup States \cup
          {"FILL", "LEARNING_RECORD", "PNL", "ORDER_REFUSED", "DELTA_HEDGE"}
Entries == [event : Events, ref : Intents \cup {NoIntent}]

\* The values of every variable: no order is sent without an intent, and a
\* state that holds orders always has one.
TypeOK ==
    /\ profile \in Profiles
    /\ file \in Seq([entry : Entries, form : Forms])
    /\ acknowledged \subseteq DOMAIN file
    /\ faults \in 0 .. MaxFaults /\ requests \in 0 .. MaxRequests /\ lives \in 0 .. MaxLives
    /\ handler \in DOMAIN Effects \cup {"idle", "down"}
    /\ at \in Nat \ {0} /\ (Running => at \in DOMAIN Effects[handler])
    /\ aborted \in BOOLEAN /\ asked \in BOOLEAN
    /\ hedged \in BOOLEAN /\ triggered \in BOOLEAN /\ unfound \in BOOLEAN
    /\ state \in States
    /\ active \in 0 .. built /\ built \in 0 .. MaxIntents
    /\ sent \subseteq Intents \X Roles /\ working \subseteq sent

\* A write that fails costs one acknowledged entry at most, although nothing
\* looks at the end of the file before the next one is appended to it.
LossBounded == Cardinality(acknowledged \ Finished(file)) <= faults

Announcement(order) ==
    Entry(CASE order[2] = "entry" -> "ORDER_SUBMIT"
            [] order[2] = "exit"  -> "Exiting"
            [] order[2] = "hedge" -> "DELTA_HEDGE", order[1])

\* The journal is written ahead of the orders: whatever fails or dies, an order
\* that reached the venue has its announcement among the acknowledged entries.
OrdersAnnounced ==
    \A order \in sent : \E k \in acknowledged : file[k] = Piece(Announcement(order), "line")

\* A strategy at rest waits for something that is on its way: it is not between two
\* states, the selector owes it the answer, the order was sent.  What leaves it waiting
\* for nothing is a write that failed, or the exit of a spread whose instrument is not
\* found, which moves to EXITING and returns.
StrandedOnlyByFailure ==
    handler = "idle" /\ ~aborted =>
        /\ state # "Evaluating"
        /\ state = "PendingApproval" => asked
        /\ state = "PendingEntry" => <<active, "entry">> \in sent
        /\ state = "Exiting" => <<active, "exit">> \in sent \/ unfound

Count(events) == Cardinality({k \in DOMAIN file : Loaded(file)[k].event \in events})
Outcomes == {"GATE_REJECT", "DRY_RUN_INTENT", "REJECTION_HEARD", "ORDER_SUBMIT"}
Waiting  == IF asked THEN 1 ELSE 0

\* What the reports are read for: in a file that can be loaded while the node is at
\* rest, every evaluation ended at its gate, in a dry run, at the selector or in an
\* order, or waits for the selector, but one for each failed write and each earlier
\* start; and no outcome is counted without its evaluation.
OutcomesAddUp ==
    Loads(file) /\ handler = "idle" =>
        /\ Count(Outcomes) + Waiting <= Count({"Evaluating"})
        /\ Count({"Evaluating"}) < Count(Outcomes) + Waiting + faults + lives

\* What can be read back from the file is an append-only log, whatever fails.
Log == INSTANCE AuditLog WITH log <- {<<k, file[k].entry>> : k \in Finished(file)}

ImplementsAuditLog == Log!Spec
=============================================================================
