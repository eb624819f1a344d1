-------------------------- MODULE AuditTrailProofs --------------------------
(***************************************************************************)
(* Theorems about AuditTrail, for every set of profiles and every bound on *)
(* intents, faults, lives and requests. The handlers are sequences of      *)
(* effects: EffectsTyped, EffectsOrder and RecordPlaces say what stands in *)
(* them, the invariants say what the state is at each place, and           *)
(* JournalStep reduces every step to what it does to the file, which is    *)
(* all that LossBounded and the refinement depend on.                      *)
(***************************************************************************)
EXTENDS AuditTrail, FiniteSetTheorems, TLAPS

-----------------------------------------------------------------------------
(* The handlers.                                                            *)

\* What the effects of every handler are.
LEMMA EffectsTyped ==
    \A h \in DOMAIN Effects : \A k \in DOMAIN Effects[h] :
        /\ Effects[h][k].do \in {"move", "record", "send", "build", "publish"}
        /\ Effects[h][k].do = "move" => Effects[h][k].what \in States
        /\ Effects[h][k].do \in {"move", "record"} => Effects[h][k].what \in Events
        /\ Effects[h][k].do = "send" => Effects[h][k].what \in Roles
<1> TAKE h \in DOMAIN Effects
<1> TAKE k \in DOMAIN Effects[h]
<1> USE DEF To, Rec, Send, Build, Publish, States, Events, NodeEvents, IntentEvents, Roles
<1>1. CASE h = "start"
  BY <1>1 DEF Effects, StartEffects
<1>2. CASE h = "stop"
  BY <1>2 DEF Effects, StopEffects
<1>3. CASE h = "leave"
  BY <1>3 DEF Effects, LeaveEffects
<1>4. CASE h = "reject"
  BY <1>4 DEF Effects, RejectEffects
<1>5. CASE h = "dry"
  BY <1>5 DEF Effects, DryEffects
<1>6. CASE h = "queue"
  BY <1>6 DEF Effects, QueueEffects
<1>7. CASE h = "enter"
  BY <1>7 DEF Effects, EnterEffects
<1>8. CASE h = "unknown"
  BY <1>8 DEF Effects, UnknownEffects
<1>9. CASE h = "turnDown"
  BY <1>9 DEF Effects, TurnDownEffects
<1>10. CASE h = "approve"
  BY <1>10 DEF Effects, ApproveEffects
<1>11. CASE h = "approveUnknown"
  BY <1>11 DEF Effects, ApproveUnknownEffects
<1>12. CASE h = "entered"
  BY <1>12 DEF Effects, EnteredEffects
<1>13. CASE h = "exited"
  BY <1>13 DEF Effects, ExitedEffects
<1>14. CASE h = "booked"
  BY <1>14 DEF Effects, BookedEffects
<1>15. CASE h = "stray"
  BY <1>15 DEF Effects, StrayEffects
<1>16. CASE h = "refused"
  BY <1>16 DEF Effects, RefusedEffects
<1>17. CASE h = "hedge"
  BY <1>17 DEF Effects, HedgeEffects
<1>18. CASE h = "exit"
  BY <1>18 DEF Effects, ExitEffects
<1>19. CASE h = "exitLost"
  BY <1>19 DEF Effects, ExitLostEffects
<1>20. CASE h = "exitUnknown"
  BY <1>20 DEF Effects, ExitUnknownEffects
<1> QED
  BY <1>1, <1>2, <1>3, <1>4, <1>5, <1>6, <1>7, <1>8, <1>9, <1>10, <1>11, <1>12,
     <1>13, <1>14, <1>15, <1>16, <1>17, <1>18, <1>19, <1>20 DEF Effects

\* Every handler is a sequence with at least one effect.
LEMMA EffectsLength ==
    \A h \in DOMAIN Effects :
        /\ Len(Effects[h]) \in Nat \ {0}
        /\ DOMAIN Effects[h] = 1 .. Len(Effects[h])
<1> TAKE h \in DOMAIN Effects
<1>1. CASE h = "start"
  BY <1>1 DEF Effects, StartEffects
<1>2. CASE h = "stop"
  BY <1>2 DEF Effects, StopEffects
<1>3. CASE h = "leave"
  BY <1>3 DEF Effects, LeaveEffects
<1>4. CASE h = "reject"
  BY <1>4 DEF Effects, RejectEffects
<1>5. CASE h = "dry"
  BY <1>5 DEF Effects, DryEffects
<1>6. CASE h = "queue"
  BY <1>6 DEF Effects, QueueEffects
<1>7. CASE h = "enter"
  BY <1>7 DEF Effects, EnterEffects
<1>8. CASE h = "unknown"
  BY <1>8 DEF Effects, UnknownEffects
<1>9. CASE h = "turnDown"
  BY <1>9 DEF Effects, TurnDownEffects
<1>10. CASE h = "approve"
  BY <1>10 DEF Effects, ApproveEffects
<1>11. CASE h = "approveUnknown"
  BY <1>11 DEF Effects, ApproveUnknownEffects
<1>12. CASE h = "entered"
  BY <1>12 DEF Effects, EnteredEffects
<1>13. CASE h = "exited"
  BY <1>13 DEF Effects, ExitedEffects
<1>14. CASE h = "booked"
  BY <1>14 DEF Effects, BookedEffects
<1>15. CASE h = "stray"
  BY <1>15 DEF Effects, StrayEffects
<1>16. CASE h = "refused"
  BY <1>16 DEF Effects, RefusedEffects
<1>17. CASE h = "hedge"
  BY <1>17 DEF Effects, HedgeEffects
<1>18. CASE h = "exit"
  BY <1>18 DEF Effects, ExitEffects
<1>19. CASE h = "exitLost"
  BY <1>19 DEF Effects, ExitLostEffects
<1>20. CASE h = "exitUnknown"
  BY <1>20 DEF Effects, ExitUnknownEffects
<1> QED
  BY <1>1, <1>2, <1>3, <1>4, <1>5, <1>6, <1>7, <1>8, <1>9, <1>10, <1>11, <1>12,
     <1>13, <1>14, <1>15, <1>16, <1>17, <1>18, <1>19, <1>20 DEF Effects

Evaluations == {"reject", "dry", "queue", "enter", "unknown"}
Answers     == {"turnDown", "approve", "approveUnknown"}
Entering    == {"enter", "approve"}
Failing     == {"unknown", "approveUnknown"}
Exits       == {"exit", "exitLost", "exitUnknown"}

\* What stands where: the moves belong to a few handlers each, and the intent or
\* an order is sent by the last effect of its handler.
LEMMA EffectsOrder ==
    \A h \in DOMAIN Effects : \A k \in DOMAIN Effects[h] :
        LET e == Effects[h][k] IN
        /\ e = To("Evaluating") => h \in Evaluations /\ k = 1 /\ k < Len(Effects[h])
        /\ e = To("PendingApproval") => h = "queue" /\ k = 3 /\ k < Len(Effects[h])
        /\ e = To("PendingEntry") => h \in Entering \cup Failing /\ k = 3 /\ k < Len(Effects[h])
        /\ e = To("InPosition") => h = "entered"
        /\ e = To("Exiting") => h \in Exits /\ k = 1 /\ (h # "exitLost" => k < Len(Effects[h]))
        /\ e = To("Flat") /\ h = "exited" => k = Len(Effects[h])
        /\ e.do = "move" => e = To(e.what)
        /\ e.do = "publish" => h = "queue" /\ k = 4 /\ k = Len(Effects[h])
        /\ e.do = "send" => k = Len(Effects[h])
        /\ e.do = "send" =>
             \/ h \in Entering /\ k = 5 /\ e.what = "entry"
             \/ h = "exit"  /\ k = 2 /\ e.what = "exit"
             \/ h = "hedge" /\ k = 2 /\ e.what = "hedge"
<1> TAKE h \in DOMAIN Effects
<1> TAKE k \in DOMAIN Effects[h]
<1> USE DEF To, Rec, Send, Build, Publish, Evaluations, Entering, Failing, Exits
<1>1. CASE h = "start"
  BY <1>1 DEF Effects, StartEffects
<1>2. CASE h = "stop"
  BY <1>2 DEF Effects, StopEffects
<1>3. CASE h = "leave"
  BY <1>3 DEF Effects, LeaveEffects
<1>4. CASE h = "reject"
  BY <1>4 DEF Effects, RejectEffects
<1>5. CASE h = "dry"
  BY <1>5 DEF Effects, DryEffects
<1>6. CASE h = "queue"
  BY <1>6 DEF Effects, QueueEffects
<1>7. CASE h = "enter"
  BY <1>7 DEF Effects, EnterEffects
<1>8. CASE h = "unknown"
  BY <1>8 DEF Effects, UnknownEffects
<1>9. CASE h = "turnDown"
  BY <1>9 DEF Effects, TurnDownEffects
<1>10. CASE h = "approve"
  BY <1>10 DEF Effects, ApproveEffects
<1>11. CASE h = "approveUnknown"
  BY <1>11 DEF Effects, ApproveUnknownEffects
<1>12. CASE h = "entered"
  BY <1>12 DEF Effects, EnteredEffects
<1>13. CASE h = "exited"
  BY <1>13 DEF Effects, ExitedEffects
<1>14. CASE h = "booked"
  BY <1>14 DEF Effects, BookedEffects
<1>15. CASE h = "stray"
  BY <1>15 DEF Effects, StrayEffects
<1>16. CASE h = "refused"
  BY <1>16 DEF Effects, RefusedEffects
<1>17. CASE h = "hedge"
  BY <1>17 DEF Effects, HedgeEffects
<1>18. CASE h = "exit"
  BY <1>18 DEF Effects, ExitEffects
<1>19. CASE h = "exitLost"
  BY <1>19 DEF Effects, ExitLostEffects
<1>20. CASE h = "exitUnknown"
  BY <1>20 DEF Effects, ExitUnknownEffects
<1> QED
  BY <1>1, <1>2, <1>3, <1>4, <1>5, <1>6, <1>7, <1>8, <1>9, <1>10, <1>11, <1>12,
     <1>13, <1>14, <1>15, <1>16, <1>17, <1>18, <1>19, <1>20 DEF Effects

\* Where the handlers that hold a strategy in a state it must leave record an event:
\* never as their last effect.
LEMMA RecordPlaces ==
    \A h \in DOMAIN Effects : \A k \in DOMAIN Effects[h] :
        Effects[h][k].do = "record" =>
            /\ h \in Evaluations \cup Answers => k < Len(Effects[h])
            /\ h = "exitUnknown" => k = 2 /\ k < Len(Effects[h])
            /\ h \in {"reject", "queue"} => k = 2
            /\ h = "dry" => k \in {2, 3}
            /\ h = "enter" => k \in {2, 4}
            /\ h = "unknown" => k \in {2, 4, 5}
            /\ h = "turnDown" => k \in {1, 2}
            /\ h = "approve" => k \in {1, 2, 4}
            /\ h = "approveUnknown" => k \in {1, 2, 4, 5}
            /\ h # "exit" /\ h # "exitLost"
<1> TAKE h \in DOMAIN Effects
<1> TAKE k \in DOMAIN Effects[h]
<1> USE DEF To, Rec, Send, Build, Publish, Evaluations, Answers
<1>1. CASE h = "start"
  BY <1>1 DEF Effects, StartEffects
<1>2. CASE h = "stop"
  BY <1>2 DEF Effects, StopEffects
<1>3. CASE h = "leave"
  BY <1>3 DEF Effects, LeaveEffects
<1>4. CASE h = "reject"
  BY <1>4 DEF Effects, RejectEffects
<1>5. CASE h = "dry"
  BY <1>5 DEF Effects, DryEffects
<1>6. CASE h = "queue"
  BY <1>6 DEF Effects, QueueEffects
<1>7. CASE h = "enter"
  BY <1>7 DEF Effects, EnterEffects
<1>8. CASE h = "unknown"
  BY <1>8 DEF Effects, UnknownEffects
<1>9. CASE h = "turnDown"
  BY <1>9 DEF Effects, TurnDownEffects
<1>10. CASE h = "approve"
  BY <1>10 DEF Effects, ApproveEffects
<1>11. CASE h = "approveUnknown"
  BY <1>11 DEF Effects, ApproveUnknownEffects
<1>12. CASE h = "entered"
  BY <1>12 DEF Effects, EnteredEffects
<1>13. CASE h = "exited"
  BY <1>13 DEF Effects, ExitedEffects
<1>14. CASE h = "booked"
  BY <1>14 DEF Effects, BookedEffects
<1>15. CASE h = "stray"
  BY <1>15 DEF Effects, StrayEffects
<1>16. CASE h = "refused"
  BY <1>16 DEF Effects, RefusedEffects
<1>17. CASE h = "hedge"
  BY <1>17 DEF Effects, HedgeEffects
<1>18. CASE h = "exit"
  BY <1>18 DEF Effects, ExitEffects
<1>19. CASE h = "exitLost"
  BY <1>19 DEF Effects, ExitLostEffects
<1>20. CASE h = "exitUnknown"
  BY <1>20 DEF Effects, ExitUnknownEffects
<1> QED
  BY <1>1, <1>2, <1>3, <1>4, <1>5, <1>6, <1>7, <1>8, <1>9, <1>10, <1>11, <1>12,
     <1>13, <1>14, <1>15, <1>16, <1>17, <1>18, <1>19, <1>20 DEF Effects

\* Only the start of the node builds it.
LEMMA BuildIsStart ==
    \A h \in DOMAIN Effects : \A k \in DOMAIN Effects[h] : Effects[h][k].do = "build" => h = "start"
<1> TAKE h \in DOMAIN Effects
<1> TAKE k \in DOMAIN Effects[h]
<1> USE DEF To, Rec, Send, Build, Publish
<1>1. CASE h = "start"
  BY <1>1 DEF Effects, StartEffects
<1>2. CASE h = "stop"
  BY <1>2 DEF Effects, StopEffects
<1>3. CASE h = "leave"
  BY <1>3 DEF Effects, LeaveEffects
<1>4. CASE h = "reject"
  BY <1>4 DEF Effects, RejectEffects
<1>5. CASE h = "dry"
  BY <1>5 DEF Effects, DryEffects
<1>6. CASE h = "queue"
  BY <1>6 DEF Effects, QueueEffects
<1>7. CASE h = "enter"
  BY <1>7 DEF Effects, EnterEffects
<1>8. CASE h = "unknown"
  BY <1>8 DEF Effects, UnknownEffects
<1>9. CASE h = "turnDown"
  BY <1>9 DEF Effects, TurnDownEffects
<1>10. CASE h = "approve"
  BY <1>10 DEF Effects, ApproveEffects
<1>11. CASE h = "approveUnknown"
  BY <1>11 DEF Effects, ApproveUnknownEffects
<1>12. CASE h = "entered"
  BY <1>12 DEF Effects, EnteredEffects
<1>13. CASE h = "exited"
  BY <1>13 DEF Effects, ExitedEffects
<1>14. CASE h = "booked"
  BY <1>14 DEF Effects, BookedEffects
<1>15. CASE h = "stray"
  BY <1>15 DEF Effects, StrayEffects
<1>16. CASE h = "refused"
  BY <1>16 DEF Effects, RefusedEffects
<1>17. CASE h = "hedge"
  BY <1>17 DEF Effects, HedgeEffects
<1>18. CASE h = "exit"
  BY <1>18 DEF Effects, ExitEffects
<1>19. CASE h = "exitLost"
  BY <1>19 DEF Effects, ExitLostEffects
<1>20. CASE h = "exitUnknown"
  BY <1>20 DEF Effects, ExitUnknownEffects
<1> QED
  BY <1>1, <1>2, <1>3, <1>4, <1>5, <1>6, <1>7, <1>8, <1>9, <1>10, <1>11, <1>12,
     <1>13, <1>14, <1>15, <1>16, <1>17, <1>18, <1>19, <1>20 DEF Effects

\* The handlers that send an order.
LEMMA EffectsFollowed ==
    /\ Effects["enter"] = EnterEffects /\ Effects["approve"] = ApproveEffects
    /\ Effects["exit"] = ExitEffects /\ Effects["hedge"] = HedgeEffects
BY DEF Effects

-----------------------------------------------------------------------------
(* The file.                                                                *)

Pieces == [entry : Entries, form : Forms]

\* A piece appended to a file: what was there stays in its place.
LEMMA AppendPiece ==
    ASSUME file \in Seq(Pieces), NEW e \in Entries, NEW f \in Forms, file' = Appended(file, e, f)
    PROVE  /\ file' \in Seq(Pieces)
           /\ Len(file) \in Nat /\ Len(file') = Len(file) + 1
           /\ DOMAIN file = 1 .. Len(file) /\ DOMAIN file' = DOMAIN file \cup {Len(file')}
           /\ file'[Len(file')] = Piece(e, f)
           /\ file'[Len(file')].entry = e /\ file'[Len(file')].form = f
           /\ \A k \in DOMAIN file : file'[k] = file[k]
<1>1. Piece(e, f) \in Pieces /\ Piece(e, f).entry = e /\ Piece(e, f).form = f
  BY DEF Piece, Pieces
<1> QED BY <1>1 DEF Appended

\* A line becomes an entry of its own unless it stands behind a fragment, and
\* a fragment never does; what was an entry before remains one.
LEMMA FinishedAfterAppend ==
    ASSUME file \in Seq(Pieces), NEW e \in Entries, NEW f \in Forms, file' = Appended(file, e, f)
    PROVE  Finished(file)' =
               IF f = "line" /\ (file = <<>> \/ file[Len(file)].form = "line")
               THEN Finished(file) \cup {Len(file')} ELSE Finished(file)
<1>1. /\ Len(file) \in Nat /\ Len(file') = Len(file) + 1
      /\ DOMAIN file = 1 .. Len(file) /\ DOMAIN file' = DOMAIN file \cup {Len(file')}
      /\ file'[Len(file')].form = f
      /\ \A k \in DOMAIN file : file'[k] = file[k]
  BY AppendPiece
<1>2. \A k \in DOMAIN file : k \in Finished(file)' <=> k \in Finished(file)
  BY <1>1 DEF Finished, BeginsLine
<1>3. Len(file') \in Finished(file)' <=> f = "line" /\ (file = <<>> \/ file[Len(file)].form = "line")
  <2>1. file = <<>> <=> Len(file) = 0
    OBVIOUS
  <2>2. CASE Len(file) = 0
    BY <1>1, <2>1, <2>2 DEF Finished, BeginsLine
  <2>3. CASE Len(file) # 0
    BY <1>1, <2>1, <2>3 DEF Finished, BeginsLine
  <2> QED BY <2>2, <2>3
<1>4. Finished(file) \subseteq DOMAIN file /\ Finished(file)' \subseteq DOMAIN file'
  BY DEF Finished
<1>5. CASE f = "line" /\ (file = <<>> \/ file[Len(file)].form = "line")
  BY <1>1, <1>2, <1>3, <1>4, <1>5
<1>6. CASE ~(f = "line" /\ (file = <<>> \/ file[Len(file)].form = "line"))
  <2>1. Len(file') \notin Finished(file)'
    BY <1>3, <1>6
  <2>2. Finished(file)' = Finished(file)
    BY <1>1, <1>2, <1>4, <2>1
  <2> QED BY <1>6, <2>2
<1> QED BY <1>5, <1>6

-----------------------------------------------------------------------------
(* Types, and the intent a handler works for.                               *)

\* A handler that evaluates or hears an answer has an intent that was built; one
\* that books, exits or hedges has the intent it does it for, and so has every
\* state with orders.
IntentKnown ==
    /\ handler \in Evaluations \cup Answers => built # 0
    /\ handler \in {"entered", "exited", "hedge"} \cup Exits => active # NoIntent
    /\ state = "PendingApproval" => built # 0
    /\ state \in {"PendingEntry", "InPosition", "Exiting"} => active # NoIntent

\* An order that is sent next has an intent: for the entry, the one last built.
EntryIntent == handler \in Entering /\ at \in {4, 5} => active = built

\* The selector owes an answer to a strategy that waits for it, and to no other; the
\* handlers that may run meanwhile do not move it.
AskedWaits ==
    /\ asked => /\ state = "PendingApproval"
                /\ handler \in {"idle", "down", "leave", "booked", "stray"}
    /\ handler = "queue" /\ at = 4 => state = "PendingApproval"

Typed == TypeOK /\ IntentKnown /\ EntryIntent /\ AskedWaits

LEMMA RunningEffect ==
    ASSUME TypeOK, Running
    PROVE  handler \in DOMAIN Effects /\ at \in DOMAIN Effects[handler]
BY DEF TypeOK, Running

\* Going on to the next effect, or to rest.
LEMMA StepTyped ==
    ASSUME TypeOK, Running, Step
    PROVE  /\ handler' \in DOMAIN Effects \cup {"idle", "down"}
           /\ at' \in Nat \ {0} /\ (Running => at \in DOMAIN Effects[handler])'
<1>1. /\ handler \in DOMAIN Effects /\ at \in 1 .. Len(Effects[handler])
      /\ Len(Effects[handler]) \in Nat \ {0}
      /\ DOMAIN Effects[handler] = 1 .. Len(Effects[handler])
  BY RunningEffect, EffectsLength
<1>2. CASE at < Len(Effects[handler])
  BY <1>1, <1>2 DEF Step, Running
<1>3. CASE ~(at < Len(Effects[handler]))
  BY <1>1, <1>3 DEF Step, Running, Continue
<1> QED BY <1>2, <1>3

\* A handler that begins, and every way to leave one.
LEMMA HandlerTyped ==
    ASSUME handler' \in DOMAIN Effects \cup {"idle", "down"}, at' = 1
    PROVE  at' \in Nat \ {0} /\ (Running => at \in DOMAIN Effects[handler])'
BY EffectsLength DEF Running

LEMMA MoveTyped ==
    ASSUME Typed, Running, Effect.do \in {"move", "record"}, Move
    PROVE  /\ state' \in States /\ active' \in 0 .. built /\ built' = built
           /\ hedged' \in BOOLEAN /\ triggered' \in BOOLEAN /\ unfound' \in BOOLEAN
           /\ Written \in Entries
<1>1. /\ Effect.do = "move" => Effect.what \in States /\ Effect = To(Effect.what)
      /\ Effect.what \in Events
  BY RunningEffect, EffectsTyped, EffectsOrder DEF Effect, Typed
<1>2. /\ state' \in States /\ built' = built
      /\ hedged' \in BOOLEAN /\ triggered' \in BOOLEAN /\ unfound' \in BOOLEAN
  BY <1>1 DEF Move, Typed, TypeOK
<1>3. built \in 0 .. MaxIntents /\ MaxIntents \in Nat /\ active \in 0 .. built
  BY AuditAssumption DEF Typed, TypeOK
<1>4. active' \in 0 .. built
  BY <1>3 DEF Move, ActiveAfter, NoIntent
<1>5. Written \in Entries
  BY <1>1, <1>3, <1>4 DEF Written, Entry, Entries, Intents, NoIntent
<1> QED BY <1>2, <1>4, <1>5

\* What a step does to the file is one record that succeeds, one that fails,
\* or nothing.
LEMMA JournalStep ==
    ASSUME Typed, [Next]_vars
    PROVE  \/ UNCHANGED journal
           \/ \E e \in Entries : Recorded(e) \/ NotRecorded(e)
<1>1. CASE RecordSucceeds
  BY <1>1, MoveTyped DEF RecordSucceeds
<1>2. CASE RecordFails
  BY <1>2, MoveTyped DEF RecordFails
<1>3. CASE CliFlatten
  <2>1. Entry("FLATTEN_REQUEST", NoIntent) \in Entries
    BY DEF Entry, Entries, Events, NodeEvents
  <2> QED BY <1>3, <2>1 DEF CliFlatten
<1>4. CASE UNCHANGED journal
  BY <1>4
<1> QED
  BY <1>1, <1>2, <1>3, <1>4
  DEF Next, vars, PublishIntent, SendOrder, BuildNode, Evaluate, OnAnswer, OnOptionGreeks,
      CheckExitTriggers, FlattenPositions, OnOrderFilled, OnOrderRefused, Start, Stop, Die

LEMMA JournalTyped ==
    ASSUME Typed, [Next]_vars
    PROVE  /\ file' \in Seq(Pieces) /\ acknowledged' \subseteq DOMAIN file'
           /\ faults' \in 0 .. MaxFaults
<1>1. file \in Seq(Pieces) /\ acknowledged \subseteq DOMAIN file /\ faults \in 0 .. MaxFaults
      /\ MaxFaults \in Nat
  BY AuditAssumption DEF Typed, TypeOK, Pieces
<1>2. CASE UNCHANGED journal
  BY <1>1, <1>2 DEF journal
<1>3. ASSUME NEW e \in Entries, Recorded(e)
      PROVE  /\ file' \in Seq(Pieces) /\ acknowledged' \subseteq DOMAIN file'
             /\ faults' \in 0 .. MaxFaults
  BY <1>1, <1>3, AppendPiece DEF Recorded, Forms
<1>4. ASSUME NEW e \in Entries, NotRecorded(e)
      PROVE  /\ file' \in Seq(Pieces) /\ acknowledged' \subseteq DOMAIN file'
             /\ faults' \in 0 .. MaxFaults
  <2>1. faults' \in 0 .. MaxFaults
    BY <1>1, <1>4 DEF NotRecorded
  <2>2. file' \in Seq(Pieces) /\ DOMAIN file \subseteq DOMAIN file'
    BY <1>1, <1>4, AppendPiece DEF NotRecorded, Forms
  <2> QED BY <1>1, <1>4, <2>1, <2>2 DEF NotRecorded
<1> QED BY <1>2, <1>3, <1>4, JournalStep

LEMMA TypedInit == Init => Typed
<1> SUFFICES ASSUME Init PROVE Typed
  OBVIOUS
<1>1. file \in Seq([entry : Entries, form : Forms]) /\ acknowledged \subseteq DOMAIN file
  BY DEF Init
<1>2. /\ faults \in 0 .. MaxFaults /\ requests \in 0 .. MaxRequests /\ lives \in 0 .. MaxLives
      /\ active \in 0 .. built /\ built \in 0 .. MaxIntents
  BY AuditAssumption DEF Init, NoIntent
<1>3. at \in Nat \ {0} /\ ~Running /\ handler \in DOMAIN Effects \cup {"idle", "down"}
  BY DEF Init, Running
<1>4. /\ profile \in Profiles /\ state \in States /\ aborted \in BOOLEAN /\ asked \in BOOLEAN
      /\ hedged \in BOOLEAN /\ triggered \in BOOLEAN /\ unfound \in BOOLEAN
      /\ sent \subseteq Intents \X Roles /\ working \subseteq sent
  BY DEF Init, States
<1>5. IntentKnown /\ EntryIntent /\ AskedWaits
  BY DEF Init, IntentKnown, EntryIntent, AskedWaits, Evaluations, Answers, Entering, Exits
<1> QED BY <1>1, <1>2, <1>3, <1>4, <1>5 DEF Typed, TypeOK

\* A move leaves no state with orders without its intent.
LEMMA MoveKeepsIntent ==
    ASSUME Typed, Running, Effect.do \in {"move", "record"}, Move
    PROVE  /\ state' \in {"PendingEntry", "InPosition", "Exiting"} => active' # NoIntent
           /\ state' = "PendingApproval" => state = "PendingApproval" \/ handler = "queue"
           /\ handler = "queue" /\ at = 3 => state' = "PendingApproval"
           /\ handler = "exited" /\ at < Len(Effects[handler]) => active' = active
           /\ handler \in {"entered", "hedge"} \cup Exits => active' = active
           /\ handler \in Entering /\ at = 3 => active' = built'
           /\ handler \in Entering /\ at = 4 => active' = active
<1> USE DEF Entering, Failing, Exits, Evaluations, Answers
<1>1. handler \in DOMAIN Effects /\ at \in 1 .. Len(Effects[handler]) /\ Len(Effects[handler]) \in Nat
  BY RunningEffect, EffectsLength DEF Typed
<1>2. /\ Effect = To("PendingEntry") => handler \in Entering \cup Failing /\ at = 3
      /\ Effect = To("PendingApproval") => handler = "queue"
      /\ Effect = To("InPosition") => handler = "entered"
      /\ Effect = To("Exiting") => handler \in Exits
      /\ Effect = To("Flat") /\ handler = "exited" => at = Len(Effects[handler])
      /\ Effect.do = "move" => Effect = To(Effect.what)
  BY RunningEffect, EffectsOrder DEF Effect, Typed
<1>3. To("PendingEntry") # To("Flat") /\ To("Flat").what = "Flat"
  BY DEF To
<1>4. handler = "queue" /\ at = 3 => Effect = To("PendingApproval")
  BY DEF Effect, Effects, QueueEffects
<1>5. handler = "queue" /\ at = 3 => state' = "PendingApproval"
  BY <1>4 DEF Move, To
<1>6. CASE Effect = To("PendingEntry")
  <2>1. active' = built /\ built' = built /\ state' = "PendingEntry"
    BY <1>3, <1>6 DEF Move, ActiveAfter, To
  <2>2. built # 0
    BY <1>2, <1>6 DEF Typed, IntentKnown
  <2> QED BY <1>2, <1>6, <1>5, <2>1, <2>2 DEF NoIntent
<1>7. CASE Effect = To("Flat") /\ handler \in {"exited", "refused"}
  <2>1. state' = "Flat"
    BY <1>3, <1>7 DEF Move, To
  <2> QED BY <1>1, <1>2, <1>7, <1>5, <2>1
<1>8. CASE Effect # To("PendingEntry") /\ ~(Effect = To("Flat") /\ handler \in {"exited", "refused"})
  <2>1. active' = active
    BY <1>8 DEF Move, ActiveAfter
  <2>2. /\ state' \in {"PendingEntry", "InPosition", "Exiting"} => active # NoIntent
        /\ state' = "PendingApproval" => state = "PendingApproval" \/ handler = "queue"
    <3>1. CASE Effect.do = "move"
      BY <1>2, <1>8, <3>1 DEF Move, Typed, IntentKnown
    <3>2. CASE Effect.do # "move"
      BY <3>2 DEF Move, Typed, IntentKnown
    <3> QED BY <3>1, <3>2
  <2>3. ~(handler \in Entering /\ at = 3)
    BY <1>8, EffectsFollowed DEF EnterEffects, ApproveEffects, Effect
  <2> QED BY <1>5, <2>1, <2>2, <2>3
<1> QED BY <1>6, <1>7, <1>8

\* The handlers that may run while the selector owes an answer move nothing.
LEMMA AskedStays ==
    ASSUME Typed, Running, Effect.do \in {"move", "record"}, Move, asked
    PROVE  state' = "PendingApproval" /\ handler \in {"leave", "booked", "stray"}
<1>1. handler \in {"leave", "booked", "stray"} /\ state = "PendingApproval"
  BY DEF Typed, AskedWaits, Running
<1>2. at \in DOMAIN Effects[handler] /\ handler \in DOMAIN Effects
  BY RunningEffect DEF Typed
<1>3. Effect.do # "move"
  <2>1. CASE handler = "leave"
    BY <1>2, <2>1 DEF Effect, Effects, LeaveEffects, Rec
  <2>2. CASE handler = "booked"
    BY <1>2, <2>2 DEF Effect, Effects, BookedEffects, Rec
  <2>3. CASE handler = "stray"
    BY <1>2, <2>3 DEF Effect, Effects, StrayEffects, Rec
  <2> QED BY <1>1, <2>1, <2>2, <2>3
<1> QED BY <1>1, <1>3 DEF Move

\* An evaluation begins, whatever the profile makes of it.
LEMMA EvaluationBegins ==
    ASSUME Typed, Evaluate
    PROVE  \E h \in Evaluations : Begin(h)
BY ProfileAssumption DEF Evaluate, Passed, Profile, Typed, TypeOK, Evaluations

\* The intent is published last.
LEMMA PublishEnds ==
    ASSUME Typed, PublishIntent
    PROVE  handler = "queue" /\ at = 4 /\ handler' = "idle" /\ at' = 1
<1>1. handler = "queue" /\ at = 4
  BY RunningEffect, EffectsOrder DEF PublishIntent, Typed, Effect
<1>2. at = Len(Effects[handler])
  BY RunningEffect, EffectsOrder DEF PublishIntent, Typed, Effect
<1>3. handler \in DOMAIN Effects
  BY RunningEffect DEF PublishIntent, Typed
<1>4. handler' \in {"idle", "down"} /\ at' = 1 /\ handler' = Continue(handler)
  BY <1>2, <1>3, EffectsLength DEF PublishIntent, Step, Continue
<1> QED BY <1>1, <1>4 DEF Continue

LEMMA TypedStep == Typed /\ [Next]_vars => Typed'
<1> SUFFICES ASSUME Typed, [Next]_vars PROVE Typed'
  OBVIOUS
<1> USE DEF Evaluations, Answers, Entering, Exits, latches
<1>1. /\ file' \in Seq([entry : Entries, form : Forms]) /\ acknowledged' \subseteq DOMAIN file'
      /\ faults' \in 0 .. MaxFaults
  BY JournalTyped DEF Pieces
<1>2. /\ requests \in 0 .. MaxRequests /\ MaxRequests \in Nat
      /\ lives \in 0 .. MaxLives /\ MaxLives \in Nat
      /\ built \in 0 .. MaxIntents /\ MaxIntents \in Nat
      /\ active \in 0 .. built /\ state \in States /\ NoIntent = 0
      /\ built >= built /\ sent \subseteq Intents \X Roles /\ working \subseteq sent
      /\ profile \in Profiles /\ aborted \in BOOLEAN /\ asked \in BOOLEAN
      /\ hedged \in BOOLEAN /\ triggered \in BOOLEAN /\ unfound \in BOOLEAN
  BY AuditAssumption DEF Typed, TypeOK, NoIntent
<1>3. ASSUME RecordSucceeds PROVE Typed'
  <2>1. /\ state' \in States /\ active' \in 0 .. built /\ built' = built
        /\ hedged' \in BOOLEAN /\ triggered' \in BOOLEAN /\ unfound' \in BOOLEAN
    BY <1>3, MoveTyped DEF RecordSucceeds
  <2>2. /\ handler' \in DOMAIN Effects \cup {"idle", "down"}
        /\ at' \in Nat \ {0} /\ (Running => at \in DOMAIN Effects[handler])'
    BY <1>3, StepTyped DEF RecordSucceeds, Typed
  <2>3. TypeOK'
    BY <1>1, <1>3, <2>1, <2>2 DEF RecordSucceeds, Typed, TypeOK, venue
  <2>4. \/ handler' = handler /\ at' = at + 1 /\ at < Len(Effects[handler])
        \/ handler' \in {"idle", "down"}
    BY <1>3 DEF RecordSucceeds, Step, Continue
  <2>5. IntentKnown'
    BY <1>3, <2>1, <2>4, MoveKeepsIntent DEF RecordSucceeds, Typed, IntentKnown
  <2>6. EntryIntent'
    <3>1. at \in Nat
      BY DEF Typed, TypeOK
    <3> QED BY <1>3, <2>1, <2>4, <3>1, MoveKeepsIntent DEF RecordSucceeds, Typed, EntryIntent
  <2>7. AskedWaits'
    <3>1. at \in Nat
      BY DEF Typed, TypeOK
    <3> QED BY <1>3, <2>4, <3>1, AskedStays, MoveKeepsIntent DEF RecordSucceeds, AskedWaits, Typed
  <2> QED BY <2>3, <2>5, <2>6, <2>7 DEF Typed
<1>4. ASSUME RecordFails PROVE Typed'
  <2>1. /\ state' \in States /\ active' \in 0 .. built /\ built' = built
        /\ hedged' \in BOOLEAN /\ triggered' \in BOOLEAN /\ unfound' \in BOOLEAN
    BY <1>4, MoveTyped DEF RecordFails
  <2>2. handler' \in {"idle", "leave", "down"} /\ at' = 1
    BY <1>4 DEF RecordFails, Left
  <2>3. handler' \in DOMAIN Effects \cup {"idle", "down"}
    BY <2>2 DEF Effects
  <2>4. TypeOK'
    BY <1>1, <1>4, <2>1, <2>2, <2>3, HandlerTyped DEF RecordFails, Typed, TypeOK, venue
  <2>5. IntentKnown' /\ EntryIntent'
    BY <1>4, <2>1, <2>2, MoveKeepsIntent DEF RecordFails, Typed, IntentKnown, EntryIntent
  <2>6. AskedWaits'
    BY <1>4, <2>2, AskedStays DEF RecordFails, AskedWaits
  <2> QED BY <2>4, <2>5, <2>6 DEF Typed
<1>5. ASSUME SendOrder PROVE Typed'
  <2>1. /\ (handler \in Entering /\ at = 5) \/ handler \in {"exit", "hedge"}
        /\ Effect.what \in Roles
    BY <1>5, RunningEffect, EffectsOrder, EffectsTyped DEF SendOrder, Typed, Effect
  <2>2. active \in Intents
    BY <1>2, <2>1 DEF Typed, IntentKnown, EntryIntent, Intents
  <2>3. /\ handler' \in DOMAIN Effects \cup {"idle", "down"}
        /\ at' \in Nat \ {0} /\ (Running => at \in DOMAIN Effects[handler])'
    BY <1>5, StepTyped DEF SendOrder, Typed
  <2>4. TypeOK'
    BY <1>1, <1>5, <2>1, <2>2, <2>3 DEF SendOrder, Typed, TypeOK, strategy
  <2>5. (handler' = handler /\ at' = at + 1) \/ handler' \in {"idle", "down"}
    BY <1>5 DEF SendOrder, Step, Continue
  <2>6. IntentKnown' /\ EntryIntent' /\ AskedWaits'
    BY <1>5, <2>1, <2>5 DEF SendOrder, Typed, IntentKnown, EntryIntent, AskedWaits, strategy
  <2> QED BY <2>4, <2>6 DEF Typed
<1>6. ASSUME PublishIntent PROVE Typed'
  <2>1. handler' = "idle" /\ at' = 1 /\ state = "PendingApproval"
    BY <1>6, PublishEnds DEF Typed, AskedWaits
  <2>2. TypeOK'
    BY <1>1, <1>2, <1>6, <2>1 DEF PublishIntent, TypeOK, Running, strategy, venue
  <2> QED BY <1>6, <2>1, <2>2
          DEF PublishIntent, Typed, IntentKnown, EntryIntent, AskedWaits, strategy
<1>7. ASSUME BuildNode PROVE Typed'
  <2>1. /\ handler' \in DOMAIN Effects \cup {"idle", "down"}
        /\ at' \in Nat \ {0} /\ (Running => at \in DOMAIN Effects[handler])'
    BY <1>7, StepTyped, HandlerTyped DEF BuildNode, Typed
  <2>2. TypeOK'
    BY <1>1, <1>7, <2>1 DEF BuildNode, Typed, TypeOK, strategy, venue
  <2>3. handler = "start"
    <3>1. Effect.do = "build" /\ handler \in DOMAIN Effects /\ at \in DOMAIN Effects[handler]
      BY <1>7, RunningEffect DEF BuildNode, Build, Typed
    <3> QED BY <3>1, BuildIsStart DEF Effect
  <2>4. handler' \in {"start", "idle", "down"}
    BY <1>7, <2>3 DEF BuildNode, Step, Continue
  <2>5. IntentKnown' /\ EntryIntent' /\ AskedWaits'
    BY <1>7, <2>3, <2>4 DEF BuildNode, Typed, IntentKnown, EntryIntent, AskedWaits, strategy
  <2> QED BY <2>2, <2>5 DEF Typed
<1>8. ASSUME NEW h \in DOMAIN Effects, Begin(h),
             UNCHANGED <<profile, journal, requests, state, active, latches, sent>>,
             built' \in 0 .. MaxIntents, built' >= built, working' \subseteq sent,
             asked' \in BOOLEAN, asked' => asked /\ h \in {"booked", "stray"},
             h \in Evaluations \cup Answers => built' # 0,
             h \in {"entered", "exited", "hedge"} \cup Exits => active # NoIntent
      PROVE  Typed'
  <2>1. TypeOK'
    <3>1. active' \in 0 .. built'
      BY <1>2, <1>8
    <3> QED BY <1>1, <1>8, <3>1, HandlerTyped DEF Typed, TypeOK, Begin, journal
  <2>2. IntentKnown' /\ EntryIntent' /\ AskedWaits'
    BY <1>2, <1>8 DEF Typed, IntentKnown, EntryIntent, AskedWaits, Begin
  <2> QED BY <2>1, <2>2 DEF Typed
<1>9. ASSUME Evaluate PROVE Typed'
  <2>1. PICK h \in Evaluations : Begin(h)
    BY <1>9, EvaluationBegins
  <2>2. h \in DOMAIN Effects
    BY <2>1 DEF Effects
  <2>3. built' \in 0 .. MaxIntents /\ built' >= built /\ built' # 0
    BY <1>2, <1>9 DEF Evaluate
  <2>4. ~asked /\ asked' = asked
    BY <1>9 DEF Evaluate, Typed, AskedWaits
  <2> QED BY <1>2, <1>8, <1>9, <2>1, <2>2, <2>3, <2>4 DEF Evaluate, venue
<1>10. ASSUME OnAnswer PROVE Typed'
  <2>1. PICK h \in Answers : Begin(h)
    BY <1>10 DEF OnAnswer
  <2>2. h \in DOMAIN Effects /\ asked' = FALSE
    BY <1>10, <2>1 DEF Effects, OnAnswer
  <2>3. built' = built /\ built # 0
    BY <1>10 DEF OnAnswer, strategy, Typed, AskedWaits, IntentKnown
  <2> QED BY <1>2, <1>8, <1>10, <2>1, <2>2, <2>3 DEF OnAnswer, strategy, venue
<1>11. ASSUME OnOptionGreeks PROVE Typed'
  <2>1. ~asked /\ asked' = asked /\ active # NoIntent
    BY <1>11 DEF OnOptionGreeks, Typed, AskedWaits, IntentKnown
  <2>2. CASE Begin("hedge") /\ UNCHANGED hedged
    <3>1. "hedge" \in DOMAIN Effects
      BY DEF Effects
    <3> QED BY <1>2, <1>8, <1>11, <2>1, <2>2, <3>1 DEF OnOptionGreeks, venue
  <2>3. CASE handler = "idle" /\ hedged' = TRUE /\ UNCHANGED process
    <3>1. TypeOK'
      BY <1>1, <1>2, <1>11, <2>3
      DEF OnOptionGreeks, Typed, TypeOK, Running, process, venue
    <3> QED BY <1>11, <2>3, <3>1
            DEF OnOptionGreeks, Typed, IntentKnown, EntryIntent, AskedWaits, process, venue
  <2> QED BY <1>11, <2>2, <2>3 DEF OnOptionGreeks
<1>12. ASSUME CheckExitTriggers PROVE Typed'
  <2>1. PICK h \in Exits : Begin(h)
    BY <1>12 DEF CheckExitTriggers
  <2>2. h \in DOMAIN Effects
    BY <2>1 DEF Effects
  <2>3. ~asked /\ asked' = asked /\ active # NoIntent
    BY <1>12 DEF CheckExitTriggers, Typed, AskedWaits
  <2> QED BY <1>2, <1>8, <1>12, <2>1, <2>2, <2>3 DEF CheckExitTriggers, strategy, venue
<1>13. ASSUME FlattenPositions PROVE Typed'
  <2>1. "leave" \in DOMAIN Effects
    BY DEF Effects
  <2>2. TypeOK'
    BY <1>1, <1>2, <1>13, <2>1, HandlerTyped DEF FlattenPositions, Typed, TypeOK, strategy, venue
  <2> QED BY <1>13, <2>2
          DEF FlattenPositions, Typed, IntentKnown, EntryIntent, AskedWaits, strategy
<1>14. ASSUME OnOrderFilled PROVE Typed'
  <2>1. FillHandler \in {"stray", "booked"} \/ (FillHandler \in {"entered", "exited"} /\ active # NoIntent)
    <3>1. CASE active = NoIntent
      <4>1. state # "PendingEntry" /\ state # "Exiting"
        BY <3>1 DEF Typed, IntentKnown
      <4>2. FillHandler = "stray"
        BY <3>1, <4>1 DEF FillHandler
      <4> QED BY <4>2
    <3>2. CASE active # NoIntent
      <4>1. CASE state = "PendingEntry"
        BY <3>2, <4>1 DEF FillHandler
      <4>2. CASE state = "Exiting"
        BY <3>2, <4>2 DEF FillHandler
      <4>3. CASE state \notin {"PendingEntry", "Exiting"}
        BY <3>2, <4>3 DEF FillHandler
      <4> QED BY <3>2, <4>1, <4>2, <4>3
    <3> QED BY <3>1, <3>2
  <2>2. asked => FillHandler \in {"booked", "stray"}
    <3>1. asked => state = "PendingApproval"
      BY DEF Typed, AskedWaits
    <3> QED BY <3>1 DEF FillHandler
  <2>3. FillHandler \in DOMAIN Effects /\ working' \subseteq sent
    BY <1>14, <2>1 DEF Effects, OnOrderFilled, Typed, TypeOK
  <2> QED BY <1>2, <1>8, <1>14, <2>1, <2>2, <2>3 DEF OnOrderFilled, strategy
<1>15. ASSUME OnOrderRefused PROVE Typed'
  <2>1. "refused" \in DOMAIN Effects /\ working' \subseteq sent
    BY <1>15 DEF Effects, OnOrderRefused, Typed, TypeOK
  <2>2. CASE state = "PendingEntry"
    <3>1. ~asked
      BY <2>2 DEF Typed, AskedWaits
    <3> QED BY <1>2, <1>8, <1>15, <2>1, <2>2, <3>1 DEF OnOrderRefused, strategy
  <2>3. CASE state # "PendingEntry"
    BY <1>1, <1>15, <2>1, <2>3
    DEF OnOrderRefused, Typed, TypeOK, IntentKnown, EntryIntent, AskedWaits, Running, process,
        strategy, journal
  <2> QED BY <2>2, <2>3
<1>16. ASSUME Start PROVE Typed'
  <2>1. "start" \in DOMAIN Effects /\ "Flat" \in States
    BY DEF Effects, States
  <2>2. TypeOK'
    <3>1. /\ lives' \in 0 .. MaxLives /\ active' \in 0 .. built' /\ built' = built
          /\ profile' = profile /\ requests' = requests /\ sent' = sent /\ working' = {}
          /\ handler' = "start" /\ at' = 1 /\ state' = "Flat" /\ aborted' = FALSE /\ asked' = FALSE
          /\ hedged' = FALSE /\ triggered' = FALSE /\ unfound' = FALSE
      BY <1>2, <1>16 DEF Start
    <3> QED BY <1>1, <1>2, <2>1, <3>1, HandlerTyped DEF TypeOK
  <2> QED BY <1>16, <2>2 DEF Start, Typed, IntentKnown, EntryIntent, AskedWaits
<1>17. ASSUME Stop PROVE Typed'
  <2>1. "stop" \in DOMAIN Effects
    BY DEF Effects
  <2>2. Begin("stop") /\ UNCHANGED <<profile, journal, requests, strategy, asked, venue>> /\ ~asked
    BY <1>17 DEF Stop
  <2> QED BY <1>2, <1>8, <2>1, <2>2 DEF strategy, venue
<1>18. ASSUME Die PROVE Typed'
  <2>1. TypeOK'
    BY <1>1, <1>18, HandlerTyped DEF Die, Typed, TypeOK, journal, strategy, venue
  <2> QED BY <1>18, <2>1 DEF Die, Typed, IntentKnown, EntryIntent, AskedWaits, strategy
<1>19. ASSUME CliFlatten PROVE Typed'
  <2>1. TypeOK'
    BY <1>1, <1>2, <1>19 DEF CliFlatten, Typed, TypeOK, Running, Effect, process, strategy, venue
  <2> QED BY <1>19, <2>1 DEF CliFlatten, Typed, IntentKnown, EntryIntent, AskedWaits, process, strategy
<1>20. ASSUME UNCHANGED vars PROVE Typed'
  BY <1>20
  DEF Typed, TypeOK, IntentKnown, EntryIntent, AskedWaits, Running, vars, journal, process, strategy, venue
<1> QED
  BY <1>3, <1>4, <1>5, <1>6, <1>7, <1>9, <1>10, <1>11, <1>12, <1>13, <1>14, <1>15, <1>16, <1>17, <1>18,
     <1>19, <1>20 DEF Next

\* Type correctness.
THEOREM TypeCorrect == Spec => []TypeOK
<1>1. Spec => []Typed
  BY TypedInit, TypedStep, PTL DEF Spec
<1> QED BY <1>1, PTL DEF Typed

-----------------------------------------------------------------------------
(* What a failed write costs.                                               *)

Fragment == file # <<>> /\ file[Len(file)].form # "line"

\* A fragment at the end of the file has cost nothing yet: the next line will
\* be glued to it, and the fault that left it pays for that one.
LossAccounted ==
    Cardinality(acknowledged \ Finished(file)) <= IF Fragment THEN faults - 1 ELSE faults

LEMMA FilePlaces == ASSUME NEW n \in Nat PROVE IsFiniteSet(1 .. n)
<1>1. 1 \in Int /\ n \in Int
  OBVIOUS
<1> QED BY <1>1, FS_Interval

LEMMA LossStep == Typed /\ LossAccounted /\ [Next]_vars => LossAccounted'
<1> SUFFICES ASSUME Typed, LossAccounted, [Next]_vars PROVE LossAccounted'
  OBVIOUS
<1> DEFINE Lost == acknowledged \ Finished(file)
<1>1. /\ file \in Seq(Pieces) /\ acknowledged \subseteq 1 .. Len(file) /\ Len(file) \in Nat
      /\ faults \in Nat
  BY AuditAssumption DEF Typed, TypeOK, Pieces
<1>2. IsFiniteSet(Lost) /\ Cardinality(Lost) \in Nat
  <2>1. IsFiniteSet(1 .. Len(file)) /\ Lost \subseteq 1 .. Len(file)
    BY <1>1, FilePlaces
  <2> QED BY <2>1, FS_Subset, FS_CardinalityType
<1>6. /\ LossAccounted <=> (Cardinality(Lost) <= IF Fragment THEN faults - 1 ELSE faults)
      /\ LossAccounted' <=> (Cardinality(Lost') <= IF Fragment' THEN faults' - 1 ELSE faults')
  BY DEF LossAccounted
<1> HIDE DEF Lost
<1>3. CASE UNCHANGED journal
  BY <1>3 DEF journal, LossAccounted, Fragment, Finished, BeginsLine
<1>4. ASSUME NEW e \in Entries, Recorded(e) PROVE LossAccounted'
  <2>1. file' = Appended(file, e, "line") /\ "line" \in Forms
    BY <1>4 DEF Recorded, Forms
  <2>2. /\ Len(file') = Len(file) + 1 /\ DOMAIN file = 1 .. Len(file)
        /\ file'[Len(file')].form = "line"
    BY <1>1, <2>1, AppendPiece
  <2>3. ~Fragment' /\ faults' = faults /\ acknowledged' = acknowledged \cup {Len(file')}
    BY <1>4, <2>2 DEF Fragment, Recorded
  <2>4. Finished(file) \subseteq 1 .. Len(file)
    BY <2>2 DEF Finished
  <2>5. CASE Fragment
    <3>1. Finished(file)' = Finished(file)
      BY <1>1, <2>1, <2>5, FinishedAfterAppend DEF Fragment
    <3>2. Lost' = Lost \cup {Len(file')}
      BY <1>1, <2>2, <2>3, <2>4, <3>1 DEF Lost
    <3>3. Cardinality(Lost') \in {Cardinality(Lost), Cardinality(Lost) + 1}
      BY <1>2, <3>2, FS_AddElement
    <3>4. Cardinality(Lost') \in Nat /\ Cardinality(Lost') <= Cardinality(Lost) + 1
      BY <1>2, <3>3
    <3> QED BY <1>1, <1>2, <1>6, <2>3, <2>5, <3>3, <3>4
  <2>6. CASE ~Fragment
    <3>1. Finished(file)' = Finished(file) \cup {Len(file')}
      BY <1>1, <2>1, <2>6, FinishedAfterAppend DEF Fragment
    <3>2. Lost' = Lost
      BY <1>1, <2>2, <2>3, <2>4, <3>1 DEF Lost
    <3> QED BY <1>6, <2>3, <2>6, <3>2
  <2> QED BY <2>5, <2>6
<1>5. ASSUME NEW e \in Entries, NotRecorded(e) PROVE LossAccounted'
  <2>1. faults' = faults + 1 /\ acknowledged' = acknowledged
    BY <1>5 DEF NotRecorded
  <2>2. CASE file' = file
    <3>1. Lost' = Lost /\ Fragment' = Fragment
      BY <2>1, <2>2 DEF Finished, BeginsLine, Fragment, Lost
    <3> QED BY <1>1, <1>2, <1>6, <2>1, <3>1
  <2>3. ASSUME NEW f \in Torn, file' = Appended(file, e, f) PROVE LossAccounted'
    <3>1. f \in Forms /\ f # "line"
      BY DEF Forms, Torn
    <3>2. Lost' = Lost
      BY <1>1, <2>1, <2>3, <3>1, FinishedAfterAppend DEF Lost
    <3> QED BY <1>1, <1>2, <1>6, <2>1, <3>2
  <2> QED BY <1>5, <2>2, <2>3 DEF NotRecorded
<1> QED BY <1>3, <1>4, <1>5, JournalStep

\* A failed write costs one acknowledged entry at most.
THEOREM LossIsBounded == Spec => []LossBounded
<1>1. Init => LossAccounted
  <2> SUFFICES ASSUME Init PROVE LossAccounted
    OBVIOUS
  <2>1. acknowledged \ Finished(file) = {} /\ faults = 0 /\ ~Fragment
    BY DEF Init, Fragment
  <2> QED BY <2>1, FS_EmptySet DEF LossAccounted
<1>2. Typed /\ LossAccounted => LossBounded
  <2> SUFFICES ASSUME Typed, LossAccounted PROVE LossBounded
    OBVIOUS
  <2>1. faults \in Nat /\ acknowledged \subseteq 1 .. Len(file) /\ Len(file) \in Nat
    BY AuditAssumption DEF Typed, TypeOK
  <2>2. Cardinality(acknowledged \ Finished(file)) \in Nat
    BY <2>1, FilePlaces, FS_Subset, FS_CardinalityType
  <2> QED BY <2>1, <2>2 DEF LossAccounted, LossBounded
<1> QED BY <1>1, <1>2, TypedInit, TypedStep, LossStep, PTL DEF Spec

-----------------------------------------------------------------------------
(* The file implements the abstract log.                                    *)

\* What can be read back is an append-only log.
THEOREM Refinement == Spec => ImplementsAuditLog
<1> DEFINE log == {<<k, file[k].entry>> : k \in Finished(file)}
<1>1. Init => log = {}
  BY DEF Init, Finished
<1>2. ASSUME Typed, [Next]_vars PROVE [Log!Record]_log
  <2>1. file \in Seq(Pieces)
    BY <1>2 DEF Typed, TypeOK, Pieces
  <2>2. CASE UNCHANGED journal
    BY <2>2 DEF journal, Finished, BeginsLine
  <2>3. ASSUME NEW e \in Entries, Recorded(e) PROVE [Log!Record]_log
    <3>1. file' = Appended(file, e, "line") /\ "line" \in Forms
      BY <2>3 DEF Recorded, Forms
    <3>2. /\ Len(file) \in Nat /\ Len(file') = Len(file) + 1 /\ DOMAIN file = 1 .. Len(file)
          /\ file'[Len(file')].entry = e
          /\ \A k \in DOMAIN file : file'[k] = file[k]
      BY <2>1, <3>1, AppendPiece
    <3>3. Finished(file) \subseteq DOMAIN file
      BY DEF Finished
    <3>4. \/ Finished(file)' = Finished(file)
          \/ Finished(file)' = Finished(file) \cup {Len(file')}
      BY <2>1, <3>1, FinishedAfterAppend
    <3>5. CASE Finished(file)' = Finished(file)
      <4>1. log' = log
        BY <3>2, <3>3, <3>5
      <4> QED BY <4>1
    <3>6. CASE Finished(file)' = Finished(file) \cup {Len(file')}
      <4> DEFINE r == <<Len(file'), e>>
      <4>1. log' = log \cup {r}
        BY <3>2, <3>3, <3>6
      <4>2. r \in Nat \X Entries /\ r[1] = Len(file')
        BY <3>2
      <4>3. \A q \in log : q[1] < r[1]
        BY <3>2, <3>3
      <4> QED BY <4>1, <4>2, <4>3 DEF Log!Record, Log!Place
    <3> QED BY <3>4, <3>5, <3>6
  <2>4. ASSUME NEW e \in Entries, NotRecorded(e) PROVE log' = log
    <3>1. CASE file' = file
      BY <3>1 DEF Finished, BeginsLine
    <3>2. ASSUME NEW f \in Torn, file' = Appended(file, e, f) PROVE log' = log
      <4>1. f \in Forms /\ f # "line"
        BY DEF Forms, Torn
      <4>2. Finished(file)' = Finished(file) /\ Finished(file) \subseteq DOMAIN file
        BY <2>1, <3>2, <4>1, FinishedAfterAppend DEF Finished
      <4>3. \A k \in DOMAIN file : file'[k] = file[k]
        BY <2>1, <3>2, <4>1, AppendPiece
      <4> QED BY <4>2, <4>3
    <3> QED BY <2>4, <3>1, <3>2 DEF NotRecorded
  <2> QED BY <1>2, <2>2, <2>3, <2>4, JournalStep
<1>3. Typed /\ [Next]_vars => [Log!Record]_log
  BY <1>2
<1> QED
  BY <1>1, <1>3, TypedInit, TypedStep, PTL DEF Spec, ImplementsAuditLog, Log!Spec, Log!Init

-----------------------------------------------------------------------------
(* Orders and their announcements.                                          *)

Announced(order) == \E k \in acknowledged : file[k] = Piece(Announcement(order), "line")

\* An effect that sends has its announcement behind it.
AnnouncedFirst == Running /\ Effect.do = "send" => Announced(<<active, Effect.what>>)

\* An acknowledged entry stays where it is.
LEMMA AnnouncementStays ==
    ASSUME Typed, [Next]_vars, NEW order, Announced(order)
    PROVE  Announced(order)'
<1>1. file \in Seq(Pieces) /\ acknowledged \subseteq DOMAIN file
  BY DEF Typed, TypeOK, Pieces
<1>2. acknowledged \subseteq acknowledged' /\ \A k \in DOMAIN file : file'[k] = file[k]
  <2>1. CASE UNCHANGED journal
    BY <2>1 DEF journal
  <2>2. ASSUME NEW e \in Entries, Recorded(e) \/ NotRecorded(e)
        PROVE  acknowledged \subseteq acknowledged' /\ \A k \in DOMAIN file : file'[k] = file[k]
    <3>1. CASE file' = file
      BY <2>2, <3>1 DEF Recorded, NotRecorded
    <3>2. ASSUME NEW f \in Forms, file' = Appended(file, e, f)
          PROVE  \A k \in DOMAIN file : file'[k] = file[k]
      BY <1>1, <3>2, AppendPiece
    <3> QED BY <2>2, <3>1, <3>2 DEF Recorded, NotRecorded, Forms
  <2> QED BY <2>1, <2>2, JournalStep
<1>3. PICK k \in acknowledged : file[k] = Piece(Announcement(order), "line")
  BY DEF Announced
<1> QED BY <1>1, <1>2, <1>3 DEF Announced, Announcement

\* The record in front of the effect that sends is the announcement.
LEMMA AnnouncementRecorded ==
    ASSUME Typed, RecordSucceeds, Running', Effect'.do = "send"
    PROVE  Announced(<<active, Effect.what>>)'
<1>1. handler' = handler /\ at' = at + 1 /\ at < Len(Effects[handler])
  BY DEF RecordSucceeds, Step, Continue, Running
<1>2. handler \in DOMAIN Effects /\ at \in 1 .. Len(Effects[handler])
      /\ Len(Effects[handler]) \in Nat /\ DOMAIN Effects[handler] = 1 .. Len(Effects[handler])
  BY RunningEffect, EffectsLength DEF RecordSucceeds, Typed
<1>3. Effect' = Effects[handler][at + 1] /\ at + 1 \in DOMAIN Effects[handler]
  BY <1>1, <1>2 DEF Effect
<1>4. \/ handler \in Entering /\ at = 4 /\ Effect'.what = "entry"
      \/ handler = "exit"  /\ at = 1 /\ Effect'.what = "exit"
      \/ handler = "hedge" /\ at = 1 /\ Effect'.what = "hedge"
  BY <1>2, <1>3, EffectsOrder
<1>5. active' = active
  BY <1>4, MoveKeepsIntent DEF RecordSucceeds, Exits
<1>6. Written = Announcement(<<active, Effect.what>>)'
  <2>1. CASE handler \in Entering /\ at = 4
    <3>1. Effect.what = "ORDER_SUBMIT" /\ Effect'.what = "entry" /\ active = built
      BY <1>4, <2>1, EffectsFollowed
      DEF Entering, EnterEffects, ApproveEffects, Effect, Rec, Typed, EntryIntent
    <3> QED BY <1>5, <3>1 DEF Written, Announcement, Entry, NodeEvents, IntentEvents
  <2>2. CASE handler = "exit" /\ at = 1
    <3>1. Effect.what = "Exiting" /\ Effect'.what = "exit"
      BY <1>4, <2>2, EffectsFollowed DEF ExitEffects, Effect, To
    <3> QED BY <1>5, <3>1 DEF Written, Announcement, Entry, NodeEvents, IntentEvents
  <2>3. CASE handler = "hedge" /\ at = 1
    <3>1. Effect.what = "DELTA_HEDGE" /\ Effect'.what = "hedge"
      BY <1>4, <2>3, EffectsFollowed DEF HedgeEffects, Effect, Rec
    <3> QED BY <1>5, <3>1 DEF Written, Announcement, Entry, NodeEvents, IntentEvents
  <2> QED BY <1>4, <2>1, <2>2, <2>3
<1>7. Written \in Entries /\ file \in Seq(Pieces) /\ "line" \in Forms
  BY MoveTyped DEF RecordSucceeds, Typed, TypeOK, Pieces, Forms
<1>8. file'[Len(file')] = Piece(Written, "line") /\ Len(file') \in acknowledged'
  BY <1>7, AppendPiece DEF RecordSucceeds, Recorded
<1> QED BY <1>6, <1>8 DEF Announced

LEMMA AnnouncedStep ==
    Typed /\ AnnouncedFirst /\ OrdersAnnounced /\ [Next]_vars => AnnouncedFirst' /\ OrdersAnnounced'
<1> SUFFICES ASSUME Typed, AnnouncedFirst, OrdersAnnounced, [Next]_vars
             PROVE  AnnouncedFirst' /\ OrdersAnnounced'
  OBVIOUS
<1> USE DEF Typed
<1>1. OrdersAnnounced <=> \A order \in sent : Announced(order)
  BY DEF OrdersAnnounced, Announced
<1>2. OrdersAnnounced' <=> \A order \in sent' : Announced(order)'
  BY DEF OrdersAnnounced, Announced
<1>3. \A order \in sent : Announced(order)'
  BY <1>1, AnnouncementStays
<1>4. ASSUME sent' = sent PROVE OrdersAnnounced'
  BY <1>2, <1>3, <1>4
<1>5. ASSUME at' = 1, handler' \in DOMAIN Effects \cup {"idle", "down"} PROVE AnnouncedFirst'
  <2>1. Running' => Effect' = Effects[handler'][1] /\ handler' \in DOMAIN Effects
    BY <1>5 DEF Running, Effect
  <2>2. \A h \in DOMAIN Effects : 1 \in DOMAIN Effects[h]
    BY EffectsLength
  <2>3. \A h \in DOMAIN Effects : Effects[h][1].do # "send"
    BY <2>2, EffectsOrder
  <2> QED BY <2>1, <2>3 DEF AnnouncedFirst
<1>6. CASE RecordSucceeds
  BY <1>4, <1>6, AnnouncementRecorded DEF RecordSucceeds, venue, AnnouncedFirst
<1>7. CASE SendOrder
  <2>1. handler \in DOMAIN Effects /\ at \in DOMAIN Effects[handler] /\ Effect.do = "send"
    BY <1>7, RunningEffect DEF SendOrder
  <2>2. at = Len(Effects[handler])
    BY <2>1, EffectsOrder DEF Effect
  <2>3. handler' \in {"idle", "down"}
    BY <1>7, <2>1, <2>2, EffectsLength DEF SendOrder, Step, Continue
  <2>4. AnnouncedFirst'
    BY <2>3 DEF AnnouncedFirst, Running
  <2>5. PICK order : order = <<active, Effect.what>>
    OBVIOUS
  <2>6. Announced(order)'
    BY <1>7, <2>1, <2>5, AnnouncementStays DEF AnnouncedFirst, SendOrder
  <2>7. sent' = sent \cup {order}
    BY <1>7, <2>5 DEF SendOrder
  <2> QED BY <1>2, <1>3, <2>4, <2>6, <2>7
<1>8. CASE RecordFails
  <2>1. handler' \in DOMAIN Effects \cup {"idle", "down"} /\ at' = 1
    BY <1>8 DEF RecordFails, Left, Effects
  <2> QED BY <1>4, <1>5, <1>8, <2>1 DEF RecordFails, venue
<1>9. CASE BuildNode
  <2>1. handler' = handler \/ handler' \in {"idle", "down"}
    BY <1>9 DEF BuildNode, Step, Continue
  <2>2. handler = "start"
    BY <1>9, RunningEffect, BuildIsStart DEF BuildNode, Build, Effect
  <2>3. Running' => Effect'.do # "send"
    <3>1. Running' => handler' = "start" /\ at' \in DOMAIN Effects["start"] /\ Effect' = Effects["start"][at']
      BY <1>9, <2>1, <2>2, TypedStep DEF Running, Effect, TypeOK, Next
    <3>2. "start" \in DOMAIN Effects
      BY DEF Effects
    <3> QED BY <3>1, <3>2, EffectsOrder DEF Entering
  <2>4. AnnouncedFirst'
    BY <2>3 DEF AnnouncedFirst
  <2> QED BY <1>4, <1>9, <2>4 DEF BuildNode, venue
<1>10. ASSUME NEW h \in DOMAIN Effects, Begin(h), sent' = sent PROVE AnnouncedFirst' /\ OrdersAnnounced'
  BY <1>4, <1>5, <1>10 DEF Begin
<1>11. CASE Evaluate \/ OnAnswer \/ CheckExitTriggers \/ Stop
  <2>1. PICK h \in Evaluations \cup Answers \cup Exits \cup {"stop"} : Begin(h)
    BY <1>11, EvaluationBegins DEF OnAnswer, CheckExitTriggers, Stop, Answers, Exits
  <2>2. h \in DOMAIN Effects
    BY <2>1 DEF Effects, Evaluations, Answers, Exits
  <2>3. sent' = sent
    BY <1>11 DEF Evaluate, OnAnswer, CheckExitTriggers, Stop, venue
  <2> QED BY <1>10, <2>1, <2>2, <2>3
<1>19. CASE OnOptionGreeks
  <2>1. "hedge" \in DOMAIN Effects /\ sent' = sent
    BY <1>19 DEF Effects, OnOptionGreeks, venue
  <2>2. CASE Begin("hedge")
    BY <1>10, <2>1, <2>2
  <2>3. CASE handler = "idle" /\ UNCHANGED process
    BY <1>4, <2>1, <2>3 DEF process, AnnouncedFirst, Running
  <2> QED BY <1>19, <2>2, <2>3 DEF OnOptionGreeks
<1>20. CASE FlattenPositions
  <2>1. "leave" \in DOMAIN Effects
    BY DEF Effects
  <2> QED BY <1>4, <1>5, <1>20, <2>1 DEF FlattenPositions, venue
<1>21. CASE PublishIntent
  <2>1. handler' = "idle"
    BY <1>21, PublishEnds
  <2> QED BY <1>4, <1>21, <2>1 DEF PublishIntent, venue, AnnouncedFirst, Running
<1>12. CASE OnOrderFilled
  <2>1. FillHandler \in DOMAIN Effects
    BY DEF FillHandler, Effects
  <2> QED BY <1>10, <1>12, <2>1 DEF OnOrderFilled
<1>13. CASE OnOrderRefused
  <2>1. "refused" \in DOMAIN Effects
    BY DEF Effects
  <2>2. CASE state = "PendingEntry"
    BY <1>10, <1>13, <2>1, <2>2 DEF OnOrderRefused
  <2>3. CASE state # "PendingEntry"
    BY <1>4, <1>13, <2>3 DEF OnOrderRefused, process, AnnouncedFirst, Running
  <2> QED BY <2>2, <2>3
<1>14. CASE Start
  <2>1. "start" \in DOMAIN Effects
    BY DEF Effects
  <2> QED BY <1>4, <1>5, <1>14, <2>1 DEF Start
<1>15. CASE Die
  BY <1>4, <1>5, <1>15 DEF Die, venue
<1>16. ASSUME UNCHANGED <<process, strategy, venue>> PROVE AnnouncedFirst' /\ OrdersAnnounced'
  <2>1. sent' = sent /\ handler' = handler /\ at' = at /\ active' = active
    BY <1>16 DEF process, strategy, venue
  <2>2. PICK order : order = <<active, Effect.what>>
    OBVIOUS
  <2>3. Running' <=> Running
    BY <2>1 DEF Running
  <2>4. Effect' = Effect
    BY <2>1 DEF Effect
  <2>5. order = <<active, Effect.what>>'
    BY <2>1, <2>2, <2>4
  <2>6. Running' /\ Effect'.do = "send" => Announced(order)'
    BY <2>2, <2>3, <2>4, AnnouncementStays DEF AnnouncedFirst
  <2> QED BY <1>4, <2>1, <2>5, <2>6 DEF AnnouncedFirst, Announced
<1>17. CASE CliFlatten
  BY <1>16, <1>17 DEF CliFlatten
<1>18. CASE UNCHANGED vars
  BY <1>16, <1>18 DEF vars
<1> QED
  BY <1>6, <1>7, <1>8, <1>9, <1>11, <1>12, <1>13, <1>14, <1>15, <1>17, <1>18, <1>19, <1>20, <1>21
  DEF Next

\* No order reaches the venue without its announcement in the journal.
THEOREM WriteAhead == Spec => []OrdersAnnounced
<1>1. Init => AnnouncedFirst /\ OrdersAnnounced
  BY DEF Init, AnnouncedFirst, OrdersAnnounced, Running
<1> QED BY <1>1, TypedInit, TypedStep, AnnouncedStep, PTL DEF Spec

-----------------------------------------------------------------------------
(* What is left half done.                                                  *)

\* Where a handler is that holds the strategy in a state it must leave, or
\* that owes the intent or the order the state waits for.
Owed ==
    ~aborted /\ handler # "down" =>
        /\ state = "Evaluating" => \/ handler \in Evaluations /\ at \in {2, 3}
                                   \/ handler = "dry" /\ at = 4
        /\ state = "PendingApproval" => \/ asked
                                        \/ handler = "queue" /\ at = 4
                                        \/ handler \in Answers /\ at \in {1, 2, 3}
        /\ state = "PendingEntry" => \/ <<active, "entry">> \in sent
                                     \/ handler \in Entering /\ at \in {4, 5}
                                     \/ handler \in Failing /\ at \in {4, 5, 6}
        /\ state = "Exiting" => \/ <<active, "exit">> \in sent
                                \/ unfound
                                \/ handler = "exit" /\ at = 2
                                \/ handler = "exitUnknown" /\ at \in {2, 3}

\* A move to such a state is made by a handler that is then where Owed says.
LEMMA OwedMove ==
    ASSUME Typed, Owed, RecordSucceeds, Effect.do = "move", ~aborted, handler' # "down"
    PROVE  Owed'
<1>1. /\ handler \in DOMAIN Effects /\ at \in 1 .. Len(Effects[handler]) /\ handler # "down"
      /\ Len(Effects[handler]) \in Nat /\ Step /\ Move
  BY RunningEffect, EffectsLength DEF RecordSucceeds, Running, Typed
<1>2. Effect = To(Effect.what) /\ state' = Effect.what
  BY <1>1, RunningEffect, EffectsOrder DEF Effect, Move, RecordSucceeds, Typed
<1>3. at < Len(Effects[handler]) => handler' = handler /\ at' = at + 1
  BY <1>1 DEF Step
<1>4. CASE Effect.what = "Evaluating"
  <2>1. handler \in Evaluations /\ at = 1 /\ at < Len(Effects[handler])
    BY <1>1, <1>2, <1>4, RunningEffect, EffectsOrder DEF Effect, Typed
  <2>2. handler' \in Evaluations /\ at' = 2
    BY <1>3, <2>1
  <2> QED BY <1>2, <1>4, <2>2 DEF Owed
<1>5. CASE Effect.what = "PendingApproval"
  <2>1. handler = "queue" /\ at = 3 /\ at < Len(Effects[handler])
    BY <1>1, <1>2, <1>5, RunningEffect, EffectsOrder DEF Effect, Typed
  <2>2. handler' = "queue" /\ at' = 4
    BY <1>3, <2>1
  <2> QED BY <1>2, <1>5, <2>2 DEF Owed
<1>6. CASE Effect.what = "PendingEntry"
  <2>1. handler \in Entering \cup Failing /\ at = 3 /\ at < Len(Effects[handler])
    BY <1>1, <1>2, <1>6, RunningEffect, EffectsOrder DEF Effect, Typed
  <2>2. handler' \in Entering \cup Failing /\ at' = 4
    BY <1>3, <2>1
  <2> QED BY <1>2, <1>6, <2>2 DEF Owed
<1>7. CASE Effect.what = "Exiting"
  <2>1. handler \in Exits /\ at = 1 /\ (handler # "exitLost" => at < Len(Effects[handler]))
    BY <1>1, <1>2, <1>7, RunningEffect, EffectsOrder DEF Effect, Typed
  <2>2. CASE handler = "exitLost"
    BY <1>1, <1>2, <1>7, <2>2 DEF Owed, Move
  <2>3. CASE handler # "exitLost"
    <3>1. handler' \in {"exit", "exitUnknown"} /\ at' = 2
      BY <1>3, <2>1, <2>3 DEF Exits
    <3> QED BY <1>2, <1>7, <3>1 DEF Owed
  <2> QED BY <2>2, <2>3
<1>8. CASE Effect.what \notin {"Evaluating", "PendingApproval", "PendingEntry", "Exiting"}
  BY <1>2, <1>8 DEF Owed
<1> QED BY <1>4, <1>5, <1>6, <1>7, <1>8

\* A handler that holds such a state goes on behind a record.
LEMMA OwedRecord ==
    ASSUME Typed, Owed, RecordSucceeds, Effect.do = "record", ~aborted, handler' # "down"
    PROVE  Owed'
<1>1. /\ handler \in DOMAIN Effects /\ at \in Nat /\ handler # "down"
      /\ at \in DOMAIN Effects[handler] /\ Step /\ Move
      /\ sent' = sent /\ asked' = asked
  BY RunningEffect DEF RecordSucceeds, Running, Typed, TypeOK, venue
<1>2. /\ state' = state /\ active' = active
      /\ unfound => unfound'
  <2>1. state' = state /\ active' = active
    BY <1>1 DEF Move, ActiveAfter, To
  <2>2. unfound => unfound'
    BY <1>1 DEF Move
  <2> QED BY <2>1, <2>2
<1>3. /\ handler \in Evaluations \cup Answers => at < Len(Effects[handler])
      /\ handler = "exitUnknown" => at = 2 /\ at < Len(Effects[handler])
      /\ handler \in {"reject", "queue"} => at = 2
      /\ handler = "dry" => at \in {2, 3}
      /\ handler = "enter" => at \in {2, 4}
      /\ handler = "unknown" => at \in {2, 4, 5}
      /\ handler = "turnDown" => at \in {1, 2}
      /\ handler = "approve" => at \in {1, 2, 4}
      /\ handler = "approveUnknown" => at \in {1, 2, 4, 5}
      /\ handler # "exit" /\ handler # "exitLost"
  BY <1>1, RecordPlaces DEF Effect
<1>4. handler \in Evaluations \cup Answers \cup {"exitUnknown"} => handler' = handler /\ at' = at + 1
  BY <1>1, <1>3 DEF Step
<1>5. ~aborted /\ handler # "down"
  BY <1>1
<1> HIDE DEF Effect
<1>6. ASSUME state = "Evaluating"
      PROVE  \/ handler' \in Evaluations /\ at' \in {2, 3}
             \/ handler' = "dry" /\ at' = 4
  <2>1. (handler \in Evaluations /\ at \in {2, 3}) \/ (handler = "dry" /\ at = 4)
    BY <1>5, <1>6 DEF Owed
  <2>2. at = 2 \/ (handler = "dry" /\ at = 3)
    BY <1>3, <2>1 DEF Evaluations
  <2> QED BY <1>4, <2>1, <2>2 DEF Evaluations
<1>7. ASSUME state = "PendingApproval"
      PROVE  \/ asked
             \/ handler' = "queue" /\ at' = 4
             \/ handler' \in Answers /\ at' \in {1, 2, 3}
  <2>1. asked \/ (handler = "queue" /\ at = 4) \/ (handler \in Answers /\ at \in {1, 2, 3})
    BY <1>5, <1>7 DEF Owed
  <2>2. asked \/ (handler \in Answers /\ (at = 1 \/ at = 2))
    BY <1>3, <2>1 DEF Answers
  <2> QED BY <1>4, <2>2
<1>8. ASSUME state = "PendingEntry"
      PROVE  \/ <<active, "entry">> \in sent
             \/ handler' \in Entering /\ at' \in {4, 5}
             \/ handler' \in Failing /\ at' \in {4, 5, 6}
  <2>1. \/ <<active, "entry">> \in sent
        \/ handler \in Entering /\ at \in {4, 5}
        \/ handler \in Failing /\ at \in {4, 5, 6}
    BY <1>5, <1>8 DEF Owed
  <2>2. \/ <<active, "entry">> \in sent
        \/ handler \in Entering /\ at = 4
        \/ handler \in Failing /\ (at = 4 \/ at = 5)
    BY <1>3, <2>1 DEF Entering, Failing
  <2> QED BY <1>4, <2>2 DEF Entering, Failing, Evaluations, Answers
<1>9. ASSUME state = "Exiting"
      PROVE  \/ <<active, "exit">> \in sent
             \/ unfound'
             \/ handler' = "exitUnknown" /\ at' \in {2, 3}
  <2>1. \/ <<active, "exit">> \in sent
        \/ unfound
        \/ handler = "exitUnknown" /\ at = 2
    BY <1>3, <1>5, <1>9 DEF Owed
  <2> QED BY <1>2, <1>4, <2>1
<1> QED BY <1>1, <1>2, <1>6, <1>7, <1>8, <1>9 DEF Owed

LEMMA OwedStep == Typed /\ Owed /\ [Next]_vars => Owed'
<1> SUFFICES ASSUME Typed, Owed, [Next]_vars PROVE Owed'
  OBVIOUS
<1>1. CASE RecordSucceeds
  <2>1. CASE aborted \/ handler' = "down"
    BY <1>1, <2>1 DEF RecordSucceeds, Owed
  <2>2. CASE ~aborted /\ handler' # "down"
    BY <1>1, <2>2, OwedMove, OwedRecord DEF RecordSucceeds
  <2> QED BY <2>1, <2>2
<1>2. CASE RecordFails
  BY <1>2 DEF RecordFails, Owed
<1>3. CASE SendOrder
  <2>1. handler \in DOMAIN Effects /\ at \in DOMAIN Effects[handler] /\ handler # "down"
    BY <1>3, RunningEffect DEF SendOrder, Running, Typed
  <2>2. \/ handler \in Entering /\ at = 5 /\ Effect.what = "entry"
        \/ handler = "exit" /\ at = 2 /\ Effect.what = "exit"
        \/ handler = "hedge" /\ at = 2 /\ Effect.what = "hedge"
    BY <1>3, <2>1, EffectsOrder DEF SendOrder, Effect
  <2>3. /\ UNCHANGED <<state, active, aborted, asked, unfound>>
        /\ sent' = sent \cup {<<active, Effect.what>>}
    BY <1>3 DEF SendOrder, strategy, latches
  <2>4. ~asked
    BY <1>3, <2>2 DEF SendOrder, Typed, AskedWaits, Running, Entering
  <2> QED BY <2>1, <2>2, <2>3, <2>4 DEF Owed, Entering, Failing, Answers, Evaluations
<1>4. CASE PublishIntent
  <2>1. handler = "queue" /\ at = 4
    BY <1>4, PublishEnds
  <2>2. asked' /\ UNCHANGED <<state, active, aborted, unfound, sent>>
    BY <1>4 DEF PublishIntent, strategy, latches, venue
  <2> QED BY <2>1, <2>2 DEF Owed, Entering, Failing, Answers, Evaluations
<1>5. CASE BuildNode
  <2>1. handler = "start"
    BY <1>5, RunningEffect, BuildIsStart DEF BuildNode, Build, Effect, Typed
  <2>2. UNCHANGED <<state, active, aborted, asked, unfound, sent>>
    BY <1>5 DEF BuildNode, strategy, latches, venue
  <2> QED BY <2>1, <2>2 DEF Owed, Entering, Failing, Answers, Evaluations
<1>6. ASSUME handler = "idle", aborted' = aborted, UNCHANGED <<state, active, asked, unfound, sent>>
      PROVE  Owed'
  BY <1>6 DEF Owed, Entering, Failing, Answers, Evaluations
<1>7. CASE Evaluate \/ CheckExitTriggers \/ OnOrderFilled \/ Stop
  BY <1>6, <1>7
  DEF Evaluate, CheckExitTriggers, OnOrderFilled, Stop, Begin, strategy, latches, venue
<1>8. CASE OnOptionGreeks
  BY <1>6, <1>8 DEF OnOptionGreeks, Begin, process, venue
<1>9. CASE FlattenPositions
  BY <1>6, <1>9 DEF FlattenPositions, strategy, latches, venue
<1>10. CASE OnAnswer
  <2>1. /\ asked /\ handler' \in Answers /\ at' = 1 /\ handler = "idle"
        /\ UNCHANGED <<state, active, unfound, sent, aborted>>
    BY <1>10 DEF OnAnswer, Begin, Answers, strategy, latches, venue
  <2>2. state = "PendingApproval"
    BY <2>1 DEF Typed, AskedWaits
  <2> QED BY <2>1, <2>2 DEF Owed
<1>11. CASE OnOrderRefused
  <2>1. UNCHANGED <<state, active, asked, unfound, sent>>
    BY <1>11 DEF OnOrderRefused, strategy, latches
  <2> QED BY <1>6, <1>11, <2>1 DEF OnOrderRefused, Begin, process
<1>12. CASE Start
  BY <1>12 DEF Start, Owed
<1>13. CASE Die
  BY <1>13 DEF Die, Owed
<1>14. CASE CliFlatten \/ UNCHANGED vars
  BY <1>14 DEF CliFlatten, vars, process, strategy, latches, venue, Owed
<1> QED
  BY <1>1, <1>2, <1>3, <1>4, <1>5, <1>7, <1>8, <1>9, <1>10, <1>11, <1>12, <1>13, <1>14 DEF Next

\* A strategy at rest waits for what is on its way, unless a write failed or the exit
\* of a spread did not find its instrument.
THEOREM OnlyFailures == Spec => []StrandedOnlyByFailure
<1>1. Init => Owed
  BY DEF Init, Owed
<1>2. Owed => StrandedOnlyByFailure
  BY DEF Owed, StrandedOnlyByFailure, Evaluations, Answers, Entering, Failing
<1> QED BY <1>1, <1>2, TypedInit, TypedStep, OwedStep, PTL DEF Spec

-----------------------------------------------------------------------------
(* What the reports count.                                                  *)

Evaluated == Count({"Evaluating"})
Ended     == Count(Outcomes)

\* The places of a handler behind the record of an evaluation, or of the answer to
\* one, and not yet behind its outcome.
OpenAt(h, k) ==
    \/ h = "reject" /\ k = 2
    \/ h = "dry" /\ k \in {2, 3}
    \/ h \in {"queue", "enter", "unknown"} /\ k \in {2, 3, 4}
    \/ h = "turnDown" /\ k \in {1, 2}
    \/ h \in {"approve", "approveUnknown"} /\ k \in {1, 2, 3, 4}

\* The place where it records the outcome.
EndsAt(h, k) ==
    \/ h \in {"reject", "turnDown"} /\ k = 2
    \/ h = "dry" /\ k = 3
    \/ h \in Entering \cup Failing /\ k = 4

\* An evaluation is recorded and its outcome is not, by the handler that runs or
\* because the selector has not answered: the evaluations there are beyond the outcomes.
Owing == IF OpenAt(handler, at) \/ (asked /\ handler # "down") THEN 1 ELSE 0

\* The earlier starts, each of which may have left one.
Ago == IF handler = "down" THEN lives ELSE lives - 1

\* How many may lack their outcome.
Excused == faults + Owing + Ago

Balanced ==
    /\ handler # "down" => lives >= 1
    /\ Ended + Owing <= Evaluated
    /\ Evaluated <= Ended + Excused

\* The events of a file are counted by places.
LEMMA CountIsNumber ==
    ASSUME file \in Seq(Pieces), NEW events
    PROVE  /\ Count(events) \in Nat
           /\ IsFiniteSet({k \in DOMAIN file : Loaded(file)[k].event \in events})
<1> DEFINE places == {k \in DOMAIN file : Loaded(file)[k].event \in events}
<1>1. Len(file) \in Nat /\ DOMAIN file = 1 .. Len(file)
  OBVIOUS
<1>2. IsFiniteSet(DOMAIN file) /\ places \subseteq DOMAIN file
  BY <1>1, FilePlaces
<1>3. IsFiniteSet(places)
  BY <1>2, FS_Subset
<1>4. Cardinality(places) \in Nat
  BY <1>3, FS_CardinalityType
<1> QED BY <1>3, <1>4 DEF Count

\* A piece more in the file is an event more of its kind.
LEMMA CountAfterAppend ==
    ASSUME file \in Seq(Pieces), NEW e \in Entries, NEW f \in Forms,
           file' = Appended(file, e, f), NEW events
    PROVE  Count(events)' = IF e.event \in events THEN Count(events) + 1 ELSE Count(events)
<1> DEFINE places == {k \in DOMAIN file : Loaded(file)[k].event \in events}
           now    == {k \in DOMAIN file' : Loaded(file')[k].event \in events}
           last   == Len(file')
<1>1. /\ Len(file) \in Nat /\ last = Len(file) + 1
      /\ DOMAIN file = 1 .. Len(file) /\ DOMAIN file' = DOMAIN file \cup {last}
      /\ file'[last].entry = e
      /\ \A k \in DOMAIN file : file'[k] = file[k]
  BY AppendPiece
<1>2. last \notin DOMAIN file
  BY <1>1
<1>3. \A k \in DOMAIN file : k \in now <=> k \in places
  BY <1>1 DEF Loaded
<1>4. last \in now <=> e.event \in events
  BY <1>1 DEF Loaded
<1>5. Count(events) = Cardinality(places) /\ Count(events)' = Cardinality(now)
  BY DEF Count
<1>6. IsFiniteSet(places) /\ places \subseteq DOMAIN file /\ now \subseteq DOMAIN file \cup {last}
  BY <1>1, CountIsNumber
<1> HIDE DEF places, now, last
<1>7. CASE e.event \in events
  <2>1. now = places \cup {last} /\ last \notin places
    BY <1>2, <1>3, <1>4, <1>6, <1>7
  <2>2. Cardinality(places \cup {last}) = Cardinality(places) + 1
    BY <1>6, <2>1, FS_AddElement
  <2> QED BY <1>5, <1>7, <2>1, <2>2
<1>8. CASE e.event \notin events
  <2>1. now = places
    BY <1>2, <1>3, <1>4, <1>6, <1>8
  <2> QED BY <1>5, <1>8, <2>1
<1> QED BY <1>7, <1>8

\* Where the evaluation and its outcome are recorded, never by the last effect.
LEMMA OutcomePlaces ==
    \A h \in DOMAIN Effects : \A k \in DOMAIN Effects[h] :
        Effects[h][k].do \in {"move", "record"} =>
            /\ Effects[h][k].what = "Evaluating" <=> h \in Evaluations /\ k = 1
            /\ Effects[h][k].what \in Outcomes <=> EndsAt(h, k)
            /\ (h \in Evaluations /\ k = 1) \/ EndsAt(h, k) => k < Len(Effects[h])
            /\ k = Len(Effects[h]) => ~OpenAt(h, k)
<1> TAKE h \in DOMAIN Effects
<1> TAKE k \in DOMAIN Effects[h]
<1> USE DEF To, Rec, Send, Build, Publish, Outcomes, Evaluations, Entering, Failing, EndsAt, OpenAt
<1>1. CASE h = "start"
  BY <1>1 DEF Effects, StartEffects
<1>2. CASE h = "stop"
  BY <1>2 DEF Effects, StopEffects
<1>3. CASE h = "leave"
  BY <1>3 DEF Effects, LeaveEffects
<1>4. CASE h = "reject"
  BY <1>4 DEF Effects, RejectEffects
<1>5. CASE h = "dry"
  BY <1>5 DEF Effects, DryEffects
<1>6. CASE h = "queue"
  BY <1>6 DEF Effects, QueueEffects
<1>7. CASE h = "enter"
  BY <1>7 DEF Effects, EnterEffects
<1>8. CASE h = "unknown"
  BY <1>8 DEF Effects, UnknownEffects
<1>9. CASE h = "turnDown"
  BY <1>9 DEF Effects, TurnDownEffects
<1>10. CASE h = "approve"
  BY <1>10 DEF Effects, ApproveEffects
<1>11. CASE h = "approveUnknown"
  BY <1>11 DEF Effects, ApproveUnknownEffects
<1>12. CASE h = "entered"
  BY <1>12 DEF Effects, EnteredEffects
<1>13. CASE h = "exited"
  BY <1>13 DEF Effects, ExitedEffects
<1>14. CASE h = "booked"
  BY <1>14 DEF Effects, BookedEffects
<1>15. CASE h = "stray"
  BY <1>15 DEF Effects, StrayEffects
<1>16. CASE h = "refused"
  BY <1>16 DEF Effects, RefusedEffects
<1>17. CASE h = "hedge"
  BY <1>17 DEF Effects, HedgeEffects
<1>18. CASE h = "exit"
  BY <1>18 DEF Effects, ExitEffects
<1>19. CASE h = "exitLost"
  BY <1>19 DEF Effects, ExitLostEffects
<1>20. CASE h = "exitUnknown"
  BY <1>20 DEF Effects, ExitUnknownEffects
<1> QED
  BY <1>1, <1>2, <1>3, <1>4, <1>5, <1>6, <1>7, <1>8, <1>9, <1>10, <1>11, <1>12,
     <1>13, <1>14, <1>15, <1>16, <1>17, <1>18, <1>19, <1>20 DEF Effects

\* The same of the record that is due.
LEMMA RecordCounts ==
    ASSUME Typed, Running, Effect.do \in {"move", "record"}, Move
    PROVE  /\ Written.event = Effect.what
           /\ Effect.what \in Outcomes <=> EndsAt(handler, at)
           /\ Effect.what = "Evaluating" <=> handler \in Evaluations /\ at = 1
           /\ Effect.what \in {"Evaluating"} \cup Outcomes => at < Len(Effects[handler]) /\ ~asked
           /\ at = Len(Effects[handler]) => ~OpenAt(handler, at)
<1>1. Written.event = Effect.what
  BY DEF Written, Entry
<1>2. handler \in DOMAIN Effects /\ at \in DOMAIN Effects[handler]
  BY RunningEffect DEF Typed
<1>3. /\ Effect.what = "Evaluating" <=> handler \in Evaluations /\ at = 1
      /\ Effect.what \in Outcomes <=> EndsAt(handler, at)
      /\ (handler \in Evaluations /\ at = 1) \/ EndsAt(handler, at) => at < Len(Effects[handler])
      /\ at = Len(Effects[handler]) => ~OpenAt(handler, at)
  BY <1>2, OutcomePlaces DEF Effect
<1>4. asked => handler \in {"leave", "booked", "stray"}
  BY DEF Typed, AskedWaits, Running
<1>5. asked => ~(handler \in Evaluations) /\ ~EndsAt(handler, at)
  BY <1>4 DEF EndsAt, Evaluations, Entering, Failing
<1> QED BY <1>1, <1>3, <1>5

\* What a record adds to the counts, whether it stands whole in the file or not.
LEMMA CountsMove ==
    ASSUME Typed, NEW e \in Entries, NEW f \in Forms, file' = Appended(file, e, f)
    PROVE  /\ Evaluated' = IF e.event = "Evaluating" THEN Evaluated + 1 ELSE Evaluated
           /\ Ended' = IF e.event \in Outcomes THEN Ended + 1 ELSE Ended
<1>1. file \in Seq(Pieces)
  BY DEF Typed, TypeOK, Pieces
<1>2. e.event = "Evaluating" <=> e.event \in {"Evaluating"}
  OBVIOUS
<1> QED BY <1>1, <1>2, CountAfterAppend DEF Evaluated, Ended

LEMMA CountsTyped ==
    ASSUME Typed
    PROVE  /\ Evaluated \in Nat /\ Ended \in Nat /\ faults \in Nat /\ lives \in Nat
           /\ Owing \in {0, 1} /\ (handler # "down" => Ago = lives - 1)
           /\ (handler = "down" => Ago = lives)
<1>1. Evaluated \in Nat /\ Ended \in Nat
  BY CountIsNumber DEF Typed, TypeOK, Pieces, Evaluated, Ended
<1>2. faults \in Nat /\ lives \in Nat
  BY AuditAssumption DEF Typed, TypeOK
<1> QED BY <1>1, <1>2 DEF Owing, Ago

\* A step adds evaluated to the evaluations, ended to the outcomes and so on.
Adds(evaluated, ended, owing, failed, ago) ==
    /\ Evaluated' = Evaluated + evaluated /\ Ended' = Ended + ended
    /\ Owing' = Owing + owing
    /\ faults' = faults + failed /\ Ago' = Ago + ago

\* The balance is kept if what a step adds is in balance itself.
LEMMA BalanceKept ==
    ASSUME Typed, Balanced, handler' # "down" => lives' >= 1,
           NEW e \in Int, NEW o \in Int, NEW w \in Int, NEW f \in Int, NEW g \in Int,
           Adds(e, o, w, f, g), o + w <= e, e <= o + f + w + g
    PROVE  Balanced'
<1>1. /\ Evaluated \in Int /\ Ended \in Int /\ Owing \in Int /\ faults \in Int /\ Ago \in Int
      /\ Ended + Owing <= Evaluated /\ Evaluated <= Ended + (faults + Owing + Ago)
  BY CountsTyped DEF Balanced, Excused
<1>2. /\ Ended' + Owing' = (Ended + o) + (Owing + w)
      /\ Ended' + Excused' = (Ended + o) + ((faults + f) + (Owing + w) + (Ago + g))
      /\ Evaluated' = Evaluated + e
  BY DEF Adds, Excused
<1>3. /\ (Ended + o) + (Owing + w) <= Evaluated + e
      /\ Evaluated + e <= (Ended + o) + ((faults + f) + (Owing + w) + (Ago + g))
  BY <1>1
<1> QED BY <1>2, <1>3 DEF Balanced

\* An evaluation is recorded: it is owed its outcome from now on.
LEMMA EvaluationOpens ==
    ASSUME Typed, Balanced, RecordSucceeds, Effect.what = "Evaluating"
    PROVE  Balanced'
<1>1. /\ Running /\ Effect.do \in {"move", "record"} /\ Move /\ Step
      /\ Recorded(Written) /\ lives' = lives /\ asked' = asked
  BY DEF RecordSucceeds
<1>2. Written \in Entries /\ Written.event = "Evaluating" /\ "Evaluating" \notin Outcomes
  BY <1>1, MoveTyped, RecordCounts DEF Outcomes
<1>3. handler \in Evaluations /\ at = 1 /\ at < Len(Effects[handler]) /\ ~asked
  BY <1>1, RecordCounts
<1>4. handler' = handler /\ at' = 2
  BY <1>1, <1>3 DEF Step
<1>5. Owing = 0 /\ Owing' = 1 /\ Ago' = Ago
  BY <1>1, <1>3, <1>4 DEF Owing, OpenAt, Ago, Evaluations
<1>6. Evaluated' = Evaluated + 1 /\ Ended' = Ended /\ faults' = faults
  BY <1>1, <1>2, CountsMove DEF Recorded, Forms
<1>7. handler # "down" /\ lives >= 1
  BY <1>1 DEF Running, Balanced
<1>8. Adds(1, 0, 1, 0, 0)
  BY <1>5, <1>6, <1>7, CountsTyped DEF Adds
<1> QED BY <1>1, <1>7, <1>8, BalanceKept

\* Its outcome is recorded: nothing is owed any more.
LEMMA OutcomeCloses ==
    ASSUME Typed, Balanced, RecordSucceeds, Effect.what \in Outcomes
    PROVE  Balanced'
<1>1. /\ Running /\ Effect.do \in {"move", "record"} /\ Move /\ Step
      /\ Recorded(Written) /\ lives' = lives /\ asked' = asked
  BY DEF RecordSucceeds
<1>2. Written \in Entries /\ Written.event \in Outcomes /\ Written.event # "Evaluating"
  BY <1>1, MoveTyped, RecordCounts DEF Outcomes
<1>3. EndsAt(handler, at) /\ at < Len(Effects[handler]) /\ ~asked
  BY <1>1, RecordCounts
<1>4. handler' = handler /\ at' = at + 1
  BY <1>1, <1>3 DEF Step
<1>5. Owing = 1 /\ Owing' = 0 /\ Ago' = Ago
  BY <1>1, <1>3, <1>4 DEF Owing, OpenAt, EndsAt, Ago, Entering, Failing
<1>6. Evaluated' = Evaluated /\ Ended' = Ended + 1 /\ faults' = faults
  BY <1>1, <1>2, CountsMove DEF Recorded, Forms
<1>7. handler # "down" /\ lives >= 1
  BY <1>1 DEF Running, Balanced
<1>8. Adds(0, 1, -1, 0, 0)
  BY <1>5, <1>6, <1>7, CountsTyped DEF Adds
<1> QED BY <1>1, <1>7, <1>8, BalanceKept

\* Any other record changes neither.
LEMMA OtherRecords ==
    ASSUME Typed, Balanced, RecordSucceeds, Effect.what \notin {"Evaluating"} \cup Outcomes
    PROVE  Balanced'
<1>1. /\ Running /\ Effect.do \in {"move", "record"} /\ Move /\ Step
      /\ Recorded(Written) /\ lives' = lives /\ asked' = asked
  BY DEF RecordSucceeds
<1>2. Written \in Entries /\ Written.event \notin {"Evaluating"} \cup Outcomes
  BY <1>1, MoveTyped, RecordCounts
<1>3. /\ ~(handler \in Evaluations /\ at = 1) /\ ~EndsAt(handler, at)
      /\ at = Len(Effects[handler]) => ~OpenAt(handler, at)
  BY <1>1, RecordCounts
<1>4. /\ handler \in DOMAIN Effects /\ at \in 1 .. Len(Effects[handler])
      /\ Len(Effects[handler]) \in Nat /\ handler # "down"
  BY <1>1, RunningEffect, EffectsLength DEF Typed, Running
<1>5. lives >= 1 /\ Ago = lives - 1 /\ lives \in Nat
  BY <1>4, CountsTyped DEF Balanced
<1>6. Evaluated' = Evaluated /\ Ended' = Ended /\ faults' = faults
  BY <1>1, <1>2, CountsMove DEF Recorded, Forms
<1>7. Ago' = IF handler' = "down" THEN Ago + 1 ELSE Ago
  BY <1>1, <1>5 DEF Ago
<1>8. \/ Owing' = Owing
      \/ Owing = 1 /\ Owing' = 0 /\ handler' = "down"
  <2>1. CASE at < Len(Effects[handler])
    <3>1. handler' = handler /\ at' = at + 1
      BY <1>1, <2>1 DEF Step
    <3>2. at \in Nat \ {0} /\ ~(handler = "queue" /\ at = 4)
      BY <1>1, <1>4, RunningEffect, OutcomePlaces DEF Effect, Effects, QueueEffects, Publish
    <3>3. OpenAt(handler, at + 1) <=> OpenAt(handler, at)
      BY <1>3, <1>4, <3>2 DEF OpenAt, EndsAt, Evaluations, Entering, Failing
    <3> QED BY <1>1, <3>1, <3>3 DEF Owing
  <2>2. CASE ~(at < Len(Effects[handler]))
    <3>1. handler' \in {"idle", "down"} /\ at = Len(Effects[handler])
      BY <1>1, <1>4, <2>2 DEF Step, Continue
    <3>2. ~OpenAt(handler', at') /\ ~OpenAt(handler, at)
      BY <1>3, <3>1 DEF OpenAt
    <3> QED BY <1>1, <1>4, <3>1, <3>2 DEF Owing
  <2> QED BY <2>1, <2>2
<1>9. Adds(0, 0, 0, 0, 0) \/ Adds(0, 0, 0, 0, 1) \/ Adds(0, 0, -1, 0, 1)
  BY <1>5, <1>6, <1>7, <1>8, CountsTyped DEF Adds
<1> QED BY <1>1, <1>5, <1>9, BalanceKept

\* A write fails: what it may have owed is charged to the failure.
LEMMA FailureCharged ==
    ASSUME Typed, Balanced, RecordFails
    PROVE  Balanced'
<1>1. /\ Running /\ Effect.do \in {"move", "record"} /\ Move /\ at' = 1 /\ Left
      /\ NotRecorded(Written) /\ lives' = lives /\ faults' = faults + 1 /\ asked' = asked
  BY DEF RecordFails, NotRecorded
<1>2. /\ Written \in Entries /\ Written.event = Effect.what
      /\ Effect.what \in Outcomes <=> EndsAt(handler, at)
      /\ Effect.what = "Evaluating" <=> handler \in Evaluations /\ at = 1
      /\ Effect.what \in {"Evaluating"} \cup Outcomes => ~asked
  BY <1>1, MoveTyped, RecordCounts
<1>3. handler # "down" /\ lives >= 1 /\ lives \in Nat /\ Ago = lives - 1
  BY <1>1, CountsTyped DEF Running, Balanced
<1>4. /\ Ago' = IF handler' = "down" THEN Ago + 1 ELSE Ago
      /\ Owing' = IF asked /\ handler' # "down" THEN 1 ELSE 0
  <2>1. handler' \in {"idle", "leave", "down"}
    BY <1>1 DEF Left
  <2> QED BY <1>1, <1>3, <2>1 DEF Owing, OpenAt, Ago
<1>5. Evaluated \in Nat /\ Ended \in Nat /\ faults \in Nat /\ Owing \in {0, 1} /\ Ago \in Int
  BY <1>3, CountsTyped
<1>6. asked => Owing = 1
  BY <1>3 DEF Owing
<1>7. CASE Evaluated' = Evaluated /\ Ended' = Ended
  <2>1. CASE Owing = 0
    <3>1. Adds(0, 0, 0, 1, 0) \/ Adds(0, 0, 0, 1, 1)
      BY <1>1, <1>4, <1>5, <1>6, <1>7, <2>1 DEF Adds
    <3> QED BY <1>1, <1>3, <3>1, BalanceKept
  <2>2. CASE Owing = 1
    <3>1. Adds(0, 0, -1, 1, 0) \/ Adds(0, 0, -1, 1, 1) \/ Adds(0, 0, 0, 1, 0)
      BY <1>1, <1>4, <1>5, <1>7, <2>2 DEF Adds
    <3> QED BY <1>1, <1>3, <3>1, BalanceKept
  <2> QED BY <1>5, <2>1, <2>2
<1>8. CASE UNCHANGED file
  BY <1>7, <1>8 DEF Evaluated, Ended, Count, Loaded
<1>9. CASE \E form \in Torn : file' = Appended(file, Written, form)
  <2>1. /\ Evaluated' = IF Effect.what = "Evaluating" THEN Evaluated + 1 ELSE Evaluated
        /\ Ended' = IF Effect.what \in Outcomes THEN Ended + 1 ELSE Ended
    BY <1>2, <1>9, CountsMove DEF Forms
  <2>2. CASE Effect.what = "Evaluating"
    <3>1. Evaluated' = Evaluated + 1 /\ Ended' = Ended
      BY <2>1, <2>2 DEF Outcomes
    <3>2. Owing = 0 /\ Owing' = 0
      BY <1>2, <1>4, <2>2 DEF Owing, OpenAt, Evaluations
    <3>3. Adds(1, 0, 0, 1, 0) \/ Adds(1, 0, 0, 1, 1)
      BY <1>1, <1>4, <1>5, <3>1, <3>2 DEF Adds
    <3> QED BY <1>1, <1>3, <3>3, BalanceKept
  <2>3. CASE Effect.what \in Outcomes
    <3>1. Evaluated' = Evaluated /\ Ended' = Ended + 1
      BY <2>1, <2>3 DEF Outcomes
    <3>2. Owing = 1 /\ Owing' = 0
      BY <1>2, <1>4, <2>3 DEF Owing, OpenAt, EndsAt, Entering, Failing
    <3>3. Adds(0, 1, -1, 1, 0) \/ Adds(0, 1, -1, 1, 1)
      BY <1>1, <1>4, <1>5, <3>1, <3>2 DEF Adds
    <3> QED BY <1>1, <1>3, <3>3, BalanceKept
  <2>4. CASE Effect.what \notin {"Evaluating"} \cup Outcomes
    BY <1>7, <2>1, <2>4
  <2> QED BY <2>2, <2>3, <2>4
<1> QED BY <1>1, <1>8, <1>9 DEF NotRecorded

\* Every other step records nothing that counts: it only passes time.
LEMMA NothingCounted ==
    ASSUME Typed, Balanced, UNCHANGED <<Evaluated, Ended>>,
           faults' = faults \/ faults' = faults + 1,
           \/ Owing' = Owing /\ (Ago' = Ago \/ Ago' = Ago + 1)
           \/ Owing' = 0 /\ Ago' = Ago + 1,
           handler' # "down" => lives' >= 1
    PROVE  Balanced'
<1>1. /\ Evaluated \in Nat /\ Ended \in Nat /\ faults \in Nat /\ Ago \in Int
      /\ Owing = 0 \/ Owing = 1
  BY CountsTyped
<1>2. PICK f \in {0, 1} : faults' = faults + f
  BY <1>1
<1>3. CASE Owing' = Owing
  <2>1. Adds(0, 0, 0, f, 0) \/ Adds(0, 0, 0, f, 1)
    BY <1>1, <1>2, <1>3 DEF Adds
  <2> QED BY <1>2, <2>1, BalanceKept
<1>4. CASE Owing' = 0 /\ Owing = 1 /\ Ago' = Ago + 1
  <2>1. Adds(0, 0, -1, f, 1)
    BY <1>1, <1>2, <1>4 DEF Adds
  <2> QED BY <1>2, <2>1, BalanceKept
<1> QED BY <1>1, <1>3, <1>4

LEMMA BalancedStep == Typed /\ Balanced /\ [Next]_vars => Balanced'
<1> SUFFICES ASSUME Typed, Balanced, [Next]_vars PROVE Balanced'
  OBVIOUS
<1>0. Typed'
  BY TypedStep
<1>1. CASE RecordSucceeds
  BY <1>0, <1>1, EvaluationOpens, OutcomeCloses, OtherRecords
<1>2. CASE RecordFails
  BY <1>0, <1>2, FailureCharged
<1>3. file' = file => UNCHANGED <<Evaluated, Ended>>
  BY DEF Evaluated, Ended, Count, Loaded
<1>4. /\ Ago \in Int /\ lives \in Nat /\ (handler # "down" => Ago = lives - 1 /\ lives >= 1)
      /\ (handler = "down" => Ago = lives)
  BY CountsTyped DEF Balanced
<1>5. CASE SendOrder
  <2>1. handler \in DOMAIN Effects /\ at \in DOMAIN Effects[handler] /\ handler # "down"
    BY <1>5, RunningEffect DEF SendOrder, Running, Typed
  <2>2. \/ handler \in Entering /\ at = 5
        \/ handler \in {"exit", "hedge"}
    BY <1>5, <2>1, EffectsOrder DEF SendOrder, Effect
  <2>3. at = Len(Effects[handler])
    BY <1>5, <2>1, EffectsOrder DEF SendOrder, Effect
  <2>4. handler' = "idle" /\ UNCHANGED <<file, faults, lives, asked>>
    BY <1>5, <2>1, <2>2, <2>3, EffectsLength DEF SendOrder, Step, Continue, journal, Entering
  <2>5. Owing' = Owing /\ Ago' = Ago
    BY <2>1, <2>2, <2>4 DEF Owing, OpenAt, Ago, Entering
  <2> QED BY <1>0, <1>3, <1>4, <2>1, <2>4, <2>5, NothingCounted
<1>6. CASE PublishIntent
  <2>1. handler = "queue" /\ at = 4 /\ handler' = "idle"
    BY <1>6, PublishEnds
  <2>2. asked' /\ UNCHANGED <<file, faults, lives>>
    BY <1>6 DEF PublishIntent, journal
  <2>3. Owing' = Owing /\ Ago' = Ago
    BY <2>1, <2>2 DEF Owing, OpenAt, Ago
  <2> QED BY <1>0, <1>3, <1>4, <2>1, <2>2, <2>3, NothingCounted
<1>7. CASE BuildNode
  <2>1. handler = "start"
    BY <1>7, RunningEffect, BuildIsStart DEF BuildNode, Build, Effect, Typed
  <2>2. handler' \in {"start", "idle", "down"} /\ UNCHANGED <<file, faults, lives, asked>> /\ ~asked
    BY <1>7, <2>1 DEF BuildNode, Step, Continue, journal, Typed, AskedWaits
  <2>3. Owing' = Owing /\ (Ago' = Ago \/ Ago' = Ago + 1)
    BY <1>4, <2>1, <2>2 DEF Owing, OpenAt, Ago
  <2> QED BY <1>0, <1>3, <1>4, <2>1, <2>2, <2>3, NothingCounted
<1>8. ASSUME handler = "idle", handler' # "down", at' = 1, handler' \notin Answers,
             asked' = asked, lives' = lives, UNCHANGED journal
      PROVE  Balanced'
  <2>1. UNCHANGED <<file, faults>>
    BY <1>8 DEF journal
  <2>2. Owing' = Owing /\ Ago' = Ago
    BY <1>8 DEF Owing, OpenAt, Ago, Answers
  <2> QED BY <1>0, <1>3, <1>4, <1>8, <2>1, <2>2, NothingCounted
<1>9. CASE Evaluate
  <2>1. PICK h \in Evaluations : Begin(h)
    BY <1>0, <1>9, EvaluationBegins
  <2> QED BY <1>8, <1>9, <2>1 DEF Evaluate, Begin, Evaluations, Answers
<1>10. CASE CheckExitTriggers \/ OnOrderFilled \/ Stop
  <2>1. PICK h \in Exits \cup {"stop", "stray", "entered", "exited", "booked"} : Begin(h)
    BY <1>10 DEF CheckExitTriggers, OnOrderFilled, Stop, FillHandler, Exits
  <2>2. asked' = asked /\ UNCHANGED journal
    BY <1>10 DEF CheckExitTriggers, OnOrderFilled, Stop
  <2> QED BY <1>8, <2>1, <2>2 DEF Begin, Exits, Answers
<1>11. CASE OnAnswer
  <2>1. /\ asked /\ handler = "idle" /\ handler' \in Answers /\ at' = 1
        /\ UNCHANGED <<file, faults, lives>>
    BY <1>11 DEF OnAnswer, Begin, Answers, journal
  <2>2. Owing' = Owing /\ Ago' = Ago
    BY <2>1 DEF Owing, OpenAt, Ago, Answers
  <2>3. handler # "down"
    BY <2>1
  <2> QED BY <1>0, <1>3, <1>4, <2>1, <2>2, <2>3, NothingCounted
<1>12. ASSUME UNCHANGED <<process, journal, asked>> PROVE Balanced'
  <2>1. UNCHANGED <<file, faults, lives, handler, at, asked>>
    BY <1>12 DEF process, journal
  <2>2. Owing' = Owing /\ Ago' = Ago
    BY <2>1 DEF Owing, OpenAt, Ago
  <2> QED BY <1>0, <1>3, <1>4, <2>1, <2>2, NothingCounted
<1>13. CASE OnOptionGreeks
  BY <1>8, <1>12, <1>13 DEF OnOptionGreeks, Begin, Answers
<1>14. CASE OnOrderRefused
  BY <1>8, <1>12, <1>14 DEF OnOrderRefused, Begin, Answers
<1>15. CASE FlattenPositions
  <2>1. /\ handler = "idle" /\ handler' \in {"leave", "down"} /\ ~asked /\ asked' = asked
        /\ UNCHANGED <<file, faults, lives>>
    BY <1>15 DEF FlattenPositions, journal, Typed, AskedWaits
  <2>2. Owing' = Owing /\ (Ago' = Ago \/ Ago' = Ago + 1)
    BY <1>4, <2>1 DEF Owing, OpenAt, Ago
  <2> QED BY <1>0, <1>3, <1>4, <2>1, <2>2, NothingCounted
<1>16. CASE Start
  <2>1. /\ handler = "down" /\ handler' = "start" /\ lives' = lives + 1 /\ ~asked'
        /\ UNCHANGED <<file, faults>>
    BY <1>16 DEF Start, journal
  <2>2. Owing' = Owing /\ Ago' = Ago
    BY <1>4, <2>1 DEF Owing, OpenAt, Ago
  <2> QED BY <1>0, <1>3, <1>4, <2>1, <2>2, NothingCounted
<1>17. CASE Die
  <2>1. handler # "down" /\ handler' = "down" /\ UNCHANGED <<file, faults, lives>>
    BY <1>17 DEF Die, journal
  <2>2. Owing' = 0 /\ Ago' = Ago + 1
    BY <1>4, <2>1 DEF Owing, OpenAt, Ago
  <2> QED BY <1>0, <1>3, <1>4, <2>1, <2>2, NothingCounted
<1>18. CASE CliFlatten
  <2> DEFINE entry == Entry("FLATTEN_REQUEST", NoIntent)
  <2>1. entry \in Entries /\ entry.event = "FLATTEN_REQUEST"
    BY DEF Entry, Entries, Events, NodeEvents
  <2>2. UNCHANGED <<process, asked>> /\ (Recorded(entry) \/ NotRecorded(entry))
    BY <1>18 DEF CliFlatten
  <2> HIDE DEF entry
  <2>3. /\ file' = file \/ \E form \in Forms : file' = Appended(file, entry, form)
        /\ (faults' = faults \/ faults' = faults + 1)
    BY <2>2 DEF Recorded, NotRecorded, Forms
  <2>4. UNCHANGED <<Evaluated, Ended>>
    BY <1>3, <2>1, <2>3, CountsMove DEF Outcomes
  <2>5. UNCHANGED <<lives, handler, at, asked>>
    BY <2>2 DEF process
  <2>6. Owing' = Owing /\ Ago' = Ago
    BY <2>5 DEF Owing, OpenAt, Ago
  <2> QED BY <1>0, <1>4, <2>3, <2>4, <2>5, <2>6, NothingCounted
<1>19. CASE UNCHANGED vars
  BY <1>12, <1>19 DEF vars
<1> QED
  BY <1>1, <1>2, <1>5, <1>6, <1>7, <1>9, <1>10, <1>11, <1>13, <1>14, <1>15, <1>16, <1>17, <1>18, <1>19
  DEF Next

\* Every evaluation ends at its gate, in a dry run, at the selector or in an order, or
\* waits for the selector, but for one for each failed write and each earlier start.
THEOREM EvaluationsAddUp == Spec => []OutcomesAddUp
<1>1. Init => Balanced
  <2> SUFFICES ASSUME Init PROVE Balanced
    OBVIOUS
  <2>1. file = <<>> /\ handler = "down" /\ at = 1 /\ lives = 0 /\ faults = 0
    BY DEF Init
  <2>2. \A events : Count(events) = 0
    BY <2>1, FS_EmptySet DEF Count
  <2>3. Evaluated = 0 /\ Ended = 0 /\ Owing = 0 /\ Ago = 0
    BY <2>1, <2>2 DEF Evaluated, Ended, Owing, OpenAt, Ago
  <2> QED BY <2>1, <2>3 DEF Balanced, Excused
<1>2. Typed /\ Balanced => OutcomesAddUp
  <2> SUFFICES ASSUME Typed, Balanced, handler = "idle"
               PROVE  /\ Ended + Waiting <= Evaluated
                      /\ Evaluated < Ended + Waiting + faults + lives
    BY DEF OutcomesAddUp, Ended, Evaluated
  <2>1. Owing = Waiting /\ Ago = lives - 1
    BY DEF Owing, OpenAt, Ago, Waiting
  <2> QED BY <2>1, CountsTyped DEF Balanced, Excused
<1> QED BY <1>1, <1>2, TypedInit, TypedStep, BalancedStep, PTL DEF Spec
=============================================================================
