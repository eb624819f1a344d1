------------------------ MODULE SelectorSystemProofs ------------------------
(***************************************************************************)
(* Proofs about SelectorSystem, for every number of strategies, intents    *)
(* and ticks of the batch interval, and every diversification policy.      *)
(***************************************************************************)
EXTENDS SelectorSystem, FiniteSetTheorems, TLAPS

Waiting == {s \in Strategies : state[s] = "PendingApproval"}

\* What a strategy keeps for an answer, and what is known of it.
AskedInv ==
    \A s \in Strategies :
        /\ pending[s] # None <=> state[s] = "PendingApproval"
        /\ pending[s] # None => /\ pending[s].strategy = s
                                /\ owner[pending[s].id] = s
                                /\ verdict[pending[s].id] = "asked"

\* An intent has an owner from the moment it is asked for.
OwnedInv == \A i \in Ids : verdict[i] = "unused" <=> owner[i] = None

\* Every intent adds an interval at most to the time the batch has waited and will wait.
WaitInv ==
    /\ alert = None => waited = 0
    /\ alert # None => waited + alert <= Interval * Len(buffer)

StoppedInv == phase # "running" => buffer = <<>>

\* The inductive invariant.
IInv ==
    /\ TypeOK
    /\ AskedInv
    /\ OwnedInv
    /\ BufferIsWhatIsAwaited
    /\ TradedWasApproved
    /\ WaitInv
    /\ StoppedInv

-----------------------------------------------------------------------------
(* The answers to a batch.                                                  *)

\* What is approved and what is rejected is in the batch, and the id of every intent of
\* the batch is among the approved ids or among the rejected ones, not both.
LEMMA AnswersPartition ==
    ASSUME NEW yes \in {Approved(buffer, Policy)}, NEW no \in {Rejected(buffer, Policy)}
    PROVE  /\ yes \subseteq ToSet(buffer) /\ no \subseteq ToSet(buffer)
           /\ \A i \in ToSet(buffer) : i.id \in IdsOf(yes) <=> ~ (i.id \in IdsOf(no))
  <1>1. yes \subseteq ToSet(buffer)
    BY DEF Approved
  <1>2. no = {i \in ToSet(buffer) : i.id \notin IdsOf(yes)}
    BY DEF Rejected, IdsOf
  <1>3. \A i \in ToSet(buffer) : i.id \in IdsOf(yes) <=> ~ (i.id \in IdsOf(no))
    BY <1>2 DEF IdsOf
  <1> QED
    BY <1>1, <1>2, <1>3

\* A strategy that waits takes the answer that names its intent's id, and one that does
\* not wait takes none.
LEMMA TakesById ==
    ASSUME IInv, NEW answers, answers \subseteq ToSet(buffer), NEW s \in Strategies
    PROVE  Takes(s, answers) <=> s \in Waiting /\ pending[s].id \in IdsOf(answers)
  <1>1. Takes(s, answers) => s \in Waiting /\ pending[s].id \in IdsOf(answers)
    BY DEF Takes, Waiting, IdsOf
  <1>2. ASSUME s \in Waiting, pending[s].id \in IdsOf(answers)
        PROVE  Takes(s, answers)
    <2>1. PICK i \in answers : i.id = pending[s].id
      BY <1>2 DEF IdsOf
    <2>2. PICK t \in Strategies : i = pending[t] /\ state[t] = "PendingApproval"
      BY <2>1 DEF IInv, BufferIsWhatIsAwaited
    <2>3. pending[s] # None /\ pending[t] # None
      BY <1>2, <2>2 DEF IInv, AskedInv, Waiting
    <2>4. owner[pending[s].id] = s /\ owner[pending[t].id] = t /\ pending[t].strategy = t
      BY <2>3 DEF IInv, AskedInv
    <2>5. i.strategy = s
      BY <2>1, <2>2, <2>4
    <2> QED
      BY <1>2, <2>1, <2>3, <2>5 DEF Takes, Waiting
  <1> QED
    BY <1>1, <1>2

\* What finalize leaves behind: nobody waits, everybody who waited is flat or entering,
\* and what is entered is approved.
LEMMA AfterFinalize ==
    ASSUME IInv, Finalize
    PROVE  /\ state' \in [Strategies -> States] /\ pending' \in [Strategies -> Intent \cup {None}]
           /\ active' \in [Strategies -> Ids \cup {None}]
           /\ verdict' \in [Ids -> {"unused", "asked", "approved", "rejected"}]
           /\ buffer' = <<>> /\ waited' = 0
           /\ \A s \in Strategies :
                 /\ pending'[s] = None
                 /\ s \in Waiting => state'[s] \in {"Flat", "PendingEntry"}
                 /\ s \notin Waiting => state'[s] = state[s] /\ active'[s] = active[s]
                 /\ s \in Waiting =>
                       \/ active'[s] = active[s] /\ state'[s] = "Flat"
                       \/ active'[s] = pending[s].id /\ verdict'[pending[s].id] = "approved"
           /\ \A i \in Ids : \/ verdict'[i] = verdict[i] /\ i \notin {pending[s].id : s \in Waiting}
                             \/ verdict[i] = "asked" /\ verdict'[i] \in {"approved", "rejected"}
                                /\ i \in {pending[s].id : s \in Waiting}
  <1>1. PICK yes \in {Approved(buffer, Policy)}, no \in {Rejected(buffer, Policy)} :
           /\ \E found \in SUBSET {s \in Strategies : Takes(s, yes)} :
                 state' = [s \in Strategies |->
                              IF Takes(s, no) THEN "Flat"
                              ELSE IF Takes(s, yes)
                                   THEN (IF s \in found THEN "PendingEntry" ELSE "Flat")
                              ELSE state[s]]
           /\ active'  = [s \in Strategies |-> IF Takes(s, yes) THEN pending[s].id ELSE active[s]]
           /\ pending' = [s \in Strategies |-> IF Takes(s, yes) \/ Takes(s, no)
                                               THEN None ELSE pending[s]]
           /\ verdict' = [i \in Ids |-> IF i \in IdsOf(yes) THEN "approved"
                                        ELSE IF i \in IdsOf(no) THEN "rejected"
                                        ELSE verdict[i]]
           /\ ClearBatch
    BY DEF Finalize
  <1>2. yes \subseteq ToSet(buffer) /\ no \subseteq ToSet(buffer)
    BY AnswersPartition
  <1>3. \A i \in ToSet(buffer) : i.id \in IdsOf(yes) <=> ~ (i.id \in IdsOf(no))
    BY AnswersPartition
  <1>4. \A s \in Strategies : /\ Takes(s, yes) <=> s \in Waiting /\ pending[s].id \in IdsOf(yes)
                              /\ Takes(s, no) <=> s \in Waiting /\ pending[s].id \in IdsOf(no)
    BY <1>2, TakesById
  <1>5. \A s \in Waiting : /\ s \in Strategies /\ pending[s] \in ToSet(buffer)
                           /\ pending[s] \in Intent /\ pending[s].id \in Ids
                           /\ verdict[pending[s].id] = "asked"
    <2>1. \A s \in Waiting : s \in Strategies /\ pending[s] \in ToSet(buffer) /\ pending[s] # None
      BY DEF IInv, BufferIsWhatIsAwaited, AskedInv, Waiting
    <2>2. \A s \in Waiting : pending[s] \in Intent
      BY <2>1 DEF IInv, TypeOK
    <2> QED
      BY <2>1, <2>2 DEF IInv, AskedInv, Intent
  <1>6. ToSet(buffer) = {pending[s] : s \in Waiting}
    BY DEF IInv, BufferIsWhatIsAwaited, Waiting
  <1>7. \A i \in Ids : i \in IdsOf(yes) \cup IdsOf(no) <=> i \in {pending[s].id : s \in Waiting}
    <2>1. ASSUME NEW i \in Ids, i \in IdsOf(yes) \cup IdsOf(no)
          PROVE  i \in {pending[s].id : s \in Waiting}
      BY <1>2, <1>6, <2>1 DEF IdsOf
    <2>2. ASSUME NEW s \in Waiting
          PROVE  pending[s].id \in IdsOf(yes) \cup IdsOf(no)
      BY <1>3, <1>5, <2>2
    <2> QED
      BY <2>1, <2>2
  <1>8. \A s \in Waiting : Takes(s, yes) <=> ~ Takes(s, no)
    BY <1>3, <1>4, <1>5
  <1>9. state' \in [Strategies -> States] /\ pending' \in [Strategies -> Intent \cup {None}]
    <2>1. state \in [Strategies -> States] /\ pending \in [Strategies -> Intent \cup {None}]
      BY DEF IInv, TypeOK
    <2> QED
      BY <1>1, <2>1 DEF States
  <1>10. active' \in [Strategies -> Ids \cup {None}]
    BY <1>1, <1>4, <1>5 DEF IInv, TypeOK
  <1>11. verdict' \in [Ids -> {"unused", "asked", "approved", "rejected"}]
    BY <1>1 DEF IInv, TypeOK
  <1>12. ASSUME NEW s \in Strategies
         PROVE  /\ pending'[s] = None
                /\ s \in Waiting => state'[s] \in {"Flat", "PendingEntry"}
                /\ s \notin Waiting => state'[s] = state[s] /\ active'[s] = active[s]
                /\ s \in Waiting =>
                       \/ active'[s] = active[s] /\ state'[s] = "Flat"
                       \/ active'[s] = pending[s].id /\ verdict'[pending[s].id] = "approved"
    <2>1. CASE s \in Waiting
      BY <1>1, <1>4, <1>5, <1>8, <2>1
    <2>2. CASE s \notin Waiting
      <3>1. pending[s] = None
        BY <2>2 DEF IInv, AskedInv, Waiting
      <3> QED
        BY <1>1, <1>4, <2>2, <3>1
    <2> QED
      BY <2>1, <2>2
  <1>13. ASSUME NEW i \in Ids
         PROVE  \/ verdict'[i] = verdict[i] /\ i \notin {pending[s].id : s \in Waiting}
                \/ verdict[i] = "asked" /\ verdict'[i] \in {"approved", "rejected"}
                   /\ i \in {pending[s].id : s \in Waiting}
    BY <1>1, <1>5, <1>7
  <1> QED
    BY <1>1, <1>9, <1>10, <1>11, <1>12, <1>13 DEF ClearBatch

-----------------------------------------------------------------------------
(* Each action keeps the invariant.                                         *)

\* A batch that is answered and whose alert is gone leaves a state of the invariant.
LEMMA FinalizeStep ==
    ASSUME IInv, Finalize, alert' = None, UNCHANGED owner,
           phase' \in {"running", "actorsStopped", "stopped"}
    PROVE  IInv'
  <1>1. /\ state' \in [Strategies -> States] /\ pending' \in [Strategies -> Intent \cup {None}]
        /\ active' \in [Strategies -> Ids \cup {None}]
        /\ verdict' \in [Ids -> {"unused", "asked", "approved", "rejected"}]
        /\ buffer' = <<>> /\ waited' = 0
    BY AfterFinalize
  <1>2. \A s \in Strategies :
           /\ pending'[s] = None
           /\ s \in Waiting => state'[s] \in {"Flat", "PendingEntry"}
           /\ s \notin Waiting => state'[s] = state[s] /\ active'[s] = active[s]
           /\ s \in Waiting =>
                 \/ active'[s] = active[s] /\ state'[s] = "Flat"
                 \/ active'[s] = pending[s].id /\ verdict'[pending[s].id] = "approved"
    BY AfterFinalize
  <1>3. \A i \in Ids : \/ verdict'[i] = verdict[i] /\ i \notin {pending[s].id : s \in Waiting}
                       \/ verdict[i] = "asked" /\ verdict'[i] \in {"approved", "rejected"}
                          /\ i \in {pending[s].id : s \in Waiting}
    BY AfterFinalize
  <1>4. \A s \in Strategies : state'[s] # "PendingApproval"
    BY <1>2 DEF Waiting
  <1>5. TypeOK'
    BY <1>1 DEF IInv, TypeOK
  <1>6. AskedInv'
    BY <1>2, <1>4 DEF AskedInv
  <1>7. OwnedInv'
    BY <1>3 DEF IInv, OwnedInv
  <1>8. BufferIsWhatIsAwaited'
    <2>1. {s \in Strategies : state'[s] = "PendingApproval"} = {}
      BY <1>4
    <2>2. ToSet(buffer') = {} /\ Len(buffer') = 0
      BY <1>1 DEF ToSet
    <2>3. {pending'[s] : s \in {t \in Strategies : state'[t] = "PendingApproval"}} = {}
      BY <2>1
    <2> QED
      BY <1>1, <2>1, <2>2, <2>3, FS_EmptySet DEF BufferIsWhatIsAwaited
  <1>9. TradedWasApproved'
    <2> SUFFICES ASSUME NEW s \in Strategies, active'[s] # None
                 PROVE  verdict'[active'[s]] = "approved" /\ owner[active'[s]] = s
      BY DEF TradedWasApproved
    <2>1. CASE active'[s] = active[s]
      <3>1. verdict[active[s]] = "approved" /\ owner[active[s]] = s /\ active[s] \in Ids
        BY <2>1 DEF IInv, TradedWasApproved, TypeOK
      <3> QED
        BY <1>3, <2>1, <3>1
    <2>2. CASE s \in Waiting /\ active'[s] = pending[s].id /\ verdict'[pending[s].id] = "approved"
      BY <2>2 DEF IInv, AskedInv, Waiting
    <2> QED
      BY <1>2, <2>1, <2>2
  <1>10. WaitInv' /\ StoppedInv'
    BY <1>1 DEF WaitInv, StoppedInv
  <1> QED
    BY <1>5, <1>6, <1>7, <1>8, <1>9, <1>10 DEF IInv

\* A strategy that was not waiting publishes an intent nobody has used and waits for its
\* answer: the batch grows by that intent and the alert moves.
LEMMA EvaluateStep ==
    ASSUME IInv, NEW s \in Strategies, Evaluate(s)
    PROVE  IInv'
  <1>1. PICK intent \in Intent :
           /\ intent.strategy = s
           /\ verdict[intent.id] = "unused"
           /\ pending' = [pending EXCEPT ![s] = intent]
           /\ owner'   = [owner EXCEPT ![intent.id] = s]
           /\ verdict' = [verdict EXCEPT ![intent.id] = "asked"]
           /\ Collect(intent)
    BY DEF Evaluate
  <1>2. /\ phase = "running" /\ state[s] = "Flat"
        /\ state' = [state EXCEPT ![s] = "PendingApproval"]
        /\ UNCHANGED <<phase, active>>
    BY DEF Evaluate
  <1>3. intent.id \in Ids /\ intent # None
    BY NoneAssumption DEF Intent
  <1>4. TypeOK
    BY DEF IInv
  <1>5. /\ buffer' = Append(buffer, intent) /\ alert' = Interval
        /\ waited' = IF buffer = <<>> THEN 0 ELSE waited
    BY <1>1 DEF Collect
  <1>6. buffer' \in Seq(Intent) /\ Len(buffer') = Len(buffer) + 1 /\ Len(buffer) \in Nat
    BY <1>4, <1>5 DEF TypeOK
  <1>7. alert' # None /\ Interval \in Nat \ {0}
    BY <1>5, SelectorAssumption, NoneAssumption
  <1>8. TypeOK'
    BY <1>1, <1>2, <1>3, <1>4, <1>5, <1>6, <1>7 DEF TypeOK, States
  <1>9. \A t \in Strategies : t # s => pending'[t] = pending[t] /\ state'[t] = state[t]
    BY <1>1, <1>2, <1>4 DEF TypeOK
  <1>10. pending'[s] = intent /\ state'[s] = "PendingApproval"
    BY <1>1, <1>2, <1>4 DEF TypeOK
  <1>11. \A i \in Ids : i # intent.id => verdict'[i] = verdict[i] /\ owner'[i] = owner[i]
    BY <1>1, <1>4 DEF TypeOK
  <1>12. verdict'[intent.id] = "asked" /\ owner'[intent.id] = s
    BY <1>1, <1>3, <1>4 DEF TypeOK
  <1>13. AskedInv'
    <2> SUFFICES ASSUME NEW t \in Strategies
                 PROVE  /\ pending'[t] # None <=> state'[t] = "PendingApproval"
                        /\ pending'[t] # None => /\ pending'[t].strategy = t
                                                 /\ owner'[pending'[t].id] = t
                                                 /\ verdict'[pending'[t].id] = "asked"
      BY DEF AskedInv
    <2>1. CASE t = s
      BY <1>1, <1>3, <1>10, <1>12, <2>1
    <2>2. CASE t # s
      <3>1. pending[t] # None => pending[t].id \in Ids /\ pending[t].id # intent.id
        <4>1. pending[t] # None => pending[t] \in Intent /\ verdict[pending[t].id] = "asked"
          BY <1>4 DEF IInv, TypeOK, AskedInv
        <4> QED
          BY <1>1, <4>1 DEF Intent
      <3> QED
        BY <1>9, <1>11, <2>2, <3>1 DEF IInv, AskedInv
    <2> QED
      BY <2>1, <2>2
  <1>14. OwnedInv'
    <2>1. s # None
      BY NoneAssumption
    <2> QED
      BY <1>11, <1>12, <2>1 DEF IInv, OwnedInv
  <1>15. BufferIsWhatIsAwaited'
    <2> DEFINE after == {t \in Strategies : state'[t] = "PendingApproval"}
    <2>1. after = Waiting \cup {s} /\ s \notin Waiting
      BY <1>2, <1>9, <1>10 DEF Waiting
    <2>2. IsFiniteSet(Waiting)
      BY SelectorAssumption, FS_Subset DEF Waiting
    <2>3. Cardinality(after) = Cardinality(Waiting) + 1
      BY <2>1, <2>2, FS_AddElement
    <2>4. Len(buffer) = Cardinality(Waiting) /\ ToSet(buffer) = {pending[t] : t \in Waiting}
      BY DEF IInv, BufferIsWhatIsAwaited, Waiting
    <2>5. ToSet(buffer') = ToSet(buffer) \cup {intent}
      <3>1. buffer \in Seq(Intent) /\ buffer' = Append(buffer, intent)
        BY <1>4, <1>5 DEF TypeOK
      <3>2. /\ \A k \in 1 .. Len(buffer) : buffer'[k] = buffer[k]
            /\ buffer'[Len(buffer) + 1] = intent
            /\ 1 .. Len(buffer') = 1 .. Len(buffer) \cup {Len(buffer) + 1}
        BY <1>6, <3>1
      <3>3. DOMAIN buffer = 1 .. Len(buffer) /\ DOMAIN buffer' = 1 .. Len(buffer')
        BY <1>6, <3>1
      <3> QED
        BY <3>2, <3>3 DEF ToSet
    <2>6. {pending'[t] : t \in after} = {pending[t] : t \in Waiting} \cup {intent}
      BY <1>9, <1>10, <2>1 DEF Waiting
    <2>7. buffer' # <<>>
      BY <1>6
    <2> HIDE DEF after
    <2>8. ToSet(buffer') = {pending'[t] : t \in after} /\ Len(buffer') = Cardinality(after)
      BY <1>6, <2>3, <2>4, <2>5, <2>6
    <2> QED
      BY <1>7, <2>7, <2>8 DEF BufferIsWhatIsAwaited, after
  <1>16. TradedWasApproved'
    BY <1>1, <1>2, <1>11, <1>4 DEF IInv, TradedWasApproved, TypeOK
  <1>17. WaitInv'
    <2>1. CASE buffer = <<>>
      BY <1>5, <1>6, <1>7, <2>1 DEF WaitInv
    <2>2. CASE buffer # <<>>
      <3>1. alert # None /\ alert \in Nat /\ waited \in Nat /\ waited + alert <= Interval * Len(buffer)
        BY <1>4, <2>2 DEF IInv, BufferIsWhatIsAwaited, WaitInv, TypeOK
      <3>2. Interval * Len(buffer') = Interval * Len(buffer) + Interval
        BY <1>6, <1>7
      <3>3. Interval * Len(buffer) \in Nat
        BY <1>6, <1>7
      <3> QED
        BY <1>5, <1>7, <2>2, <3>1, <3>2, <3>3 DEF WaitInv
    <2> QED
      BY <2>1, <2>2
  <1> QED
    BY <1>2, <1>8, <1>13, <1>14, <1>15, <1>16, <1>17 DEF IInv, StoppedInv

\* Time passes.
LEMMA TickStep ==
    ASSUME IInv, Tick
    PROVE  IInv'
  <1>1. /\ alert # None /\ alert \in 1 .. Interval /\ alert' = alert - 1 /\ waited' = waited + 1
        /\ UNCHANGED <<phase, trade, buffer, owner, verdict>>
    BY DEF Tick, IInv, TypeOK
  <1>2. alert' # None /\ alert' \in 0 .. Interval
    BY <1>1, SelectorAssumption, NoneAssumption
  <1>3. TypeOK'
    BY <1>1, <1>2 DEF IInv, TypeOK, trade
  <1>4. BufferIsWhatIsAwaited'
    BY <1>1, <1>2 DEF IInv, BufferIsWhatIsAwaited, trade
  <1>5. WaitInv'
    <2>1. waited \in Nat /\ waited + alert <= Interval * Len(buffer)
      BY <1>1 DEF IInv, TypeOK, WaitInv
    <2> QED
      BY <1>1, <1>2, <2>1 DEF WaitInv
  <1> QED
    BY <1>1, <1>3, <1>4, <1>5
       DEF IInv, AskedInv, OwnedInv, TradedWasApproved, StoppedInv, trade

\* A step that moves states other than PENDING_APPROVAL among themselves and only drops
\* active intents keeps the invariant.
LEMMA MoveStep ==
    ASSUME IInv, UNCHANGED <<phase, pending, batch, owner, verdict>>,
           state' \in [Strategies -> States], active' \in [Strategies -> Ids \cup {None}],
           \A s \in Strategies : /\ state'[s] = "PendingApproval" <=> state[s] = "PendingApproval"
                                 /\ active'[s] \in {active[s], None}
    PROVE  IInv'
  <1>1. TypeOK'
    BY DEF IInv, TypeOK, batch
  <1>2. AskedInv' /\ OwnedInv' /\ WaitInv' /\ StoppedInv'
    BY DEF IInv, AskedInv, OwnedInv, WaitInv, StoppedInv, batch
  <1>3. BufferIsWhatIsAwaited'
    <2>1. {s \in Strategies : state'[s] = "PendingApproval"}
             = {s \in Strategies : state[s] = "PendingApproval"}
      OBVIOUS
    <2> QED
      BY <2>1 DEF IInv, BufferIsWhatIsAwaited, batch
  <1>4. TradedWasApproved'
    BY DEF IInv, TradedWasApproved
  <1> QED
    BY <1>1, <1>2, <1>3, <1>4 DEF IInv

\* Every step keeps the invariant.
LEMMA InvStep ==
    ASSUME IInv, [Next]_vars
    PROVE  IInv'
  <1>0. /\ TypeOK /\ state \in [Strategies -> States] /\ active \in [Strategies -> Ids \cup {None}]
    BY DEF IInv, TypeOK
  <1>1. CASE OnFinalizeAlert
    BY <1>0, <1>1, FinalizeStep DEF OnFinalizeAlert, TypeOK
  <1>2. CASE Tick
    BY <1>2, TickStep
  <1>3. ASSUME NEW s \in Strategies, Evaluate(s)
        PROVE  IInv'
    BY <1>3, EvaluateStep
  <1>4. ASSUME NEW s \in Strategies, OrderEvent(s)
        PROVE  IInv'
    <2>1. PICK move \in OrderMoves :
             /\ state[s] = move[1]
             /\ state' = [state EXCEPT ![s] = move[2]]
             /\ active' = IF move[2] = "Flat" /\ move[1] # "InPosition"
                          THEN [active EXCEPT ![s] = None]
                          ELSE active
      BY <1>4 DEF OrderEvent
    <2>2. move[2] \in States /\ move[1] # "PendingApproval" /\ move[2] # "PendingApproval"
      BY DEF OrderMoves, States
    <2>3. UNCHANGED <<phase, pending, batch, owner, verdict>>
      BY <1>4 DEF OrderEvent
    <2>4. state' \in [Strategies -> States] /\ active' \in [Strategies -> Ids \cup {None}]
      BY <1>0, <2>1, <2>2
    <2>5. \A t \in Strategies : /\ state'[t] = "PendingApproval" <=> state[t] = "PendingApproval"
                                /\ active'[t] \in {active[t], None}
      BY <1>0, <2>1, <2>2
    <2> QED
      BY <1>0, <2>3, <2>4, <2>5, MoveStep
  <1>5. CASE StopActors
    <2>1. CASE buffer # <<>>
      BY <1>5, <2>1, FinalizeStep DEF StopActors
    <2>2. CASE buffer = <<>>
      <3>1. /\ phase' = "actorsStopped" /\ alert' = None
            /\ UNCHANGED <<owner, trade, buffer, waited, verdict>>
        BY <1>5, <2>2 DEF StopActors
      <3>2. alert = None /\ waited = 0
        BY <2>2 DEF IInv, BufferIsWhatIsAwaited, WaitInv
      <3>3. TypeOK'
        BY <1>0, <3>1 DEF TypeOK, trade
      <3> QED
        BY <2>2, <3>1, <3>2, <3>3
           DEF IInv, AskedInv, OwnedInv, BufferIsWhatIsAwaited, TradedWasApproved, WaitInv,
               StoppedInv, trade
    <2> QED
      BY <2>1, <2>2
  <1>6. CASE StopStrategies
    <2>1. phase = "actorsStopped" /\ phase' = "stopped"
          /\ UNCHANGED <<trade, batch, owner, verdict>>
      BY <1>6 DEF StopStrategies
    <2>2. TypeOK'
      BY <1>0, <2>1 DEF TypeOK, trade, batch
    <2> QED
      BY <2>1, <2>2
         DEF IInv, AskedInv, OwnedInv, BufferIsWhatIsAwaited, TradedWasApproved, WaitInv,
             StoppedInv, trade, batch
  <1>7. CASE UNCHANGED vars
    <2>1. TypeOK'
      BY <1>0, <1>7 DEF TypeOK, vars, trade, batch
    <2> QED
      BY <1>7, <2>1
         DEF IInv, AskedInv, OwnedInv, BufferIsWhatIsAwaited, TradedWasApproved, WaitInv,
             StoppedInv, vars, trade, batch
  <1> QED
    BY <1>1, <1>2, <1>3, <1>4, <1>5, <1>6, <1>7 DEF Next

\* The initial states are in the invariant.
LEMMA InvInit == Init => IInv
  <1> SUFFICES ASSUME Init PROVE IInv
    OBVIOUS
  <1>1. TypeOK
    BY DEF Init, TypeOK, States
  <1>2. AskedInv /\ TradedWasApproved
    BY DEF Init, AskedInv, TradedWasApproved
  <1>3. OwnedInv /\ WaitInv /\ StoppedInv
    BY DEF Init, OwnedInv, WaitInv, StoppedInv
  <1>4. BufferIsWhatIsAwaited
    <2>1. {s \in Strategies : state[s] = "PendingApproval"} = {}
      BY DEF Init
    <2>2. ToSet(buffer) = {} /\ Len(buffer) = 0 /\ buffer = <<>> /\ alert = None
      BY DEF Init, ToSet
    <2>3. {pending[s] : s \in {t \in Strategies : state[t] = "PendingApproval"}} = {}
      BY <2>1
    <2> QED
      BY <2>1, <2>2, <2>3, FS_EmptySet DEF BufferIsWhatIsAwaited
  <1> QED
    BY <1>1, <1>2, <1>3, <1>4 DEF IInv

-----------------------------------------------------------------------------
(* The theorems.                                                            *)

\* IInv holds at the start and is kept by every step.
THEOREM InductiveInvariant == Spec => []IInv
  BY InvInit, InvStep, PTL DEF Spec

\* Every variable of the selector and its strategies stays within its type.
THEOREM TypeCorrect == Spec => []TypeOK
  BY InductiveInvariant, PTL DEF IInv

\* The buffer always holds what the strategies wait for, each intent once, and an alert
\* is set exactly while there is any.
THEOREM BufferIsAwaited == Spec => []BufferIsWhatIsAwaited
  BY InductiveInvariant, PTL DEF IInv

\* Nothing is traded that was not approved for the strategy that trades it.
THEOREM OnlyApprovedIsTraded == Spec => []TradedWasApproved
  BY InductiveInvariant, PTL DEF IInv

\* Whenever the node stops, nobody is left waiting.
THEOREM StopAnswersAll == Spec => []NoneWaitingAfterStop
  <1>1. IInv => NoneWaitingAfterStop
    <2> SUFFICES ASSUME IInv, phase # "running", NEW s \in Strategies, state[s] = "PendingApproval"
                 PROVE  FALSE
      BY DEF NoneWaitingAfterStop
    <2>1. ToSet(buffer) = {}
      BY DEF IInv, StoppedInv, ToSet
    <2> QED
      BY <2>1 DEF IInv, BufferIsWhatIsAwaited
  <1> QED
    BY <1>1, InductiveInvariant, PTL

\* However the intents of a batch move its alert, none waits longer than one interval per
\* strategy of the node.
THEOREM WaitIsBounded == Spec => []BoundedWait
  <1>1. IInv => BoundedWait
    <2> SUFFICES ASSUME IInv PROVE BoundedWait
      OBVIOUS
    <2>1. /\ Len(buffer) = Cardinality(Waiting) /\ waited \in Nat
          /\ alert = None \/ alert \in Nat
      BY DEF IInv, TypeOK, BufferIsWhatIsAwaited, Waiting
    <2>2. /\ Cardinality(Waiting) <= Cardinality(Strategies)
          /\ Cardinality(Waiting) \in Nat /\ Cardinality(Strategies) \in Nat
      BY SelectorAssumption, FS_Subset, FS_CardinalityType DEF Waiting
    <2>3. ASSUME NEW m \in Nat, NEW n \in Nat, m <= n
          PROVE  Interval * m <= n * Interval /\ Interval * m \in Nat
      <3>1. Interval \in Nat /\ n - m \in Nat
        BY <2>3, SelectorAssumption
      <3>2. Interval * (n - m) \in Nat /\ Interval * m \in Nat
        BY <3>1
      <3>3. n * Interval = Interval * m + Interval * (n - m)
        BY <3>1
      <3> QED
        BY <3>1, <3>2, <3>3
    <2>4. /\ Interval * Len(buffer) <= Cardinality(Strategies) * Interval
          /\ Interval * Len(buffer) \in Nat /\ 0 <= Cardinality(Strategies) * Interval
      BY <2>1, <2>2, <2>3, SelectorAssumption
    <2> DEFINE most == Cardinality(Strategies) * Interval
               need == Interval * Len(buffer)
    <2>5. most \in Nat /\ need \in Nat /\ need <= most
      BY <2>2, <2>4, SelectorAssumption
    <2>6. alert # None => waited + alert <= need
      BY DEF IInv, WaitInv
    <2>7. alert = None => waited = 0
      BY DEF IInv, WaitInv
    <2> HIDE DEF most, need
    <2>8. waited <= most
      BY <2>1, <2>5, <2>6, <2>7
    <2> QED
      BY <2>8 DEF BoundedWait, most
  <1> QED
    BY <1>1, InductiveInvariant, PTL

\* No later batch, repeated answer or stop replaces a verdict.
THEOREM VerdictsAreFinal == Spec => VerdictIsFinal
  <1>1. ASSUME IInv, [Next]_vars, NEW i \in Ids, verdict[i] \in {"approved", "rejected"}
        PROVE  verdict'[i] = verdict[i]
    <2>1. CASE Finalize
      BY <1>1, <2>1, AfterFinalize
    <2>2. CASE UNCHANGED verdict
      BY <2>2
    <2>3. ASSUME NEW s \in Strategies, Evaluate(s)
          PROVE  verdict'[i] = verdict[i]
      BY <1>1, <2>3 DEF Evaluate, IInv, TypeOK
    <2> QED
      BY <1>1, <2>1, <2>2, <2>3
         DEF Next, OnFinalizeAlert, Tick, OrderEvent, StopActors,
             StopStrategies, vars
  <1>2. IInv /\ [Next]_vars
            => [\A i \in Ids : verdict[i] \in {"approved", "rejected"} => verdict'[i] = verdict[i]]_vars
    BY <1>1
  <1> QED
    BY <1>2, InductiveInvariant, PTL DEF Spec, VerdictIsFinal

-----------------------------------------------------------------------------
(* The refinement of TradeLifecycle, strategy by strategy.                  *)

\* A step that moves one intent of a strategy while no other of its intents is in work is
\* a step of its lifecycle.
LEMMA MoveOne ==
    ASSUME NEW s \in Strategies, NEW i \in Ids, NEW from, NEW to,
           Stage(s, i) \in from, Stage(s, i)' = to,
           \A j \in Ids \ {i} : Stage(s, j) \in {"unbuilt", "over"} /\ Stage(s, j)' = Stage(s, j)
    PROVE  Lifecycle(s)!Move(i, from, to)
  BY DEF Lifecycle!Move, Lifecycle!Alone, Lifecycle!Live

\* The states of a trade are those that give an intent a stage.
LEMMA TradeStates ==
    /\ StageOfState["PendingEntry"] = "entering"
    /\ StageOfState["InPosition"] = "open"
    /\ StageOfState["Exiting"] = "closing"
    /\ DOMAIN StageOfState = {"PendingEntry", "InPosition", "Exiting"}
  BY DEF StageOfState

\* What finalize does to the intents of one strategy: the one it waits with enters or is
\* dropped, and the others stay as they are.
LEMMA FinalizeMoves ==
    ASSUME IInv, Finalize, UNCHANGED owner, NEW s \in Strategies
    PROVE  Lifecycle(s)!Next \/ \A i \in Ids : Stage(s, i)' = Stage(s, i)
  <1>1. /\ pending'[s] = None
        /\ s \in Waiting => state'[s] \in {"Flat", "PendingEntry"}
        /\ s \notin Waiting => state'[s] = state[s] /\ active'[s] = active[s]
        /\ s \in Waiting =>
              \/ active'[s] = active[s] /\ state'[s] = "Flat"
              \/ active'[s] = pending[s].id /\ verdict'[pending[s].id] = "approved"
    BY AfterFinalize
  <1>2. CASE s \notin Waiting
    <2>1. pending[s] = None
      BY <1>2 DEF IInv, AskedInv, Waiting
    <2> QED
      BY <1>1, <1>2, <2>1 DEF Stage
  <1>3. CASE s \in Waiting
    <2>1. state[s] = "PendingApproval" /\ pending[s] # None
      BY <1>3 DEF IInv, AskedInv, Waiting
    <2>2. pending[s].id \in Ids /\ owner[pending[s].id] = s
      BY <2>1 DEF IInv, AskedInv, TypeOK, Intent
    <2> SUFFICES ASSUME NEW i \in Ids, i = pending[s].id
                 PROVE  Lifecycle(s)!Enter(i) \/ Lifecycle(s)!Drop(i)
      BY <2>2 DEF Lifecycle!Next
    <2>3. Stage(s, i) = "proposed"
      BY <2>1, <2>2 DEF Stage
    <2>4. \A j \in Ids \ {i} : Stage(s, j) = IF owner[j] # s THEN "unbuilt" ELSE "over"
      BY <2>1, TradeStates DEF Stage
    <2>5. Stage(s, i)' \in {"entering", "over"}
      BY <1>1, <1>3, <2>2, TradeStates DEF Stage
    <2>6. \A j \in Ids \ {i} : Stage(s, j)' = IF owner[j] # s THEN "unbuilt" ELSE "over"
      BY <1>1, <1>3, TradeStates DEF Stage
    <2>7. \/ Lifecycle(s)!Move(i, {"unbuilt", "proposed"}, "entering")
          \/ Lifecycle(s)!Move(i, {"unbuilt", "proposed", "entering", "open"}, "over")
      BY <2>3, <2>4, <2>5, <2>6, MoveOne
    <2> QED
      BY <2>7 DEF Lifecycle!Enter, Lifecycle!Drop
  <1> QED
    BY <1>2, <1>3

\* What an evaluation does to the intents of any strategy: the evaluating one proposes a
\* new intent.
LEMMA EvaluateMoves ==
    ASSUME IInv, NEW t \in Strategies, Evaluate(t), NEW s \in Strategies
    PROVE  Lifecycle(s)!Next \/ \A i \in Ids : Stage(s, i)' = Stage(s, i)
  <1>1. PICK intent \in Intent :
           /\ verdict[intent.id] = "unused"
           /\ pending' = [pending EXCEPT ![t] = intent]
           /\ owner'   = [owner EXCEPT ![intent.id] = t]
    BY DEF Evaluate
  <1>2. /\ state[t] = "Flat" /\ state' = [state EXCEPT ![t] = "PendingApproval"]
        /\ active' = active
    BY DEF Evaluate
  <1>3. intent.id \in Ids /\ intent # None /\ t # None /\ s # None
    BY NoneAssumption DEF Intent
  <1>4. owner[intent.id] = None
    BY <1>1, <1>3 DEF IInv, OwnedInv
  <1>5. /\ owner'[intent.id] = t
        /\ \A j \in Ids : j # intent.id => owner'[j] = owner[j]
        /\ pending'[t] = intent /\ state'[t] = "PendingApproval"
        /\ s # t => pending'[s] = pending[s] /\ state'[s] = state[s]
    BY <1>1, <1>2, <1>3 DEF IInv, TypeOK
  <1>6. CASE s # t
    BY <1>2, <1>3, <1>4, <1>5, <1>6 DEF Stage
  <1>7. CASE s = t
    <2>1. pending[s] = None
      BY <1>2, <1>7 DEF IInv, AskedInv
    <2> SUFFICES ASSUME NEW i \in Ids, i = intent.id
                 PROVE  Lifecycle(s)!Propose(i)
      BY <1>3 DEF Lifecycle!Next
    <2>2. Stage(s, i) = "unbuilt"
      BY <1>3, <1>4 DEF Stage
    <2>3. \A j \in Ids \ {i} : Stage(s, j) = IF owner[j] # s THEN "unbuilt" ELSE "over"
      BY <1>2, <1>7, <2>1, TradeStates DEF Stage
    <2>4. Stage(s, i)' = "proposed"
      BY <1>3, <1>5, <1>7 DEF Stage
    <2>5. \A j \in Ids \ {i} : Stage(s, j)' = IF owner[j] # s THEN "unbuilt" ELSE "over"
      BY <1>5, <1>7, TradeStates DEF Stage
    <2>6. Lifecycle(s)!Move(i, {"unbuilt"}, "proposed")
      BY <2>2, <2>3, <2>4, <2>5, MoveOne
    <2> QED
      BY <2>6 DEF Lifecycle!Propose
  <1> QED
    BY <1>6, <1>7

\* What a move of the state of a strategy does to the intent it trades, if it has one.
LEMMA TradeMoves ==
    ASSUME IInv, NEW s \in Strategies, UNCHANGED <<pending, owner>>,
           <<state[s], state'[s]>> \in OrderMoves,
           \/ active'[s] = active[s]
           \/ active'[s] = None /\ state'[s] = "Flat"
    PROVE  Lifecycle(s)!Next \/ \A i \in Ids : Stage(s, i)' = Stage(s, i)
  <1>1. pending[s] = None
    BY DEF IInv, AskedInv, OrderMoves
  <1>2. \A j \in Ids : j # None
    BY NoneAssumption
  <1>3. active[s] \in Ids \cup {None}
    BY DEF IInv, TypeOK
  <1>4. CASE active[s] = None
    BY <1>1, <1>2, <1>4 DEF Stage
  <1>5. CASE active[s] # None
    <2>1. active[s] \in Ids /\ owner[active[s]] = s
      BY <1>3, <1>5 DEF IInv, TradedWasApproved
    <2> SUFFICES ASSUME NEW i \in Ids, i = active[s]
                 PROVE  Lifecycle(s)!Next
      BY <2>1
    <2>2. state[s] \in DOMAIN StageOfState
      BY TradeStates DEF OrderMoves
    <2>3. Stage(s, i) = StageOfState[state[s]]
      BY <1>1, <2>1, <2>2 DEF Stage
    <2>4. \A j \in Ids \ {i} : Stage(s, j) = IF owner[j] # s THEN "unbuilt" ELSE "over"
      BY <1>1 DEF Stage
    <2>5. \A j \in Ids \ {i} : Stage(s, j)' = IF owner[j] # s THEN "unbuilt" ELSE "over"
      BY <1>1, <1>2 DEF Stage
    <2>6. state'[s] = "Flat" => Stage(s, i)' = "over"
      BY <1>1, <2>1, TradeStates DEF Stage
    <2>7. state'[s] \in DOMAIN StageOfState => Stage(s, i)' = StageOfState[state'[s]]
      BY <1>1, <2>1, TradeStates DEF Stage
    <2>8. CASE state[s] = "PendingEntry" /\ state'[s] = "InPosition"
      <3>1. Lifecycle(s)!Move(i, {"entering"}, "open")
        BY <2>3, <2>4, <2>5, <2>7, <2>8, MoveOne, TradeStates
      <3> QED
        BY <3>1 DEF Lifecycle!Next, Lifecycle!Open
    <2>9. CASE state[s] \in {"PendingEntry", "InPosition"} /\ state'[s] = "Flat"
      <3>1. Lifecycle(s)!Move(i, {"unbuilt", "proposed", "entering", "open"}, "over")
        BY <2>3, <2>4, <2>5, <2>6, <2>9, MoveOne, TradeStates
      <3> QED
        BY <3>1 DEF Lifecycle!Next, Lifecycle!Drop
    <2>10. CASE state[s] = "InPosition" /\ state'[s] = "Exiting"
      <3>1. Lifecycle(s)!Move(i, {"open"}, "closing")
        BY <2>3, <2>4, <2>5, <2>7, <2>10, MoveOne, TradeStates
      <3> QED
        BY <3>1 DEF Lifecycle!Next, Lifecycle!Close
    <2>11. CASE state[s] = "Exiting" /\ state'[s] = "Flat"
      <3>1. Lifecycle(s)!Move(i, {"closing"}, "over")
        BY <2>3, <2>4, <2>5, <2>6, <2>11, MoveOne, TradeStates
      <3> QED
        BY <3>1 DEF Lifecycle!Next, Lifecycle!Finish
    <2> QED
      BY <2>8, <2>9, <2>10, <2>11 DEF OrderMoves
  <1> QED
    BY <1>4, <1>5

\* Every step is, for each strategy, a step of its lifecycle or leaves its stages alone.
LEMMA LifecycleStep ==
    ASSUME IInv, [Next]_vars, NEW s \in Strategies
    PROVE  Lifecycle(s)!Next \/ \A i \in Ids : Stage(s, i)' = Stage(s, i)
  <1> DEFINE Goal == Lifecycle(s)!Next \/ \A i \in Ids : Stage(s, i)' = Stage(s, i)
  <1>0. state \in [Strategies -> States] /\ active \in [Strategies -> Ids \cup {None}]
    BY DEF IInv, TypeOK
  <1>1. ASSUME UNCHANGED <<pending, owner>>, state'[s] = state[s], active'[s] = active[s]
        PROVE  Goal
    BY <1>1 DEF Stage
  <1>2. CASE OnFinalizeAlert
    BY <1>2, FinalizeMoves DEF OnFinalizeAlert
  <1>3. CASE Tick \/ StopStrategies
    BY <1>1, <1>3 DEF Tick, StopStrategies, trade
  <1>4. ASSUME NEW t \in Strategies, Evaluate(t)
        PROVE  Goal
    BY <1>4, EvaluateMoves
  <1>5. ASSUME NEW t \in Strategies, OrderEvent(t)
        PROVE  Goal
    <2>1. PICK move \in OrderMoves :
             /\ state[t] = move[1]
             /\ state' = [state EXCEPT ![t] = move[2]]
             /\ active' = IF move[2] = "Flat" /\ move[1] # "InPosition"
                          THEN [active EXCEPT ![t] = None]
                          ELSE active
      BY <1>5 DEF OrderEvent
    <2>2. UNCHANGED <<pending, owner>>
      BY <1>5 DEF OrderEvent
    <2>3. CASE s # t
      BY <1>0, <1>1, <2>1, <2>2, <2>3
    <2>4. CASE s = t
      <3>1. move = <<move[1], move[2]>>
        BY DEF OrderMoves
      <3>2. <<state[s], state'[s]>> \in OrderMoves
        BY <1>0, <2>1, <2>4, <3>1
      <3>3. active'[s] = active[s] \/ (active'[s] = None /\ state'[s] = "Flat")
        BY <1>0, <2>1, <2>4
      <3> QED
        BY <2>2, <3>2, <3>3, TradeMoves
    <2> QED
      BY <2>3, <2>4
  <1>6. CASE StopActors
    <2>1. CASE buffer # <<>>
      BY <1>6, <2>1, FinalizeMoves DEF StopActors
    <2>2. CASE buffer = <<>>
      BY <1>1, <1>6, <2>2 DEF StopActors, trade
    <2> QED
      BY <2>1, <2>2
  <1>7. CASE UNCHANGED vars
    BY <1>1, <1>7 DEF vars, trade
  <1> QED
    BY <1>2, <1>3, <1>4, <1>5, <1>6, <1>7 DEF Next

\* Every strategy behind the selector implements the life cycle of its own intents: one at
\* a time, each moving forward, none taken up again, whatever batches and stops there are.
THEOREM Refinement == Spec => ImplementsLifecycle
  <1>1. ASSUME Init, NEW s \in Strategies
        PROVE  Lifecycle(s)!Init
    <2>1. s # None /\ \A i \in Ids : owner[i] = None
      BY <1>1, NoneAssumption DEF Init
    <2> QED
      BY <2>1 DEF Lifecycle!Init, Stage
  <1>2. Init => \A s \in Strategies : Lifecycle(s)!Init
    BY <1>1
  <1>3. IInv /\ [Next]_vars
          => [\A s \in Strategies :
                 Lifecycle(s)!Next \/ UNCHANGED [i \in Ids |-> Stage(s, i)]]_vars
    <2>1. ASSUME IInv, [Next]_vars, NEW s \in Strategies
          PROVE  Lifecycle(s)!Next \/ UNCHANGED [i \in Ids |-> Stage(s, i)]
      <3>1. CASE Lifecycle(s)!Next
        BY <3>1
      <3>2. CASE \A i \in Ids : Stage(s, i)' = Stage(s, i)
        BY <3>2
      <3> QED
        BY <2>1, <3>1, <3>2, LifecycleStep
    <2> QED
      BY <2>1
  <1> QED
    BY <1>2, <1>3, InductiveInvariant, PTL DEF Spec, ImplementsLifecycle
=============================================================================
