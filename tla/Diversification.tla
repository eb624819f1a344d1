-------------------------- MODULE Diversification --------------------------
(***************************************************************************)
(* models/diversification.py: which of the intents of a batch are approved.*)
(* An intent is a record with at least the fields id, strategy, instrument *)
(* and edge; the ids of a batch are different numbers, which stand for the *)
(* order of the UUID strings.  Edges are numbers compared as the code      *)
(* compares floats; the strategy share is a percentage.                    *)
(***************************************************************************)
EXTENDS Naturals, Sequences, FiniteSets, SequencesExt

\* Higher edge first, then the smaller id.
Precedes(a, b) == a.edge > b.edge \/ (a.edge = b.edge /\ a.id < b.id)

\* sorted(): an intent comes behind all that precede it.
Ranked(intents) ==
    LET all   == ToSet(intents)
        place == [i \in all |-> Cardinality({j \in all : Precedes(j, i)}) + 1]
    IN  [k \in 1 .. Cardinality(all) |-> CHOOSE i \in all : place[i] = k]

\* max(1, int(top_n * max_per_strategy))
StrategyCap(policy) ==
    LET share == (policy.topN * policy.strategyShare) \div 100
    IN  IF share > 1 THEN share ELSE 1

\* How many of those taken are like the intent in one field.
Like(taken, intent, field) == Cardinality({t \in taken : t[field] = intent[field]})

\* Mutant of HasRoom: the cap per instrument is left out.
HasRoomAnyInstrument(taken, intent, policy) ==
    /\ Cardinality(taken) < policy.topN
    /\ Like(taken, intent, "strategy") < StrategyCap(policy)

HasRoom(taken, intent, policy) ==
    /\ Cardinality(taken) < policy.topN
    /\ Like(taken, intent, "instrument") < policy.perInstrument
    /\ Like(taken, intent, "strategy") < StrategyCap(policy)

\* The loop of select_intents: what is taken of the first k intents, the best ones.
Taken(ranked, policy) ==
    LET taken[k \in 0 .. Len(ranked)] ==
            IF k = 0 THEN {}
            ELSE LET before == taken[k - 1]
                 IN  IF HasRoom(before, ranked[k], policy) THEN before \cup {ranked[k]} ELSE before
    IN  taken

\* Mutant of Greedy: only the first topN are looked at.
GreedyFromTop(ranked, policy) ==
    Taken(ranked, policy)[IF policy.topN < Len(ranked) THEN policy.topN ELSE Len(ranked)]

Greedy(ranked, policy) == Taken(ranked, policy)[Len(ranked)]

\* The two lists of select_intents as sets: each strategy takes its own answer, and the
\* order of the others makes no difference to it.  The loop takes intents of the batch only.
Approved(intents, policy) == ToSet(intents) \cap Greedy(Ranked(intents), policy)

\* Mutant of Rejected: what comes after the last place is in neither list.
RejectedUntilFull(intents, policy) ==
    LET approved == Approved(intents, policy)
    IN  IF Cardinality(approved) = policy.topN THEN {}
        ELSE ToSet(intents) \ approved

Rejected(intents, policy) ==
    LET ids == {i.id : i \in Approved(intents, policy)}
    IN  {i \in ToSet(intents) : i.id \notin ids}
=============================================================================
