------------------------- MODULE SelectIntentsProofs -------------------------
(***************************************************************************)
(* Proofs about SelectIntents, for batches and policies of any size.       *)
(*                                                                         *)
(* The loop of select_intents is a recursive function.  The proofs go by   *)
(* induction over its steps, in the form "there is no least number for     *)
(* which the claim fails".                                                 *)
(***************************************************************************)
EXTENDS SelectIntents, FiniteSetTheorems, WellFoundedInduction, TLAPS

\* Every nonempty set of natural numbers has a least element.
LEMMA LeastNumber ==
    ASSUME NEW T \in SUBSET Nat, T # {}
    PROVE  \E x \in T : \A y \in T : x <= y
  <1>1. PICK x \in T : \A y \in T : <<y, x>> \notin OpToRel(<, Nat)
    <2>1. T \subseteq Nat /\ T # {}
      OBVIOUS
    <2> QED BY <2>1, NatLessThanWellFounded, WFMin, Zenon
  <1>2. \A y \in T : ~ (y < x)
    BY <1>1, Zenon DEF OpToRel
  <1>3. \A y \in T : y \in Int /\ x \in Int
    OBVIOUS
  <1> QED BY <1>2, <1>3

\* Induction up to a bound, over a set: what holds 0 and is kept from each number to the
\* next holds every number.
LEMMA Induction ==
    ASSUME NEW n \in Nat, NEW T, 0 \in T,
           \A k \in 1 .. n : k - 1 \in T => k \in T
    PROVE  0 .. n \subseteq T
  <1> SUFFICES ASSUME (0 .. n) \ T # {}
               PROVE  FALSE
    OBVIOUS
  <1>1. PICK m \in (0 .. n) \ T : \A y \in (0 .. n) \ T : m <= y
    <2>1. (0 .. n) \ T \in SUBSET Nat
      OBVIOUS
    <2> QED
      BY <2>1, LeastNumber
  <1>2. m \in 1 .. n
    OBVIOUS
  <1>3. m - 1 \in T
    BY <1>1, <1>2
  <1> QED
    BY <1>1, <1>2, <1>3

-----------------------------------------------------------------------------
(* Ranked: what sorted() returns.                                           *)

\* A set of intents with numbers for edges and with different ids.
Rankable(S) ==
    /\ IsFiniteSet(S)
    /\ \A i \in S : i.edge \in Int /\ i.id \in Int
    /\ \A i, j \in S : i.id = j.id => i = j

Before(S, i) == {j \in S : Precedes(j, i)}
Place(S, i)  == Cardinality(Before(S, i)) + 1

\* The order of the batch is a strict total order.
LEMMA PrecedesOrders ==
    ASSUME NEW S, Rankable(S), NEW a \in S, NEW b \in S
    PROVE  /\ ~ Precedes(a, a)
           /\ a # b => Precedes(a, b) \/ Precedes(b, a)
           /\ Precedes(a, b) => ~ Precedes(b, a)
           /\ \A c \in S : Precedes(a, b) /\ Precedes(b, c) => Precedes(a, c)
  BY DEF Rankable, Precedes

\* The places of a batch are 1 .. its size, and the place of the better intent is smaller.
LEMMA PlaceOrders ==
    ASSUME NEW S, Rankable(S), NEW a \in S, NEW b \in S
    PROVE  /\ Place(S, a) \in 1 .. Cardinality(S)
           /\ Precedes(a, b) => Place(S, a) < Place(S, b)
  <1>1. ASSUME NEW c \in S
        PROVE  /\ IsFiniteSet(Before(S, c))
               /\ Cardinality(Before(S, c)) \in Nat
               /\ Cardinality(Before(S, c)) < Cardinality(S)
    <2>1. Before(S, c) \in SUBSET S /\ c \notin Before(S, c)
      BY PrecedesOrders DEF Before
    <2>2. IsFiniteSet(S) /\ Cardinality(S) \in Nat
      BY FS_CardinalityType DEF Rankable
    <2>3. IsFiniteSet(Before(S, c)) /\ Cardinality(Before(S, c)) <= Cardinality(S)
            /\ Cardinality(S) # Cardinality(Before(S, c))
      BY <2>1, <2>2, FS_Subset
    <2>4. Cardinality(Before(S, c)) \in Nat
      BY <2>3, FS_CardinalityType
    <2> QED
      BY <2>2, <2>3, <2>4
  <1>2. Cardinality(S) \in Nat
    BY FS_CardinalityType DEF Rankable
  <1>3. ASSUME Precedes(a, b)
        PROVE  Cardinality(Before(S, a)) < Cardinality(Before(S, b))
    <2>1. Before(S, a) \in SUBSET Before(S, b) /\ a \in Before(S, b) /\ a \notin Before(S, a)
      BY <1>3, PrecedesOrders DEF Before
    <2>2. Cardinality(Before(S, a)) <= Cardinality(Before(S, b))
            /\ Cardinality(Before(S, b)) # Cardinality(Before(S, a))
      BY <1>1, <2>1, FS_Subset
    <2> QED
      BY <1>1, <2>2
  <1>4. Place(S, a) \in 1 .. Cardinality(S)
    BY <1>1, <1>2 DEF Place
  <1>5. Precedes(a, b) => Place(S, a) < Place(S, b)
    BY <1>1, <1>3 DEF Place
  <1> QED
    BY <1>4, <1>5

\* Every place is taken by one intent.
LEMMA PlacesFilled ==
    ASSUME NEW S, Rankable(S), NEW k \in 1 .. Cardinality(S)
    PROVE  \E i \in S : Place(S, i) = k
  <1> DEFINE N     == Cardinality(S)
             place == [i \in S |-> Place(S, i)]
  <1>1. N \in Nat
    BY FS_CardinalityType DEF Rankable
  <1>2. IsFiniteSet(1 .. N) /\ Cardinality(1 .. N) = N
    <2>1. 1 \in Int /\ N \in Int
      BY <1>1
    <2> QED
      BY <1>1, <2>1, FS_Interval
  <1>3. place \in [S -> 1 .. N]
    BY PlaceOrders
  <1>4. \A a, b \in S : a # b => place[a] # place[b]
    <2> SUFFICES ASSUME NEW a \in S, NEW b \in S, a # b
                 PROVE  Place(S, a) # Place(S, b)
      OBVIOUS
    <2>1. Place(S, a) < Place(S, b) \/ Place(S, b) < Place(S, a)
      BY PlaceOrders, PrecedesOrders
    <2>2. Place(S, a) \in 1 .. N /\ Place(S, b) \in 1 .. N
      BY PlaceOrders
    <2> QED
      BY <1>1, <2>1, <2>2
  <1>5. place \in Injection(S, 1 .. N)
    BY <1>3, <1>4 DEF Injection, IsInjective
  <1>6. place \in Surjection(S, 1 .. N)
    BY <1>2, <1>5, FS_Injection
  <1> QED
    BY <1>6 DEF Surjection

\* Ranked lists the intents of the batch, each once, the better one first.
LEMMA RankedSorts ==
    ASSUME NEW intents, Rankable(ToSet(intents))
    PROVE  LET S == ToSet(intents)
               r == Ranked(intents)
           IN  /\ Cardinality(S) \in Nat /\ Len(r) = Cardinality(S)
               /\ r \in [1 .. Len(r) -> S]
               /\ \A i \in S : \E k \in 1 .. Len(r) : r[k] = i
               /\ \A j, k \in 1 .. Len(r) : j < k => Precedes(r[j], r[k])
  <1> DEFINE S == ToSet(intents)
             N == Cardinality(S)
             r == Ranked(intents)
  <1>1. N \in Nat
    BY FS_CardinalityType DEF Rankable
  <1>2. r = [k \in 1 .. N |-> CHOOSE i \in S : Place(S, i) = k]
    <2>1. \A i \in S : [x \in S |-> Cardinality({j \in S : Precedes(j, x)}) + 1][i] = Place(S, i)
      BY DEF Place, Before
    <2> QED
      BY <2>1 DEF Ranked
  <1>3. \A k \in 1 .. N : r[k] \in S /\ Place(S, r[k]) = k
    BY <1>2, PlacesFilled
  <1>4. DOMAIN r = 1 .. N /\ r \in [1 .. N -> S]
    BY <1>2, <1>3
  <1>5. r \in Seq(S) /\ Len(r) = N
    BY <1>1, <1>4
  <1>6. ASSUME NEW i \in S
        PROVE  \E k \in 1 .. N : r[k] = i
    <2>1. Place(S, i) \in 1 .. N
      BY PlaceOrders
    <2>2. Place(S, r[Place(S, i)]) = Place(S, i) /\ r[Place(S, i)] \in S
      BY <1>3, <2>1
    <2>3. r[Place(S, i)] = i
      BY <1>1, <2>1, <2>2, PlaceOrders, PrecedesOrders
    <2> QED
      BY <2>1, <2>3
  <1>7. ASSUME NEW j \in 1 .. N, NEW k \in 1 .. N, j < k
        PROVE  Precedes(r[j], r[k])
    <2>1. r[j] \in S /\ r[k] \in S /\ Place(S, r[j]) = j /\ Place(S, r[k]) = k
      BY <1>3
    <2>2. r[j] # r[k] /\ ~ (k < j)
      BY <1>1, <1>7, <2>1
    <2> QED
      BY <2>1, <2>2, PlaceOrders, PrecedesOrders
  <1> QED
    BY <1>1, <1>4, <1>5, <1>6, <1>7

-----------------------------------------------------------------------------
(* Taken: what the loop has taken after each intent.                        *)

After(before, i, pol) == IF HasRoom(before, i, pol) THEN before \cup {i} ELSE before

\* f is the recursion of Taken up to the m-th intent.
Chain(f, ranked, pol, m) ==
    f = [k \in 0 .. m |-> IF k = 0 THEN {} ELSE After(f[k - 1], ranked[k], pol)]

\* The recursion of Taken defines a function.
LEMMA TakenExists ==
    ASSUME NEW ranked, NEW pol, NEW n \in Nat
    PROVE  \E f : Chain(f, ranked, pol, n)
  <1> DEFINE Defined == {m \in 0 .. n : \E f : Chain(f, ranked, pol, m)}
  <1>1. 0 \in Defined
    <2>1. Chain([k \in 0 .. 0 |-> {}], ranked, pol, 0)
      BY DEF Chain
    <2> QED
      BY <2>1
  <1>2. ASSUME NEW m \in 1 .. n, m - 1 \in Defined
        PROVE  m \in Defined
    <2>1. PICK g : Chain(g, ranked, pol, m - 1)
      BY <1>2
    <2> DEFINE f == [k \in 0 .. m |-> IF k = m THEN After(g[m - 1], ranked[m], pol) ELSE g[k]]
    <2>2. \A k \in 0 .. m - 1 : f[k] = g[k]
      BY <1>2
    <2>3. ASSUME NEW k \in 0 .. m
          PROVE  f[k] = IF k = 0 THEN {} ELSE After(f[k - 1], ranked[k], pol)
      <3>1. CASE k = 0
        BY <1>2, <2>1, <2>2, <3>1 DEF Chain
      <3>2. CASE k # 0 /\ k # m
        <4>1. k \in 0 .. m - 1 /\ k - 1 \in 0 .. m - 1
          BY <1>2, <2>3, <3>2
        <4>2. g[k] = After(g[k - 1], ranked[k], pol)
          BY <2>1, <3>2, <4>1 DEF Chain
        <4> HIDE DEF f
        <4> QED
          BY <2>2, <3>2, <4>1, <4>2
      <3>3. CASE k # 0 /\ k = m
        <4>1. f[m] = After(g[m - 1], ranked[m], pol) /\ m - 1 \in 0 .. m - 1
          BY <1>2
        <4> HIDE DEF f
        <4> QED
          BY <2>2, <3>3, <4>1
      <3> QED
        BY <3>1, <3>2, <3>3
    <2>4. Chain(f, ranked, pol, m)
      <3>1. f = [k \in 0 .. m |-> f[k]]
        OBVIOUS
      <3> HIDE DEF f
      <3> QED
        BY <2>3, <3>1 DEF Chain
    <2> QED
      BY <2>4
  <1>3. 0 .. n \subseteq Defined
    <2> HIDE DEF Defined
    <2> QED
      BY <1>1, <1>2, Induction
  <1> QED
    BY <1>3

\* What the loop has taken at the start and after each intent.
LEMMA TakenSteps ==
    ASSUME NEW ranked, NEW pol, Len(ranked) \in Nat
    PROVE  LET t == Taken(ranked, pol)
           IN  /\ t[0] = {}
               /\ \A k \in 1 .. Len(ranked) : t[k] = After(t[k - 1], ranked[k], pol)
  <1> DEFINE n == Len(ranked)
             t == Taken(ranked, pol)
  <1>1. t = [k \in 0 .. n |-> IF k = 0 THEN {} ELSE After(t[k - 1], ranked[k], pol)]
    <2>1. t = CHOOSE f : Chain(f, ranked, pol, n)
      BY DEF Taken, After, Chain
    <2>2. \E f : Chain(f, ranked, pol, n)
      BY TakenExists
    <2>3. Chain(t, ranked, pol, n)
      BY <2>1, <2>2
    <2> QED
      BY <2>3 DEF Chain
  <1> HIDE DEF t
  <1>2. t[0] = {}
    BY <1>1
  <1>3. ASSUME NEW k \in 1 .. n
        PROVE  t[k] = After(t[k - 1], ranked[k], pol)
    <2>1. k \in 0 .. n /\ k # 0
      OBVIOUS
    <2> HIDE DEF n
    <2> QED
      BY <1>1, <2>1
  <1> QED
    BY <1>2, <1>3 DEF t

\* The intents up to the k-th.
First(r, k) == {r[j] : j \in 1 .. k}

\* What is taken after j intents is what is taken in the end of the first j: nothing is
\* given back and nothing is taken later.
LEMMA TakenGrows ==
    ASSUME NEW r, NEW S, NEW pol, Len(r) \in Nat, r \in [1 .. Len(r) -> S],
           \A j, k \in 1 .. Len(r) : j < k => r[j] # r[k]
    PROVE  \A k \in 0 .. Len(r) : LET t == Taken(r, pol)
                                  IN  /\ t[k] \subseteq First(r, k)
                                      /\ \A j \in 0 .. k : t[j] = t[k] \cap First(r, j)
  <1> DEFINE n == Len(r)
             t == Taken(r, pol)
             Grows(k) == /\ t[k] \subseteq First(r, k)
                         /\ \A j \in 0 .. k : t[j] = t[k] \cap First(r, j)
             T == {k \in 0 .. n : Grows(k)}
  <1>1. n \in Nat
    OBVIOUS
  <1>2. t[0] = {} /\ \A k \in 1 .. n : t[k] = After(t[k - 1], r[k], pol)
    BY TakenSteps
  <1> HIDE DEF n, t
  <1>3. 0 \in T
    BY <1>1, <1>2
  <1>4. ASSUME NEW k \in 1 .. n, k - 1 \in T
        PROVE  k \in T
    <2>1. k \in 0 .. n /\ k - 1 \in 0 .. k /\ 1 .. k = (1 .. k - 1) \cup {k}
      BY <1>1
    <2>2. First(r, k) = First(r, k - 1) \cup {r[k]}
      BY <2>1 DEF First
    <2>3. \A j \in 0 .. k - 1 : r[k] \notin First(r, j)
      BY <1>1 DEF First, n
    <2>4. t[k - 1] \subseteq t[k] /\ t[k] \subseteq t[k - 1] \cup {r[k]}
      BY <1>2 DEF After
    <2>5. Grows(k - 1)
      BY <1>4
    <2>6. \A j \in 0 .. k : j \in 0 .. k - 1 \/ j = k
      BY <1>1
    <2>7. t[k] \subseteq First(r, k)
      BY <2>2, <2>4, <2>5
    <2>8. ASSUME NEW j \in 0 .. k - 1
          PROVE  t[j] = t[k] \cap First(r, j)
      <3>1. t[j] = t[k - 1] \cap First(r, j)
        BY <2>5
      <3> QED
        BY <2>3, <2>4, <3>1
    <2>9. t[k] = t[k] \cap First(r, k)
      BY <2>7
    <2> QED
      BY <2>1, <2>6, <2>7, <2>8, <2>9
  <1>5. 0 .. n \subseteq T
    <2> HIDE DEF T
    <2> QED
      BY <1>1, <1>3, <1>4, Induction
  <1> QED
    BY <1>5 DEF n, t

-----------------------------------------------------------------------------
(* Approved: what select_intents approves of a batch.                       *)

\* An intent is approved exactly if those approved before it leave it room.
LEMMA ApprovedByRank ==
    ASSUME NEW intents, NEW pol, Rankable(ToSet(intents)), NEW i \in ToSet(intents)
    PROVE  i \in Approved(intents, pol)
             <=> HasRoom({j \in Approved(intents, pol) : Precedes(j, i)}, i, pol)
  <1> DEFINE S == ToSet(intents)
             r == Ranked(intents)
             n == Len(r)
             t == Taken(r, pol)
             A == Approved(intents, pol)
  <1>1. /\ n \in Nat /\ r \in [1 .. n -> S]
        /\ \A x \in S : \E k \in 1 .. n : r[k] = x
        /\ \A j, k \in 1 .. n : j < k => Precedes(r[j], r[k])
    BY RankedSorts
  <1>2. A = S \cap t[n]
    BY DEF Approved, Greedy
  <1>3. t[0] = {} /\ \A k \in 1 .. n : t[k] = After(t[k - 1], r[k], pol)
    BY <1>1, TakenSteps
  <1>4. \A j, k \in 1 .. n : j < k => r[j] # r[k]
    BY <1>1, PrecedesOrders
  <1>5. \A k \in 0 .. n : t[k] \subseteq First(r, k)
                            /\ \A j \in 0 .. k : t[j] = t[k] \cap First(r, j)
    BY <1>1, <1>4, TakenGrows
  <1>6. PICK k \in 1 .. n : r[k] = i
    BY <1>1
  <1> HIDE DEF n, t, A, r, S
  <1>7. k \in 0 .. n /\ k - 1 \in 0 .. n /\ n \in 0 .. n
    BY <1>1
  <1>8. \A j \in 0 .. n : First(r, j) \subseteq S
    BY <1>1 DEF First
  <1>9. A = t[n]
    BY <1>2, <1>5, <1>7, <1>8
  <1>10. t[k] = A \cap First(r, k) /\ t[k - 1] = A \cap First(r, k - 1)
    BY <1>5, <1>7, <1>9
  <1>11. First(r, k - 1) = {j \in S : Precedes(j, i)}
    <2>1. ASSUME NEW x \in First(r, k - 1)
          PROVE  x \in S /\ Precedes(x, i)
      BY <1>1, <1>6, <1>7, <1>8 DEF First
    <2>2. ASSUME NEW x \in S, Precedes(x, i)
          PROVE  x \in First(r, k - 1)
      <3>1. PICK m \in 1 .. n : r[m] = x
        BY <1>1
      <3>2. m # k /\ ~ (k < m)
        BY <1>1, <1>6, <2>2, <3>1, PrecedesOrders DEF S
      <3> QED
        BY <1>1, <3>1, <3>2 DEF First
    <2> QED
      BY <2>1, <2>2
  <1>12. t[k - 1] = {j \in A : Precedes(j, i)}
    BY <1>2, <1>10, <1>11
  <1>13. i \in First(r, k) /\ i \notin First(r, k - 1)
    BY <1>1, <1>4, <1>6 DEF First
  <1>14. i \in A <=> i \in t[k]
    BY <1>10, <1>13
  <1>15. i \in t[k] <=> HasRoom(t[k - 1], i, pol)
    BY <1>3, <1>6, <1>10, <1>13 DEF After
  <1> QED
    BY <1>12, <1>14, <1>15 DEF A

\* A batch of SelectIntents can be ranked.
LEMMA BatchRankable ==
    ASSUME NEW b \in BoundedSeq(Intent, MaxBatch), DistinctIds(b)
    PROVE  Rankable(ToSet(b)) /\ ToSet(b) \subseteq Intent
  <1>1. PICK m \in 0 .. MaxBatch : b \in [1 .. m -> Intent]
    BY DEF BoundedSeq, SeqOf
  <1>2. ToSet(b) \subseteq Intent
    BY <1>1 DEF ToSet
  <1>3. IsFiniteSet(ToSet(b))
    <2>1. IsFiniteSet(1 .. m)
      <3>1. 1 \in Int /\ m \in Int
        BY BatchAssumption
      <3> QED
        BY <3>1, FS_Interval
    <2>2. b \in Surjection(1 .. m, ToSet(b))
      BY <1>1 DEF Surjection, ToSet
    <2> QED
      BY <2>1, <2>2, FS_Surjection
  <1>4. \A i \in ToSet(b) : i.edge \in Int /\ i.id \in Int
    <2>1. \A i \in Intent : i.edge \in Edges /\ i.id \in 1 .. MaxBatch
      BY DEF Intent
    <2>2. Edges \subseteq Int /\ 1 .. MaxBatch \subseteq Int
      BY BatchAssumption
    <2> QED
      BY <1>2, <2>1, <2>2
  <1>5. \A i, j \in ToSet(b) : i.id = j.id => i = j
    BY <1>1 DEF ToSet, DistinctIds
  <1> QED
    BY <1>2, <1>3, <1>4, <1>5 DEF Rankable

\* What is approved of a set of intents is a finite set.
LEMMA ApprovedFinite ==
    ASSUME NEW intents, NEW pol, Rankable(ToSet(intents)),
           NEW A \in SUBSET Approved(intents, pol)
    PROVE  IsFiniteSet(A) /\ A \subseteq ToSet(intents) /\ Cardinality(A) \in Nat
  <1>1. A \in SUBSET ToSet(intents) /\ IsFiniteSet(ToSet(intents))
    BY DEF Approved, Rankable
  <1> QED
    BY <1>1, FS_Subset, FS_CardinalityType

\* With different ids, what is rejected is the rest of the batch.
LEMMA RejectedIsTheRest ==
    ASSUME NEW intents, NEW pol, Rankable(ToSet(intents))
    PROVE  Rejected(intents, pol) = ToSet(intents) \ Approved(intents, pol)
  BY DEF Rejected, Approved, Rankable

\* The room the policy gives is not more when more is taken.
LEMMA RoomShrinks ==
    ASSUME NEW A, NEW B \in SUBSET A, IsFiniteSet(A), NEW i, NEW pol \in Policies, HasRoom(A, i, pol)
    PROVE  HasRoom(B, i, pol)
  <1>1. pol.topN \in Int /\ pol.perInstrument \in Int /\ pol.strategyShare \in Int
    BY BatchAssumption
  <1>2. StrategyCap(pol) \in Int
    <2>1. (pol.topN * pol.strategyShare) \div 100 \in Int
      BY <1>1
    <2> QED
      BY <2>1 DEF StrategyCap
  <1>3. ASSUME NEW D \in SUBSET A, NEW E \in SUBSET D
        PROVE  Cardinality(E) <= Cardinality(D) /\ Cardinality(E) \in Nat /\ Cardinality(D) \in Nat
    <2>1. IsFiniteSet(D) /\ IsFiniteSet(E)
      BY FS_Subset
    <2> QED
      BY <2>1, FS_Subset, FS_CardinalityType
  <1>4. ASSUME NEW field
        PROVE  Like(B, i, field) <= Like(A, i, field) /\ Like(B, i, field) \in Nat
                 /\ Like(A, i, field) \in Nat
    <2> DEFINE D == {t \in A : t[field] = i[field]}
               E == {t \in B : t[field] = i[field]}
    <2>1. D \in SUBSET A /\ E \in SUBSET D
      OBVIOUS
    <2> HIDE DEF D, E
    <2>2. Cardinality(E) <= Cardinality(D) /\ Cardinality(E) \in Nat /\ Cardinality(D) \in Nat
      BY <1>3, <2>1
    <2> QED
      BY <2>2 DEF Like, D, E
  <1>5. Cardinality(B) <= Cardinality(A) /\ Cardinality(B) \in Nat /\ Cardinality(A) \in Nat
    BY <1>3
  <1> QED
    BY <1>1, <1>2, <1>4, <1>5 DEF HasRoom

-----------------------------------------------------------------------------
(* The specification.                                                       *)

\* Once the step is done, the two lists are what the policy makes of the batch.
IInv ==
    /\ batch \in BoundedSeq(Intent, MaxBatch) /\ DistinctIds(batch)
    /\ policy \in Policies
    /\ done => /\ approved = Approved(batch, policy)
               /\ rejected = Rejected(batch, policy)

LEMMA InductiveInvariant == Spec => []IInv
  <1>1. Init => IInv
    BY DEF Init, IInv
  <1>2. IInv /\ [Next]_vars => IInv'
    BY DEF IInv, Next, Select, vars
  <1> QED
    BY <1>1, <1>2, PTL DEF Spec

\* The cap that select_intents computes from the share, rounded down and then up to one,
\* leaves a place exactly if the next one fits into the share or is the first.
LEMMA CapIsShare ==
    ASSUME policy \in Policies, NEW n \in Nat
    PROVE  n < StrategyCap(policy) <=> PlaceLeft(n)
  <1>1. policy.topN \in Int /\ policy.strategyShare \in Int
    BY BatchAssumption
  <1> DEFINE x == policy.topN * policy.strategyShare
  <1>2. x \in Int
    BY <1>1
  <1>3. StrategyCap(policy) = IF x \div 100 > 1 THEN x \div 100 ELSE 1
    BY DEF StrategyCap
  <1>4. PlaceLeft(n) <=> n = 0 \/ 100 * (n + 1) <= x
    BY DEF PlaceLeft
  <1> HIDE DEF x
  <1> DEFINE q == x \div 100
  <1>5. q \in Int /\ 100 * q <= x /\ x < 100 * q + 100
    BY <1>2
  <1>6. StrategyCap(policy) = IF q > 1 THEN q ELSE 1
    BY <1>3
  <1> HIDE DEF q
  <1>7. CASE q > 1
    BY <1>2, <1>4, <1>5, <1>6, <1>7
  <1>8. CASE ~(q > 1)
    BY <1>2, <1>4, <1>5, <1>6, <1>8
  <1> QED
    BY <1>7, <1>8

\* An intent is approved exactly if the approved intents that rank before it leave a place
\* of the batch, of its instrument and of its strategy (select_intents).
THEOREM RankDecides == Spec => []GreedyByRank
  <1>1. IInv => GreedyByRank
    <2> SUFFICES ASSUME IInv, done, NEW i \in ToSet(batch)
                 PROVE  i \in approved <=>
                          /\ Cardinality(Better(i)) < policy.topN
                          /\ Like(Better(i), i, "instrument") < policy.perInstrument
                          /\ PlaceLeft(Like(Better(i), i, "strategy"))
      BY DEF GreedyByRank, Like
    <2>1. /\ Rankable(ToSet(batch)) /\ approved = Approved(batch, policy) /\ policy \in Policies
      BY BatchRankable DEF IInv
    <2>2. Like(Better(i), i, "strategy") \in Nat
      <3>1. IsFiniteSet(Better(i)) /\ {t \in Better(i) : t.strategy = i.strategy} \in SUBSET Better(i)
        BY <2>1, ApprovedFinite, FS_Subset DEF Better
      <3> QED
        BY <3>1, FS_Subset, FS_CardinalityType DEF Like
    <2>3. i \in approved <=> HasRoom(Better(i), i, policy)
      BY <2>1, ApprovedByRank DEF Better
    <2> QED
      BY <2>1, <2>2, <2>3, CapIsShare DEF HasRoom
  <1> QED
    BY <1>1, InductiveInvariant, PTL

\* No intent of the rejected list could be added to the approved ones.
THEOREM RoomIsUsed == Spec => []NoRoomWasted
  <1>1. IInv => NoRoomWasted
    <2> SUFFICES ASSUME IInv, done, NEW i \in rejected, HasRoom(approved, i, policy)
                 PROVE  FALSE
      <3>1. ASSUME IInv, done, NEW i \in rejected
            PROVE  \/ HasRoom(approved, i, policy)
                   \/ Cardinality(approved) >= policy.topN
                   \/ Like(approved, i, "instrument") >= policy.perInstrument
                   \/ ~ PlaceLeft(Like(approved, i, "strategy"))
        <4>1. approved = Approved(batch, policy) /\ policy \in Policies /\ Rankable(ToSet(batch))
          BY <3>1, BatchRankable DEF IInv
        <4>2. policy.topN \in Int /\ policy.perInstrument \in Int
          BY <4>1, BatchAssumption
        <4>3. /\ Cardinality(approved) \in Nat
              /\ Like(approved, i, "instrument") \in Nat /\ Like(approved, i, "strategy") \in Nat
          <5>1. IsFiniteSet(approved)
            BY <4>1, ApprovedFinite
          <5>2. /\ {t \in approved : t["instrument"] = i["instrument"]} \in SUBSET approved
                /\ {t \in approved : t["strategy"] = i["strategy"]} \in SUBSET approved
            OBVIOUS
          <5> QED
            BY <5>1, <5>2, FS_Subset, FS_CardinalityType DEF Like
        <4> QED
          BY <4>1, <4>2, <4>3, CapIsShare DEF HasRoom
      <3> QED
        BY <3>1 DEF NoRoomWasted
    <2>1. /\ Rankable(ToSet(batch)) /\ approved = Approved(batch, policy) /\ policy \in Policies
          /\ rejected = Rejected(batch, policy)
      BY BatchRankable DEF IInv
    <2>2. i \in ToSet(batch) /\ i \notin approved
      BY <2>1, RejectedIsTheRest
    <2>3. Better(i) \in SUBSET approved /\ IsFiniteSet(approved)
      BY <2>1, ApprovedFinite DEF Better
    <2>4. HasRoom(Better(i), i, policy)
      BY <2>1, <2>3, RoomShrinks
    <2> QED
      BY <2>1, <2>2, <2>4, ApprovedByRank DEF Better
  <1> QED
    BY <1>1, InductiveInvariant, PTL

\* Every intent of the batch is answered, and by one list only: no strategy is left waiting
\* and none is told both.
AnsweredOnce == done => approved \cup rejected = ToSet(batch) /\ approved \cap rejected = {}

THEOREM BatchAnswered == Spec => []AnsweredOnce
  <1>1. IInv => AnsweredOnce
    <2> SUFFICES ASSUME IInv, done
                 PROVE  approved \cup rejected = ToSet(batch) /\ approved \cap rejected = {}
      BY DEF AnsweredOnce
    <2>1. /\ Rankable(ToSet(batch)) /\ approved = Approved(batch, policy)
          /\ rejected = Rejected(batch, policy)
      BY BatchRankable DEF IInv
    <2> QED
      BY <2>1, RejectedIsTheRest DEF Approved
  <1> QED
    BY <1>1, InductiveInvariant, PTL

\* The caps hold of a set of intents: so many in all, of one instrument and of one strategy.
WithinCaps(A, pol) ==
    A # {} => /\ Cardinality(A) <= pol.topN
              /\ \A i \in A : Like(A, i, "instrument") <= pol.perInstrument
              /\ \A i \in A : Like(A, i, "strategy") <= StrategyCap(pol)

\* One more of a kind counts for its kind only.
LEMMA LikeAdds ==
    ASSUME NEW A, IsFiniteSet(A), NEW r, r \notin A, NEW i \in A \cup {r}, NEW field
    PROVE  /\ Like(A, r, field) \in Nat /\ Like(A \cup {r}, i, field) \in Nat
           /\ Like(A \cup {r}, i, field) =
                 IF r[field] = i[field] THEN Like(A, r, field) + 1 ELSE Like(A, i, field)
  <1> DEFINE D == {t \in A : t[field] = r[field]}
             E == {t \in A : t[field] = i[field]}
             F == {t \in A \cup {r} : t[field] = i[field]}
  <1>1. /\ IsFiniteSet(D) /\ Cardinality(D) \in Nat
        /\ IsFiniteSet(E) /\ Cardinality(E) \in Nat
    BY FS_Subset, FS_CardinalityType
  <1>2. CASE r[field] = i[field]
    <2>1. F = D \cup {r} /\ r \notin D
      BY <1>2
    <2> HIDE DEF D, F
    <2>2. Cardinality(F) = Cardinality(D) + 1
      BY <1>1, <2>1, FS_AddElement
    <2> QED
      BY <1>1, <1>2, <2>2 DEF Like, D, F
  <1>3. CASE r[field] # i[field]
    <2>1. F = E
      BY <1>3
    <2> QED
      BY <1>1, <1>3, <2>1 DEF Like
  <1> QED
    BY <1>2, <1>3

\* An intent for which there is room can be added within the caps.
LEMMA RoomKeepsCaps ==
    ASSUME NEW A, IsFiniteSet(A), NEW r, r \notin A, NEW pol \in Policies,
           WithinCaps(A, pol), HasRoom(A, r, pol)
    PROVE  WithinCaps(A \cup {r}, pol)
  <1>1. pol.topN \in Int /\ pol.perInstrument \in Int /\ StrategyCap(pol) \in Int
    <2>1. pol.topN \in Int /\ pol.perInstrument \in Int /\ pol.strategyShare \in Int
      BY BatchAssumption
    <2>2. (pol.topN * pol.strategyShare) \div 100 \in Int
      BY <2>1
    <2> QED
      BY <2>1, <2>2 DEF StrategyCap
  <1>2. Cardinality(A) \in Nat /\ Cardinality(A \cup {r}) = Cardinality(A) + 1
    BY FS_CardinalityType, FS_AddElement
  <1>3. Cardinality(A \cup {r}) <= pol.topN
    BY <1>1, <1>2 DEF HasRoom
  <1>4. ASSUME NEW i \in A \cup {r}
        PROVE  Like(A \cup {r}, i, "instrument") <= pol.perInstrument
    <2>1. CASE r["instrument"] = i["instrument"]
      BY <1>1, <2>1, LikeAdds DEF HasRoom
    <2>2. CASE r["instrument"] # i["instrument"]
      <3>1. i \in A /\ Like(A \cup {r}, i, "instrument") = Like(A, i, "instrument")
        BY <2>2, LikeAdds
      <3> QED
        BY <3>1 DEF WithinCaps
    <2> QED
      BY <2>1, <2>2
  <1>5. ASSUME NEW i \in A \cup {r}
        PROVE  Like(A \cup {r}, i, "strategy") <= StrategyCap(pol)
    <2>1. CASE r["strategy"] = i["strategy"]
      <3>1. Like(A, r, "strategy") < StrategyCap(pol)
        BY DEF HasRoom
      <3>2. /\ Like(A, r, "strategy") \in Nat
            /\ Like(A \cup {r}, i, "strategy") = Like(A, r, "strategy") + 1
        BY <2>1, LikeAdds
      <3> QED
        BY <1>1, <3>1, <3>2
    <2>2. CASE r["strategy"] # i["strategy"]
      <3>1. i \in A /\ Like(A \cup {r}, i, "strategy") = Like(A, i, "strategy")
        BY <2>2, LikeAdds
      <3> QED
        BY <3>1 DEF WithinCaps
    <2> QED
      BY <2>1, <2>2
  <1> QED
    BY <1>3, <1>4, <1>5 DEF WithinCaps

\* What the loop takes stays within the caps.
LEMMA GreedyWithinCaps ==
    ASSUME NEW intents, Rankable(ToSet(intents)), NEW pol \in Policies
    PROVE  WithinCaps(Approved(intents, pol), pol)
  <1> DEFINE S == ToSet(intents)
             r == Ranked(intents)
             n == Len(r)
             t == Taken(r, pol)
             T == {k \in 0 .. n : WithinCaps(t[k], pol)}
  <1>1. /\ n \in Nat /\ r \in [1 .. n -> S]
        /\ \A j, k \in 1 .. n : j < k => r[j] # r[k]
    BY RankedSorts, PrecedesOrders
  <1>2. t[0] = {} /\ \A k \in 1 .. n : t[k] = After(t[k - 1], r[k], pol)
    BY <1>1, TakenSteps
  <1>3. \A k \in 0 .. n : t[k] \subseteq First(r, k)
    BY <1>1, TakenGrows
  <1>4. Approved(intents, pol) = S \cap t[n]
    BY DEF Approved, Greedy
  <1> HIDE DEF n, t, r
  <1>5. \A k \in 0 .. n : First(r, k) \subseteq S
    BY <1>1 DEF First
  <1>6. 0 \in T
    BY <1>1, <1>2 DEF WithinCaps
  <1>7. ASSUME NEW k \in 1 .. n, k - 1 \in T
        PROVE  k \in T
    <2>1. k \in 0 .. n /\ k - 1 \in 0 .. n
      BY <1>1
    <2>2. IsFiniteSet(t[k - 1])
      BY <1>3, <1>5, <2>1, FS_Subset DEF Rankable
    <2>3. r[k] \notin t[k - 1]
      BY <1>1, <1>3, <2>1 DEF First
    <2>4. WithinCaps(t[k], pol)
      <3>1. WithinCaps(t[k - 1], pol) /\ t[k] = After(t[k - 1], r[k], pol)
        BY <1>2, <1>7
      <3>2. CASE HasRoom(t[k - 1], r[k], pol)
        BY <2>2, <2>3, <3>1, <3>2, RoomKeepsCaps DEF After
      <3>3. CASE ~ HasRoom(t[k - 1], r[k], pol)
        BY <3>1, <3>3 DEF After
      <3> QED
        BY <3>2, <3>3
    <2> QED
      BY <2>1, <2>4
  <1>8. n \in T
    <2>1. 0 .. n \subseteq T
      <3> HIDE DEF T
      <3> QED
        BY <1>1, <1>6, <1>7, Induction
    <2> QED
      BY <1>1, <2>1
  <1>9. Approved(intents, pol) = t[n]
    BY <1>1, <1>3, <1>4, <1>5
  <1> QED
    BY <1>8, <1>9

\* What is approved of a batch keeps to the caps of the policy: in all, of one instrument
\* and of one strategy.
ApprovedWithinCaps == done => WithinCaps(approved, policy)

THEOREM CapsKept == Spec => []ApprovedWithinCaps
  <1>1. IInv => ApprovedWithinCaps
    BY BatchRankable, GreedyWithinCaps DEF IInv, ApprovedWithinCaps
  <1> QED
    BY <1>1, InductiveInvariant, PTL
=============================================================================
