------------------------- MODULE InvestigationProofs -------------------------
(***************************************************************************)
(* Proofs about Investigation, for any number of threads and reviews and   *)
(* any journals: feedback names a lead of its review, a deleted review     *)
(* stays deleted, and what a review concludes and the coverage it states   *)
(* are earned by what it has read.                                         *)
(*                                                                         *)
(* The first part is about Correlation: the places of a ranking are the    *)
(* numbers from 1 on, so the leads are those of different changes, and a   *)
(* candidate has a witness.  The second is about coverage, and has the     *)
(* greatest of a finite set.  Then come the invariants.                    *)
(***************************************************************************)
EXTENDS Investigation, FiniteSetTheorems, WellFoundedInduction, TLAPS

(***************************************************************************)
(* The ranking of a finite set of hypotheses about different events.       *)
(***************************************************************************)
Rankable(H) ==
  /\ IsFiniteSet(H)
  /\ \A h \in H : h.score \in Int /\ h.event.time \in Int /\ h.event.id \in Int
  /\ \A g, h \in H : g.event.id = h.event.id => g = h

Ahead(H, h) == {g \in H : Precedes(g, h)}
Place(H, h) == 1 + Cardinality(Ahead(H, h))

(* Precedes compares the five parts of the keys in their order.            *)
Key(h, k) == SortKey(h)[k]

LEMMA PrecedesByKey ==
  ASSUME NEW g, NEW h
  PROVE  Precedes(g, h) <=>
           \/ Key(g, 1) < Key(h, 1)
           \/ Key(g, 1) = Key(h, 1) /\ Key(g, 2) < Key(h, 2)
           \/ Key(g, 1) = Key(h, 1) /\ Key(g, 2) = Key(h, 2) /\ Key(g, 3) < Key(h, 3)
           \/ /\ Key(g, 1) = Key(h, 1) /\ Key(g, 2) = Key(h, 2) /\ Key(g, 3) = Key(h, 3)
              /\ Key(g, 4) < Key(h, 4)
           \/ /\ Key(g, 1) = Key(h, 1) /\ Key(g, 2) = Key(h, 2) /\ Key(g, 3) = Key(h, 3)
              /\ Key(g, 4) = Key(h, 4) /\ Key(g, 5) < Key(h, 5)
<1> DEFINE Same(j) == Key(g, j) = Key(h, j)
           Less(k) == Key(g, k) < Key(h, k)
<1>1. Precedes(g, h) <=> \E k \in 1 .. 5 : Less(k) /\ \A j \in 1 .. k - 1 : Same(j)
  BY DEF Precedes, Key
<1> HIDE DEF Same, Less
<1>2. (\E k \in 1 .. 5 : Less(k) /\ \A j \in 1 .. k - 1 : Same(j)) <=>
        \/ Less(1)
        \/ Same(1) /\ Less(2)
        \/ Same(1) /\ Same(2) /\ Less(3)
        \/ Same(1) /\ Same(2) /\ Same(3) /\ Less(4)
        \/ Same(1) /\ Same(2) /\ Same(3) /\ Same(4) /\ Less(5)
  OBVIOUS
<1> QED BY <1>1, <1>2 DEF Same, Less

LEMMA KeysAreNumbers ==
  ASSUME NEW h, h.score \in Int, h.event.time \in Int, h.event.id \in Int
  PROVE  /\ Key(h, 1) \in Int /\ Key(h, 2) \in Int /\ Key(h, 3) \in Int /\ Key(h, 4) \in Int
         /\ Key(h, 5) = h.event.id
<1>1. SourcePriority(h.event.source) \in Int
  BY DEF SourcePriority
<1> QED BY <1>1 DEF Key, SortKey

LEMMA PrecedesIsOrder ==
  ASSUME NEW H, Rankable(H)
  PROVE  /\ \A h \in H : ~ Precedes(h, h)
         /\ \A f, g, h \in H : Precedes(f, g) /\ Precedes(g, h) => Precedes(f, h)
         /\ \A g, h \in H : g # h => Precedes(g, h) \/ Precedes(h, g)
<1>1. \A h \in H : /\ Key(h, 1) \in Int /\ Key(h, 2) \in Int /\ Key(h, 3) \in Int
                   /\ Key(h, 4) \in Int /\ Key(h, 5) \in Int
  BY KeysAreNumbers DEF Rankable
<1>2. ASSUME NEW h \in H PROVE ~ Precedes(h, h)
  BY <1>1, PrecedesByKey
<1>3. ASSUME NEW f \in H, NEW g \in H, NEW h \in H, Precedes(f, g), Precedes(g, h)
      PROVE  Precedes(f, h)
  BY <1>1, <1>3, PrecedesByKey
<1>4. ASSUME NEW g \in H, NEW h \in H, g # h PROVE Precedes(g, h) \/ Precedes(h, g)
  <2>1. Key(g, 5) # Key(h, 5)
    BY <1>4, KeysAreNumbers DEF Rankable
  <2> QED BY <1>1, <2>1, PrecedesByKey
<1> QED BY <1>2, <1>3, <1>4

(* The places of a ranking are the numbers from 1 on, without a tie.       *)
LEMMA Places ==
  ASSUME NEW H, Rankable(H)
  PROVE  /\ Cardinality(H) \in Nat
         /\ \A h \in H : Place(H, h) \in 1 .. Cardinality(H)
         /\ \A g, h \in H : Place(H, g) = Place(H, h) => g = h
         /\ \A k \in 1 .. Cardinality(H) : \E h \in H : Place(H, h) = k
<1> DEFINE n == Cardinality(H)
           place == [h \in H |-> Place(H, h)]
<1>1. IsFiniteSet(H) /\ n \in Nat
  BY FS_CardinalityType DEF Rankable
<1>2. ASSUME NEW h \in H
      PROVE  /\ IsFiniteSet(Ahead(H, h)) /\ Cardinality(Ahead(H, h)) \in Nat
             /\ Place(H, h) \in 1 .. n
  <2>1. Ahead(H, h) \in SUBSET (H \ {h})
    BY PrecedesIsOrder DEF Ahead
  <2>2. IsFiniteSet(H \ {h}) /\ Cardinality(H \ {h}) = n - 1
    BY <1>1, FS_RemoveElement
  <2>3. IsFiniteSet(Ahead(H, h)) /\ Cardinality(Ahead(H, h)) <= n - 1
    BY <2>1, <2>2, FS_Subset
  <2>4. Cardinality(Ahead(H, h)) \in Nat
    BY <2>3, FS_CardinalityType
  <2> QED BY <1>1, <2>3, <2>4 DEF Place
<1>3. ASSUME NEW g \in H, NEW h \in H, Precedes(g, h) PROVE Place(H, g) < Place(H, h)
  <2>1. Ahead(H, g) \in SUBSET Ahead(H, h)
    BY <1>3, PrecedesIsOrder DEF Ahead
  <2>2. g \in Ahead(H, h) /\ g \notin Ahead(H, g)
    BY <1>3, PrecedesIsOrder DEF Ahead
  <2>3. Cardinality(Ahead(H, g)) < Cardinality(Ahead(H, h))
    BY <1>2, <2>1, <2>2, FS_Subset
  <2> QED BY <1>2, <2>3 DEF Place
<1>4. \A g, h \in H : Place(H, g) = Place(H, h) => g = h
  BY <1>2, <1>3, PrecedesIsOrder
<1>5. place \in Injection(H, 1 .. n)
  BY <1>2, <1>4 DEF Injection, IsInjective
<1>6. IsFiniteSet(1 .. n) /\ Cardinality(1 .. n) = n
  BY <1>1, FS_Interval
<1>7. place \in Surjection(H, 1 .. n)
  BY <1>1, <1>5, <1>6, FS_Injection
<1> QED BY <1>1, <1>2, <1>4, <1>7 DEF Surjection

LEMMA LeastOfTwo ==
  ASSUME NEW a \in Int, NEW b \in Int
  PROVE  Min({a, b}) \in {a, b} /\ Min({a, b}) <= a /\ Min({a, b}) <= b
BY DEF Min

LEMMA GreatestOfTwo ==
  ASSUME NEW a \in Int, NEW b \in Int
  PROVE  Max({a, b}) \in {a, b} /\ a <= Max({a, b}) /\ b <= Max({a, b})
BY DEF Max

(* Who comes at which place of Ranking.                                    *)
At(H, k) == CHOOSE h \in H : Place(H, h) = k

LEMMA RankingByPlace ==
  ASSUME NEW H, Rankable(H)
  PROVE  LET n == Min({Limit, Cardinality(H)}) IN
         /\ n \in Nat /\ n <= Limit /\ Ranking(H) = [k \in 1 .. n |-> Normalized(H, At(H, k))]
         /\ Ranking(H) \in Seq({Normalized(H, h) : h \in H}) /\ Len(Ranking(H)) = n
         /\ \A k \in 1 .. n : At(H, k) \in H /\ Place(H, At(H, k)) = k
         /\ \A h \in H : n < Limit => \E k \in 1 .. n : At(H, k) = h
<1> DEFINE n == Min({Limit, Cardinality(H)})
           R == {Normalized(H, h) : h \in H}
<1>1. Cardinality(H) \in Nat /\ Limit \in Nat
  BY Places, BoundsAssumption
<1>2. n \in Nat /\ n <= Limit /\ n <= Cardinality(H) /\ (n < Limit => n = Cardinality(H))
  BY <1>1, LeastOfTwo
<1>3. Ranking(H) = [k \in 1 .. n |-> Normalized(H, At(H, k))]
  BY DEF Ranking, At, Place, Ahead
<1>4. \A k \in 1 .. n : At(H, k) \in H /\ Place(H, At(H, k)) = k
  <2> TAKE k \in 1 .. n
  <2>1. k \in 1 .. Cardinality(H)
    BY <1>1, <1>2
  <2>2. \E h \in H : Place(H, h) = k
    BY <2>1, Places
  <2> QED BY <2>2 DEF At
<1>5. ASSUME NEW h \in H, n < Limit PROVE \E k \in 1 .. n : At(H, k) = h
  <2>1. Place(H, h) \in 1 .. n
    BY <1>2, <1>5, Places
  <2>2. At(H, Place(H, h)) = h
    BY <1>4, <2>1, Places
  <2> QED BY <2>1, <2>2
<1>6. Ranking(H) \in [1 .. n -> R]
  BY <1>3, <1>4
<1>7. Ranking(H) \in Seq(R) /\ Len(Ranking(H)) = n
  <2> HIDE DEF n, R
  <2> QED BY <1>2, <1>6
<1> HIDE DEF n
<1>8. QED BY <1>2, <1>3, <1>4, <1>5, <1>7 DEF n

-----------------------------------------------------------------------------
(* Different events of a request that fits the decay table are rankable.   *)
RequestFits(r) == RequestOK(r) /\ AskedOK(r) /\ r.end \in Nat

Recorded(E) ==
  /\ IsFiniteSet(E) /\ \A e \in E : EventOK(e)
  /\ \A d, e \in E : d.id = e.id => d = e

Hypotheses(E, r) == {Hypothesis(r, e, Around(E, r, e)) : e \in Changes(E, r)}

LEMMA PartsAreNumbers ==
  ASSUME NEW area, NEW changed, NEW around, NEW text, NEW e, NEW points \in Int
  PROVE  /\ Relevance(area, changed) \in Int /\ Baseline(around) \in Int
         /\ Bonus(text, e, points) \in Int
<1>1. Relevance(area, changed) \in Int
  BY DEF Relevance
<1>2. Baseline(around) \in Int
  BY DEF Baseline
<1>3. Bonus(text, e, points) \in Int
  BY DEF Bonus
<1> QED BY <1>1, <1>2, <1>3

LEMMA RarityIsNumber ==
  ASSUME NEW around, IsFiniteSet(around.alike), around.alike # {}
  PROVE  Rarity(around) \in Int
<1>1. Cardinality(around.alike) \in Nat \ {0}
  BY FS_CardinalityType, FS_EmptySet
<1>2. 1000 \div Cardinality(around.alike) \in Int
  BY <1>1
<1> DEFINE least == 350
           share == 1000 \div Cardinality(around.alike)
<1>3. least \in Int /\ share \in Int
  BY <1>2
<1>4. Rarity(around) = Max({least, share})
  BY DEF Rarity
<1> HIDE DEF least, share
<1> QED BY <1>3, <1>4, GreatestOfTwo, Zenon

LEMMA PenaltyIsNumber == ASSUME NEW counters PROVE Penalty(counters) \in Int
BY DEF Penalty

LEMMA ScoreIsNumber ==
  ASSUME NEW E, Recorded(E), NEW r, RequestFits(r), NEW e \in Changes(E, r), NEW counters
  PROVE  Score(r, e, Around(E, r, e), counters) \in Int
<1> DEFINE around == Around(E, r, e)
<1>1. r.start - e.time \in 0 .. r.lookback /\ e.time \in Int
  BY DEF Changes, InLookback, LookbackStart, RequestFits, AskedOK, Recorded, EventOK
<1>2. Temporal[r.start - e.time] \in Nat
  BY <1>1, TemporalAssumption DEF RequestFits, AskedOK
<1>3. around.alike = {c \in Changes(E, r) : c.source = e.source}
  BY DEF Around
<1>4. around.alike \in SUBSET E /\ around.alike # {}
  BY <1>3 DEF Changes, InLookback
<1>5. Rarity(around) \in Int
  BY <1>4, FS_Subset, RarityIsNumber DEF Recorded
<1> DEFINE points == 35 * Temporal[r.start - e.time] + 35 * Relevance(r.subsystem, e.subsystem)
                + 20 * Baseline(around) + 10 * Rarity(around)
                + Bonus(r.entity, e, 12000) + Bonus(r.suspect, e, 6000)
                - Penalty(counters)
<1>6. /\ Relevance(r.subsystem, e.subsystem) \in Int /\ Baseline(around) \in Int
      /\ Bonus(r.entity, e, 12000) \in Int /\ Bonus(r.suspect, e, 6000) \in Int
  BY PartsAreNumbers
<1>7. points \in Int
  BY <1>2, <1>5, <1>6, PenaltyIsNumber
<1>8. Score(r, e, around, counters) = Max({0, Min({100000, points})})
  BY DEF Score
<1> HIDE DEF points
<1> DEFINE least == Min({100000, points})
<1> HIDE DEF least
<1>9. 0 \in Int /\ least \in Int
  BY <1>7, LeastOfTwo DEF least
<1>10. Max({0, least}) \in Int
  BY <1>9, GreatestOfTwo, Zenon
<1> QED BY <1>8, <1>10 DEF least

LEMMA HypothesesAreRankable ==
  ASSUME NEW E, Recorded(E), NEW r, RequestFits(r)
  PROVE  Rankable(Hypotheses(E, r))
<1> DEFINE H == Hypotheses(E, r)
           lead == [e \in Changes(E, r) |-> Hypothesis(r, e, Around(E, r, e))]
<1>1. Changes(E, r) \in SUBSET E
  BY DEF Changes, InLookback
<1>2. IsFiniteSet(H)
  <2>1. lead \in Surjection(Changes(E, r), H)
    BY DEF Surjection, Hypotheses
  <2>2. IsFiniteSet(Changes(E, r))
    BY <1>1, FS_Subset DEF Recorded
  <2> QED BY <2>1, <2>2, FS_Surjection
<1>3. ASSUME NEW e \in Changes(E, r)
      PROVE  LET h == Hypothesis(r, e, Around(E, r, e)) IN
             h.event = e /\ h.score \in Int /\ e.time \in Int /\ e.id \in Int
  <2>1. e.time \in Int /\ e.id \in Int
    BY <1>1 DEF Recorded, EventOK
  <2> QED BY <2>1, ScoreIsNumber DEF Hypothesis
<1>4. \A h \in H : h.score \in Int /\ h.event.time \in Int /\ h.event.id \in Int
  BY <1>3 DEF Hypotheses
<1>5. ASSUME NEW g \in H, NEW h \in H, g.event.id = h.event.id PROVE g = h
  <2>1. PICK d \in Changes(E, r) : g = Hypothesis(r, d, Around(E, r, d))
    BY DEF Hypotheses
  <2>2. PICK e \in Changes(E, r) : h = Hypothesis(r, e, Around(E, r, e))
    BY DEF Hypotheses
  <2>3. d = e
    BY <1>1, <1>3, <1>5, <2>1, <2>2 DEF Recorded
  <2> QED BY <2>1, <2>2, <2>3
<1> QED BY <1>2, <1>4, <1>5 DEF Rankable

-----------------------------------------------------------------------------
(* What a conclusion says about the first lead.                            *)
LEMMA AssessedCandidate ==
  ASSUME NEW r, NEW ranked, NEW E, NEW coverage,
         Assess(r, ranked, E, coverage) = "candidate_found"
  PROVE  /\ ~ coverage.limited /\ coverage.known /\ ranked # <<>>
         /\ ranked[1].confidence = "High" /\ ranked[1].ties = 1
BY DEF Assess

LEMMA CountersOfCandidate ==
  ASSUME NEW r, NEW e, NEW around, Counters(r, e, around) = {}
  PROVE  /\ r.subsystem # "general" /\ around.prior = {} /\ around.earlier = {}
         /\ ~ WrongEntity(r, e)
BY DEF Counters

LEMMA HighConfidence ==
  ASSUME NEW around, NEW counters, NEW score, Confidence(around, counters, score) = "High"
  PROVE  around.strong # {} /\ counters = {}
BY DEF Confidence

LEMMA CloseScores ==
  ASSUME NEW g, NEW h, g.score \in Int, h.score \in Int
  PROVE  WithinMargin(g, h) <=> -2500 <= g.score - h.score /\ g.score - h.score <= 2500
<1> DEFINE gap == g.score - h.score
<1>1. gap \in Int /\ (WithinMargin(g, h) <=> gap \in -2500 .. 2500)
  BY DEF WithinMargin, Margin
<1> HIDE DEF gap
<1>2. gap \in -2500 .. 2500 <=> -2500 <= gap /\ gap <= 2500
  BY <1>1
<1> QED BY <1>1, <1>2 DEF gap

(* What makes the first lead stand out.                                    *)
Conclusive(E, r, lead, results, coverage) ==
  /\ lead \in Changes(E, r) /\ StrongSupport(E, r, lead) # {} /\ Prior(E, r, lead) = {}
  /\ r.subsystem # "general" /\ ~ coverage.limited /\ coverage.known
  /\ \A k \in 2 .. Len(results) : LET gap == results[1].score - results[k].score IN
                                 gap > 2500 \/ gap < -2500

LEMMA LeadOfCandidate ==
  ASSUME NEW E, Recorded(E), NEW r, RequestFits(r), NEW coverage, NEW results,
         results = Leads(r, E, coverage),
         Assess(r, results, E, coverage) = "candidate_found"
  PROVE  Conclusive(E, r, results[1].event, results, coverage)
<1> DEFINE H == Hypotheses(E, r)
           n == Min({Limit, Cardinality(H)})
<1>1. /\ ~ coverage.limited /\ coverage.known /\ results # <<>>
      /\ results[1].confidence = "High" /\ results[1].ties = 1
  BY AssessedCandidate
<1>2. results = Ranking(H)
  BY <1>1 DEF Leads, RankCandidates, Hypotheses
<1>3. Rankable(H)
  BY HypothesesAreRankable
<1>4. /\ n \in Nat /\ results = [k \in 1 .. n |-> Normalized(H, At(H, k))] /\ Len(results) = n
      /\ \A k \in 1 .. n : At(H, k) \in H /\ Place(H, At(H, k)) = k
  BY <1>2, <1>3, RankingByPlace
<1> HIDE DEF n
<1>5. n # 0
  <2> SUFFICES ASSUME n = 0 PROVE results = <<>>
    BY <1>1
  <2> QED BY <1>4
<1> DEFINE h == At(H, 1)
<1>6. h \in H /\ 1 \in 1 .. n /\ results[1] = Normalized(H, h)
  BY <1>4, <1>5
<1>7. PICK e \in Changes(E, r) : h = Hypothesis(r, e, Around(E, r, e))
  BY <1>6 DEF Hypotheses
<1> DEFINE ties == {g \in H : WithinMargin(g, h)}
<1>8. /\ results[1].event = h.event /\ results[1].score = h.score
      /\ results[1].ties = Cardinality(ties)
      /\ results[1].confidence = "High" => h.confidence = "High"
  BY <1>6 DEF Normalized
<1>9. results[1].event = e /\ h.confidence = "High"
  BY <1>1, <1>7, <1>8 DEF Hypothesis
<1>10. /\ Around(E, r, e).strong # {}
       /\ Counters(r, e, Around(E, r, e)) = {}
  BY <1>7, <1>9, HighConfidence DEF Hypothesis
<1>11. StrongSupport(E, r, e) # {} /\ Prior(E, r, e) = {} /\ r.subsystem # "general"
  <2> DEFINE around == Around(E, r, e)
  <2>1. around.strong = StrongSupport(E, r, e) /\ around.prior = Prior(E, r, e)
    BY DEF Around
  <2> HIDE DEF around
  <2> QED BY <1>10, <2>1, CountersOfCandidate DEF around
<1>12. ASSUME NEW k \in 2 .. Len(results)
       PROVE  LET gap == results[1].score - results[k].score IN gap > 2500 \/ gap < -2500
  <2> DEFINE g == At(H, k)
  <2>1. k \in 1 .. n /\ k # 1
    BY <1>4, <1>12
  <2>2. g \in H /\ g # h /\ results[k].score = g.score
    BY <1>4, <1>6, <2>1 DEF Normalized
  <2>3. \E x : ties = {x}
    <3>1. ties \in SUBSET H
      OBVIOUS
    <3>2. IsFiniteSet(ties)
      BY <1>3, <3>1, FS_Subset DEF Rankable
    <3> QED BY <1>1, <1>8, <3>2, FS_Singleton
  <2>4. h.score \in Int /\ g.score \in Int
    BY <1>3, <1>6, <2>2 DEF Rankable
  <2>5. h \in ties
    <3>1. WithinMargin(h, h)
      <4> HIDE DEF h
      <4> QED BY <2>4, CloseScores
    <3> QED BY <1>6, <3>1
  <2>6. ~ WithinMargin(g, h)
    BY <2>2, <2>3, <2>5
  <2>7. h.score - g.score > 2500 \/ h.score - g.score < -2500
    <3> HIDE DEF g, h
    <3> QED BY <2>4, <2>6, CloseScores
  <2> QED BY <1>8, <2>2, <2>7
<1> QED BY <1>1, <1>9, <1>11, <1>12 DEF Conclusive
-----------------------------------------------------------------------------
Actions == NonSpecific \cup EntitySpecific \cup {"driver_reset"}

LEMMA NearTheOnset ==
  ASSUME NEW E, Recorded(E), NEW r, RequestFits(r), NEW e, NEW s \in Near(E, r, e)
  PROVE  /\ s \in E /\ s.kind = "symptom" /\ e.time <= s.time /\ s.time <= r.end
         /\ s.time - r.start \in -Tolerance .. Tolerance
<1>1. /\ s \in E /\ s.kind = "symptom" /\ e.time <= s.time
      /\ s.time <= WindowEnd(r) /\ WindowStart(r) <= s.time
  BY DEF Near, Symptoms
<1>2. /\ s.time \in Int /\ r.start \in Int /\ r.end \in Int /\ LookbackStart(r) \in Int
      /\ Tolerance \in Nat
  BY <1>1, BoundsAssumption DEF Recorded, EventOK, RequestFits, AskedOK, LookbackStart
<1>3. WindowEnd(r) \in Int /\ WindowEnd(r) <= r.end /\ WindowEnd(r) <= r.start + Tolerance
  <2> DEFINE last == r.start + Tolerance
  <2>1. last \in Int
    BY <1>2
  <2>2. WindowEnd(r) = Min({r.end, last})
    BY DEF WindowEnd
  <2> HIDE DEF last
  <2>3. WindowEnd(r) \in Int /\ WindowEnd(r) <= r.end /\ WindowEnd(r) <= last
    BY <1>2, <2>1, <2>2, LeastOfTwo
  <2> QED BY <2>3 DEF last
<1>4. WindowStart(r) \in Int /\ r.start - Tolerance <= WindowStart(r)
  <2> DEFINE first == r.start - Tolerance
  <2>1. first \in Int
    BY <1>2
  <2>2. WindowStart(r) = Max({LookbackStart(r), first})
    BY DEF WindowStart
  <2> HIDE DEF first
  <2>3. WindowStart(r) \in Int /\ first <= WindowStart(r)
    BY <1>2, <2>1, <2>2, GreatestOfTwo
  <2> QED BY <2>3 DEF first
<1>5. s.time <= r.end
  BY <1>1, <1>2, <1>3
<1> DEFINE late == s.time - r.start
<1>6. late \in Int /\ late <= Tolerance /\ 0 - Tolerance <= late
  BY <1>1, <1>2, <1>3, <1>4
<1> HIDE DEF late
<1>7. late \in -Tolerance .. Tolerance
  BY <1>2, <1>6
<1> QED BY <1>1, <1>5, <1>7 DEF late

LEMMA StrongIsWitness ==
  ASSUME NEW E, Recorded(E), NEW r, RequestFits(r), r.subsystem # "general",
         NEW e \in Changes(E, r), NEW s \in StrongSupport(E, r, e), s.action \in Actions
  PROVE  s \in E /\ Witness(r, e, s)
<1>1. s \in Near(E, r, e) /\ StronglyLinked(r, e, s)
  BY DEF StrongSupport
<1>2. /\ s \in E /\ s.kind = "symptom" /\ e.time <= s.time /\ s.time <= r.end
      /\ s.time - r.start \in -Tolerance .. Tolerance
  BY <1>1, NearTheOnset
<1>3. s.subsystem = e.subsystem /\ s.action \in {"crash", "hang", "driver_reset"}
  BY <1>1 DEF StronglyLinked, Actions, NonSpecific, EntitySpecific
<1>4. e.names \subseteq Name /\ s.names \subseteq Name
  BY <1>2 DEF Recorded, EventOK, Changes, InLookback
<1>5. ASSUME EntityScoped(e) PROVE Names(r, e, s)
  <2>1. ExactIdentity(r, e, s)
    BY <1>1, <1>5 DEF StronglyLinked
  <2>2. CASE r.entity # Absent
    <3>1. ContextRelation(r.entity, e) = "match" /\ ContextRelation(r.entity, s) = "match"
      BY <2>1, <2>2 DEF ExactIdentity
    <3>2. /\ ({r.entity} \cap Name) \cap e.names # {}
          /\ ({r.entity} \cap Name) \cap s.names # {}
      BY <3>1 DEF ContextRelation, IdentityRelation
    <3> QED BY <1>4, <3>2 DEF Names
  <2>3. CASE r.entity = Absent
    <3>1. SymptomRelation(e, s) = "match"
      BY <2>1, <2>3 DEF ExactIdentity
    <3>2. e.names \cap s.names # {}
      BY <3>1 DEF SymptomRelation, IdentityRelation
    <3> QED BY <2>3, <3>2, AbsentAssumption DEF Names
  <2> QED BY <2>2, <2>3
<1> QED BY <1>2, <1>3, <1>5 DEF Witness, EntityScoped

LEMMA NothingBefore ==
  ASSUME NEW E, Recorded(E), NEW r, RequestFits(r), NEW e \in Changes(E, r),
         StrongSupport(E, r, e) # {}, Prior(E, r, e) = {},
         NEW s \in E
  PROVE  ~ Before(r, e, s)
<1> SUFFICES ASSUME Before(r, e, s) PROVE FALSE
  OBVIOUS
<1>1. PICK w \in StrongSupport(E, r, e) : TRUE
  OBVIOUS
<1>2. Linked(r, e, w) /\ SubsystemMatches(r.subsystem, e.subsystem) /\ ~ Excluded(r, e, w)
  BY <1>1 DEF StrongSupport, StronglyLinked, Linked
<1>3. s.subsystem = e.subsystem /\ s.names = e.names /\ s.kind = "symptom"
  BY DEF Before
<1>4. LookbackStart(r) <= s.time /\ s.time < e.time
  BY DEF Before, LookbackStart
<1>5. SymptomRelation(e, s) # "mismatch"
  BY <1>3 DEF SymptomRelation, IdentityRelation
<1>6. ~ Excluded(r, e, s)
  <2>1. CASE r.entity = Absent
    BY <1>5, <2>1 DEF Excluded
  <2>2. CASE r.entity # Absent
    <3>1. ContextRelation(r.entity, s) # "mismatch"
      <4>1. CASE r.entity \in Name /\ s.names # {}
        <5>1. r.entity \in s.names
          BY <4>1 DEF Before
        <5> QED BY <4>1, <5>1 DEF ContextRelation, IdentityRelation
      <4>2. CASE r.entity \notin Name
        <5>1. {r.entity} \cap Name = {}
          BY <4>2
        <5> QED BY <5>1 DEF ContextRelation, IdentityRelation
      <4>3. CASE s.names = {}
        BY <4>3 DEF ContextRelation, IdentityRelation
      <4> QED BY <4>1, <4>2, <4>3
    <3>2. EntityScoped(e) => ContextRelation(r.entity, e) # "mismatch"
      BY <1>2, <2>2 DEF Excluded
    <3> QED BY <2>2, <3>1, <3>2 DEF Excluded
  <2> QED BY <2>1, <2>2
<1>7. s \in Prior(E, r, e)
  BY <1>2, <1>3, <1>4, <1>6 DEF Prior, Symptoms, Linked
<1> QED BY <1>7

-----------------------------------------------------------------------------
LEMMA NatOrder == IsWellFoundedOn({p \in Nat \X Nat : p[1] < p[2]}, Nat)
BY NatLessThanWellFounded DEF OpToRel

(* A set of natural numbers has a least element.                           *)
LEMMA LeastNat ==
  ASSUME NEW S, S \subseteq Nat, S # {} PROVE \E x \in S : \A y \in S : x <= y
<1> DEFINE R == {p \in Nat \X Nat : p[1] < p[2]}
<1>1. \E x \in S : \A y \in S : ~ (<<y, x>> \in R)
  <2> HIDE DEF R
  <2> QED BY NatOrder, WFMin DEF R
<1>2. \A x, y \in Nat : <<y, x>> \notin R => x <= y
  OBVIOUS
<1> HIDE DEF R
<1> QED BY <1>1, <1>2

(* A finite set of integers has a greatest element, the one that the       *)
(* fewest others exceed.                                                   *)
LEMMA GreatestOfFinite ==
  ASSUME NEW S, S \subseteq Int, S # {}, IsFiniteSet(S)
  PROVE  Max(S) \in S /\ \A y \in S : y <= Max(S)
<1> DEFINE Above(x) == {y \in S : x < y}
           C == {Cardinality(Above(x)) : x \in S}
<1>1. \A x \in S : IsFiniteSet(Above(x)) /\ Cardinality(Above(x)) \in Nat
  BY FS_Subset, FS_CardinalityType
<1>2. C \subseteq Nat /\ C # {}
  BY <1>1
<1>3. \E c \in C : \A d \in C : c <= d
  <2> HIDE DEF C
  <2> QED BY <1>2, LeastNat
<1>4. PICK x \in S : \A y \in S : Cardinality(Above(x)) <= Cardinality(Above(y))
  BY <1>3
<1>5. ASSUME NEW y \in S, x < y PROVE FALSE
  <2>1. Above(y) \subseteq Above(x)
    <3>1. \A z \in S : y < z => x < z
      BY <1>5
    <3> QED BY <3>1
  <2>2. y \in Above(x) /\ y \notin Above(y)
    BY <1>5
  <2>3. Cardinality(Above(y)) < Cardinality(Above(x))
    <3> HIDE DEF Above
    <3> QED BY <1>1, <2>1, <2>2, FS_Subset
  <2> QED BY <1>1, <1>4, <2>3
<1>6. \E z \in S : \A y \in S : z >= y
  BY <1>5
<1> QED BY <1>6 DEF Max

(* Coverage that is known and not limited.                                 *)
LEMMA UnlimitedCoverage ==
  ASSUME NEW S, IsFiniteSet(S), \A s \in S : ScanOK(s) /\ s.collected # Legacy,
         NEW r, RequestFits(r), NEW c, c = CoverageOf(S, r), c.known, ~ c.limited
  PROVE  /\ c.counted = S /\ Expected(r.subsystem) \subseteq UNION {s.collected : s \in S}
         /\ \A s \in S : /\ s.status \in {"ok", "partial"}
                         /\ s.failed \cap Expected(r.subsystem) = {}
         /\ \E s \in S : s.finished >= r.start - MaxGap
<1>1. S # {}
  BY DEF CoverageOf, NoCoverage
<1>2. /\ c.counted = S /\ \A s \in S : ~ Impaired(s) /\ ~ Warns(s, r.subsystem)
      /\ Uninitialized(S, r.subsystem) = {}
      /\ ~ (r.start - Max({s.finished : s \in S}) > MaxGap)
  BY <1>1 DEF CoverageOf
<1>3. \A s \in S : s.failed # Legacy
  BY DEF ScanOK
<1>4. \A s \in S : /\ s.status \in {"ok", "partial"}
                   /\ s.failed \cap Expected(r.subsystem) = {}
  BY <1>2, <1>3 DEF Impaired, Warns, ScanOK
<1>5. Expected(r.subsystem) \subseteq UNION {s.collected : s \in S}
  <2>1. {s \in S : s.collected # Legacy} = S
    OBVIOUS
  <2>2. Uninitialized(S, r.subsystem) =
          Expected(r.subsystem) \ UNION {s.collected : s \in S}
    BY <2>1 DEF Uninitialized
  <2> QED BY <1>2, <2>2
<1>6. \E s \in S : s.finished >= r.start - MaxGap
  <2> DEFINE F == {s.finished : s \in S}
  <2>1. F \subseteq Int /\ F # {}
    BY <1>1 DEF ScanOK
  <2>2. IsFiniteSet(F)
    <3>1. [s \in S |-> s.finished] \in Surjection(S, F)
      BY DEF Surjection
    <3> QED BY <3>1, FS_Surjection
  <2>3. Max(F) \in F
    <3> HIDE DEF F
    <3> QED BY <2>1, <2>2, GreatestOfFinite
  <2>4. PICK s \in S : s.finished = Max(F)
    BY <2>3
  <2>5. s.finished \in Int /\ r.start \in Int /\ MaxGap \in Int
    BY LimitsAssumption DEF ScanOK, RequestFits, AskedOK
  <2> QED BY <1>2, <2>4, <2>5
<1> QED BY <1>2, <1>4, <1>5, <1>6

(* A change that was read is a lead, or there are too many.                *)
LEMMA LeadsListChanges ==
  ASSUME NEW E, Recorded(E), NEW r, RequestFits(r), NEW coverage, coverage.known,
         NEW results, results = Leads(r, E, coverage), NEW e \in Changes(E, r)
  PROVE  Len(results) = Limit \/ \E k \in DOMAIN results : results[k].event = e
<1> DEFINE H == Hypotheses(E, r)
           n == Min({Limit, Cardinality(H)})
           h == Hypothesis(r, e, Around(E, r, e))
<1>1. results = Ranking(H)
  BY DEF Leads, RankCandidates, Hypotheses
<1>2. /\ n \in Nat /\ n <= Limit /\ results = [k \in 1 .. n |-> Normalized(H, At(H, k))]
      /\ Len(results) = n /\ (n < Limit => \E k \in 1 .. n : At(H, k) = h)
  <2>1. h \in H
    BY DEF Hypotheses
  <2> QED BY <1>1, <2>1, HypothesesAreRankable, RankingByPlace
<1> HIDE DEF n
<1>3. h.event = e
  BY DEF Hypothesis
<1>4. CASE n < Limit
  <2>1. PICK k \in 1 .. n : At(H, k) = h
    BY <1>2, <1>4
  <2>2. results[k].event = h.event /\ k \in DOMAIN results
    BY <1>2, <2>1 DEF Normalized
  <2> QED BY <1>3, <2>2
<1> QED BY <1>2, <1>4, BoundsAssumption

LEMMA LeadsAreFew ==
  ASSUME NEW E, Recorded(E), NEW r, RequestFits(r), NEW coverage
  PROVE  Len(Leads(r, E, coverage)) <= Limit
<1> DEFINE H == Hypotheses(E, r)
           ranked == RankCandidates(E, r)
           weak == [k \in DOMAIN ranked |-> [ranked[k] EXCEPT !.confidence = "Low"]]
<1>1. ranked = Ranking(H)
  BY DEF RankCandidates, Hypotheses
<1>2. Len(ranked) <= Limit /\ Len(ranked) \in Nat /\ DOMAIN ranked = 1 .. Len(ranked)
  <2> DEFINE n == Min({Limit, Cardinality(H)})
  <2>1. n \in Nat /\ n <= Limit /\ Len(Ranking(H)) = n
        /\ Ranking(H) = [k \in 1 .. n |-> Normalized(H, At(H, k))]
    BY HypothesesAreRankable, RankingByPlace
  <2> HIDE DEF n
  <2> QED BY <1>1, <2>1
<1>3. Len(weak) = Len(ranked)
  <2> DEFINE Weak(k) == [ranked[k] EXCEPT !.confidence = "Low"]
             W == {Weak(k) : k \in 1 .. Len(ranked)}
  <2>1. weak = [k \in 1 .. Len(ranked) |-> Weak(k)]
    BY <1>2
  <2> HIDE DEF Weak
  <2>2. weak \in [1 .. Len(ranked) -> W]
    BY <2>1
  <2> HIDE DEF weak, W, ranked
  <2>3. weak \in Seq(W) /\ Len(weak) = Len(ranked)
    BY <1>2, <2>2
  <2> QED BY <2>3 DEF weak, ranked
<1>4. Leads(r, E, coverage) = ranked \/ Leads(r, E, coverage) = weak
  BY DEF Leads
<1> QED BY <1>2, <1>3, <1>4

-----------------------------------------------------------------------------
(* A request checks the row it works on in one transaction and writes it   *)
(* in another.  That is sound because the results of a row are stored at   *)
(* most once, by the one request that created it: whatever a feedback has  *)
(* found among the results is there for good.                              *)
Columns == {"request", "status", "results", "assessment", "coverage", "feedback"}

Tables ==
  /\ DOMAIN row = Id /\ DOMAIN task = Thread
  /\ \A i \in Rows : DOMAIN row[i] = Columns

Reviewing(t) == task[t].at \in {"events", "coverage", "store"}

(* The row a request has created has no results before it stores them.     *)
ReviewsAreFresh ==
  \A t \in Thread : Reviewing(t) =>
    /\ task[t].id \in Id /\ row[task[t].id].status # "unused"
    /\ task[t].id \in Rows => row[task[t].id].results = <<>>

ReviewsOwnTheirRow ==
  \A t, u \in Thread : Reviewing(t) /\ Reviewing(u) /\ task[t].id = task[u].id => t = u

(* What a feedback has checked is still true when it is stored.            *)
ChecksHold ==
  \A t \in Thread : task[t].at = "feedback" =>
    /\ task[t].id \in Id /\ row[task[t].id].status # "unused"
    /\ task[t].id \in Rows /\ task[t].feedback.event # 0 =>
         task[t].feedback.event \in Ranked(task[t].id)

IInv ==
  Tables /\ ReviewsAreFresh /\ ReviewsOwnTheirRow /\ ChecksHold /\ FeedbackNamesLead

(* A row without results has no leads.                                     *)
LEMMA NothingRanked == ASSUME NEW i, row[i].results = <<>> PROVE Ranked(i) = {}
BY DEF Ranked

(* The leads of a row whose results are kept.                              *)
LEMMA RankedKept ==
  ASSUME NEW i, row'[i].results = row[i].results
  PROVE  Ranked(i)' = Ranked(i)
BY DEF Ranked

(* A new row is an ordinary row without results and feedback.              *)
LEMMA CreatedRow ==
  ASSUME NEW r, NEW status
  PROVE  LET new == Created(r, status) IN
         /\ DOMAIN new = Columns /\ new.status = status
         /\ new.results = <<>> /\ new.feedback.event = 0
BY DEF Created, Columns, NoFeedback

(* Results do not touch the status and the feedback of a row.              *)
LEMMA AssessedRow ==
  ASSUME NEW old, DOMAIN old = Columns, NEW seen, NEW coverage
  PROVE  LET new == Assessed(old, seen, coverage) IN
         /\ DOMAIN new = Columns
         /\ new.status = old.status /\ new.feedback = old.feedback
BY DEF Assessed, Columns

-----------------------------------------------------------------------------
LEMMA InitIInv == Init => IInv
<1> SUFFICES ASSUME Init PROVE IInv
  OBVIOUS
<1>1. \A t \in Thread : task[t].at = "idle"
  BY DEF Init, Idle
<1>2. Rows = {}
  BY DEF Init, Rows, Unused
<1>3. DOMAIN row = Id /\ DOMAIN task = Thread
  BY DEF Init
<1> QED BY <1>1, <1>2, <1>3
        DEF IInv, Tables, ReviewsAreFresh, ReviewsOwnTheirRow, ChecksHold, FeedbackNamesLead,
            Reviewing

(* Steps that leave the rows alone, and the requests but for their place.  *)
LEMMA RowsKept ==
  ASSUME IInv, UNCHANGED row, DOMAIN task' = Thread,
         \A t \in Thread :
           \/ task'[t] = task[t] \/ task'[t].at = "idle"
           \/ Reviewing(t) /\ Reviewing(t)' /\ task'[t].id = task[t].id
           \/ /\ task'[t].at = "feedback" /\ task'[t].id \in Rows
              /\ task'[t].feedback.event # 0 => task'[t].feedback.event \in Ranked(task'[t].id)
  PROVE  IInv'
<1> USE DEF IInv
<1>1. Rows' = Rows /\ \A i : Ranked(i)' = Ranked(i)
  BY DEF Rows, Ranked
<1>2. Tables'
  BY <1>1 DEF Tables
<1>3. ReviewsAreFresh'
  BY <1>1 DEF ReviewsAreFresh, Reviewing
<1>4. ReviewsOwnTheirRow'
  BY DEF ReviewsOwnTheirRow, Reviewing
<1>5. ChecksHold'
  BY <1>1 DEF ChecksHold, Rows, Reviewing
<1>6. FeedbackNamesLead'
  BY <1>1 DEF FeedbackNamesLead
<1> QED BY <1>2, <1>3, <1>4, <1>5, <1>6

LEMMA NextIInv == IInv /\ [Next]_vars => IInv'
<1> SUFFICES ASSUME IInv, [Next]_vars PROVE IInv'
  OBVIOUS
<1> DOMAIN row = Id /\ DOMAIN task = Thread
  BY DEF IInv, Tables
<1>1. CASE UNCHANGED <<row, task>>
  BY <1>1, RowsKept DEF IInv, Tables
<1>2. ASSUME NEW t \in Thread, NEW i \in Id, CreateIncident(t, i) PROVE IInv'
  <2>1. PICK r : /\ row' = [row EXCEPT ![i] = Created(r, "investigating")]
                 /\ task' = [task EXCEPT ![t] = [at |-> "events", id |-> i, request |-> r]]
    BY <1>2 DEF CreateIncident
  <2>2. row[i].status = "unused" /\ i \notin Rows
    BY <1>2 DEF CreateIncident, Unused, Rows
  <2>3. Rows' = Rows \cup {i} /\ \A j \in Id \ {i} : row'[j] = row[j] /\ Ranked(j)' = Ranked(j)
    BY <2>1, CreatedRow DEF Rows, Ranked
  <2>4. /\ DOMAIN row'[i] = Columns /\ row'[i].status = "investigating"
        /\ row'[i].results = <<>> /\ row'[i].feedback.event = 0
    BY <2>1, CreatedRow
  <2>5. /\ task'[t].at = "events" /\ task'[t].id = i
        /\ \A u \in Thread \ {t} : task'[u] = task[u]
    BY <2>1
  <2>6. \A u \in Thread : Reviewing(u) \/ task[u].at = "feedback" => task[u].id # i
    BY <2>2 DEF IInv, ReviewsAreFresh, ChecksHold
  <2>7. Tables'
    BY <2>1, <2>3, <2>4 DEF IInv, Tables
  <2>8. ReviewsAreFresh'
    BY <2>3, <2>4, <2>5, <2>6 DEF IInv, ReviewsAreFresh, Reviewing
  <2>9. ReviewsOwnTheirRow'
    BY <2>5, <2>6 DEF IInv, ReviewsOwnTheirRow, Reviewing
  <2>10. ChecksHold'
    BY <2>3, <2>5, <2>6 DEF IInv, ChecksHold
  <2>11. FeedbackNamesLead'
    BY <2>3, <2>4 DEF IInv, FeedbackNamesLead, Rows
  <2> QED BY <2>7, <2>8, <2>9, <2>10, <2>11 DEF IInv
<1>3. ASSUME NEW t \in Thread, ReadEvents(t) \/ ReadCoverage(t) PROVE IInv'
  BY <1>3, RowsKept DEF ReadEvents, ReadCoverage, Reviewing
<1>4. ASSUME NEW t \in Thread, NEW i \in Id, CheckFeedback(t, i) PROVE IInv'
  BY <1>4, RowsKept DEF CheckFeedback
<1>5. ASSUME Die PROVE IInv'
  BY <1>5, RowsKept DEF Die, Idle
<1>6. ASSUME NEW t \in Thread, StoreResults(t) PROVE IInv'
  <2> DEFINE i == task[t].id
  <2>1. /\ \A u \in Thread \ {t} : task'[u] = task[u]
        /\ task'[t].at = "idle" /\ DOMAIN task' = Thread
    BY <1>6 DEF StoreResults, Idle
  <2>2. CASE i \notin Rows
    BY <1>6, <2>1, <2>2, RowsKept DEF StoreResults
  <2>3. CASE i \in Rows
    <3>1. row' = [row EXCEPT ![i] = Assessed(row[i], task[t].seen, task[t].coverage)]
      BY <1>6, <2>3 DEF StoreResults
    <3>2. /\ DOMAIN row'[i] = Columns
          /\ row'[i].status = row[i].status /\ row'[i].feedback = row[i].feedback
      BY <2>3, <3>1, AssessedRow DEF IInv, Tables, Rows
    <3>3. Rows' = Rows /\ \A j \in Id \ {i} : row'[j] = row[j] /\ Ranked(j)' = Ranked(j)
      BY <3>1, <3>2 DEF Rows, Ranked
    <3>4. Ranked(i) = {} /\ Reviewing(t)
      BY <1>6, <2>3, NothingRanked DEF IInv, ReviewsAreFresh, Reviewing, StoreResults
    <3>5. row'[i].feedback.event = 0
      BY <2>3, <3>2, <3>4 DEF IInv, FeedbackNamesLead
    <3>6. Tables'
      BY <2>1, <3>1, <3>2, <3>3 DEF IInv, Tables
    <3>7. \A u \in Thread \ {t} : Reviewing(u) => task[u].id # i
      BY <3>4 DEF IInv, ReviewsOwnTheirRow
    <3>8. ReviewsAreFresh'
      BY <2>1, <3>3, <3>7 DEF IInv, ReviewsAreFresh, Reviewing
    <3>9. ReviewsOwnTheirRow'
      BY <2>1 DEF IInv, ReviewsOwnTheirRow, Reviewing
    <3>10. ChecksHold'
      BY <2>1, <2>3, <3>2, <3>3, <3>4 DEF IInv, ChecksHold, Rows
    <3>11. FeedbackNamesLead'
      BY <3>3, <3>5 DEF IInv, FeedbackNamesLead, Rows
    <3> QED BY <3>6, <3>8, <3>9, <3>10, <3>11 DEF IInv
  <2> QED BY <2>2, <2>3
<1>7. ASSUME NEW t \in Thread, StoreFeedback(t) PROVE IInv'
  <2> DEFINE i == task[t].id
  <2>1. /\ \A u \in Thread \ {t} : task'[u] = task[u]
        /\ task'[t].at = "idle" /\ DOMAIN task' = Thread
    BY <1>7 DEF StoreFeedback, Idle
  <2>2. CASE i \notin Rows
    BY <1>7, <2>1, <2>2, RowsKept DEF StoreFeedback
  <2>3. CASE i \in Rows
    <3>1. row' = [row EXCEPT ![i] = [row[i] EXCEPT !.feedback = task[t].feedback]]
      BY <1>7, <2>3 DEF StoreFeedback
    <3>2. /\ DOMAIN row'[i] = Columns /\ row'[i].feedback = task[t].feedback
          /\ row'[i].status = row[i].status /\ row'[i].results = row[i].results
      BY <2>3, <3>1 DEF IInv, Tables, Rows, Columns
    <3>3. Rows' = Rows /\ \A j \in Id : Ranked(j)' = Ranked(j)
      BY <3>1, <3>2 DEF Rows, Ranked
    <3>4. \A j \in Id : /\ row'[j].status = row[j].status /\ row'[j].results = row[j].results
                        /\ j # i => row'[j] = row[j]
      BY <3>1, <3>2
    <3>5. Tables'
      BY <2>1, <3>1, <3>2, <3>3, <3>4 DEF IInv, Tables, Rows
    <3>6. ReviewsAreFresh'
      BY <2>1, <3>3, <3>4 DEF IInv, ReviewsAreFresh, Reviewing
    <3>7. ReviewsOwnTheirRow'
      BY <2>1 DEF IInv, ReviewsOwnTheirRow, Reviewing
    <3>8. ChecksHold'
      BY <2>1, <3>3, <3>4 DEF IInv, ChecksHold
    <3>9. FeedbackNamesLead'
      <4>1. task[t].feedback.event # 0 => task[t].feedback.event \in Ranked(i)
        BY <1>7, <2>3 DEF IInv, ChecksHold, StoreFeedback
      <4> QED BY <3>2, <3>3, <3>4, <4>1 DEF IInv, FeedbackNamesLead, Rows
    <3> QED BY <3>5, <3>6, <3>7, <3>8, <3>9 DEF IInv
  <2> QED BY <2>2, <2>3
<1>8. ASSUME NEW i \in Id, Draft(i) PROVE IInv'
  <2>1. PICK r, seen, coverage :
          row' = [row EXCEPT ![i] = Assessed(Created(r, "draft"), seen, coverage)]
    BY <1>8 DEF Draft
  <2>2. row[i].status = "unused" /\ UNCHANGED task
    BY <1>8 DEF Draft, Unused
  <2>3. /\ DOMAIN row'[i] = Columns /\ row'[i].status = "draft"
        /\ row'[i].feedback.event = 0
    BY <2>1, CreatedRow, AssessedRow
  <2>4. Rows' = Rows \cup {i} /\ \A j \in Id \ {i} : row'[j] = row[j] /\ Ranked(j)' = Ranked(j)
    BY <2>1, <2>3 DEF Rows, Ranked
  <2>5. \A u \in Thread : Reviewing(u) \/ task[u].at = "feedback" => task[u].id # i
    BY <2>2 DEF IInv, ReviewsAreFresh, ChecksHold
  <2>6. Tables'
    BY <2>1, <2>2, <2>3, <2>4 DEF IInv, Tables
  <2>7. ReviewsAreFresh' /\ ReviewsOwnTheirRow'
    BY <2>2, <2>4, <2>5 DEF IInv, ReviewsAreFresh, ReviewsOwnTheirRow, Reviewing
  <2>8. ChecksHold'
    BY <2>2, <2>4, <2>5 DEF IInv, ChecksHold
  <2>9. FeedbackNamesLead'
    BY <2>3, <2>4 DEF IInv, FeedbackNamesLead, Rows
  <2> QED BY <2>6, <2>7, <2>8, <2>9 DEF IInv
<1>9. ASSUME NEW i \in Id, DeleteIncident(i) PROVE IInv'
  <2>1. row' = [row EXCEPT ![i] = Deleted] /\ UNCHANGED task
    BY <1>9 DEF DeleteIncident
  <2>2. Rows' = Rows \ {i} /\ \A j \in Id \ {i} : row'[j] = row[j] /\ Ranked(j)' = Ranked(j)
    BY <2>1 DEF Rows, Ranked, Deleted
  <2>3. row'[i].status = "deleted"
    BY <2>1 DEF Deleted
  <2>4. Tables'
    BY <2>1, <2>2 DEF IInv, Tables, Rows
  <2>5. ReviewsAreFresh' /\ ReviewsOwnTheirRow'
    BY <2>1, <2>2, <2>3 DEF IInv, ReviewsAreFresh, ReviewsOwnTheirRow, Reviewing
  <2>6. ChecksHold'
    BY <2>1, <2>2, <2>3 DEF IInv, ChecksHold
  <2>7. FeedbackNamesLead'
    BY <2>2 DEF IInv, FeedbackNamesLead, Rows
  <2> QED BY <2>4, <2>5, <2>6, <2>7 DEF IInv
<1>10. CASE RecordEvents \/ FinishScan \/ Tick \/ UNCHANGED vars
  BY <1>1, <1>10 DEF RecordEvents, FinishScan, Tick, vars
<1> QED BY <1>2, <1>3, <1>4, <1>5, <1>6, <1>7, <1>8, <1>9, <1>10 DEF Next

LEMMA Invariance == Spec => []IInv
BY InitIInv, NextIInv, PTL DEF Spec

(* record_incident_feedback checks the event against the stored results    *)
(* and writes in a later transaction; no deletion, review or other         *)
(* feedback in between can leave it about an event that is no lead.        *)
THEOREM FeedbackIsAboutLeads == Spec => []FeedbackNamesLead
<1>1. IInv => FeedbackNamesLead
  BY DEF IInv
<1> QED BY Invariance, <1>1, PTL

-----------------------------------------------------------------------------
LEMMA StepKeepsDeleted ==
  IInv /\ [Next]_vars => \A i \in Id : row[i] = Deleted => row'[i] = Deleted
<1> SUFFICES ASSUME IInv, [Next]_vars, NEW i \in Id, row[i] = Deleted PROVE row'[i] = Deleted
  OBVIOUS
<1> DOMAIN row = Id
  BY DEF IInv, Tables
<1>1. i \notin Rows /\ row[i] # Unused
  BY DEF Rows, Deleted, Unused
<1>2. ASSUME NEW t \in Thread, NEW j \in Id, CreateIncident(t, j) \/ CheckFeedback(t, j)
      PROVE  row'[i] = row[i]
  BY <1>1, <1>2 DEF CreateIncident, CheckFeedback
<1>3. ASSUME NEW t \in Thread,
             ReadEvents(t) \/ ReadCoverage(t) \/ StoreResults(t) \/ StoreFeedback(t)
      PROVE  row'[i] = row[i]
  BY <1>1, <1>3 DEF ReadEvents, ReadCoverage, StoreResults, StoreFeedback
<1>4. ASSUME NEW j \in Id, Draft(j) \/ DeleteIncident(j) PROVE row'[i] = row[i]
  BY <1>1, <1>4 DEF Draft, DeleteIncident
<1>5. CASE Die \/ RecordEvents \/ FinishScan \/ Tick \/ UNCHANGED vars
  BY <1>5 DEF Die, RecordEvents, FinishScan, Tick, vars
<1> QED BY <1>2, <1>3, <1>4, <1>5 DEF Next

(* update_incident_results and record_incident_feedback do not bring back  *)
(* a review that delete_incident has removed while they were on the way.   *)
THEOREM DeletionIsFinal == Spec => DeletedStaysDeleted
BY Invariance, StepKeepsDeleted, PTL DEF Spec, DeletedStaysDeleted


-----------------------------------------------------------------------------
(* What a review concludes is a function of what it has read and of the    *)
(* coverage; the row does not say what was read, so the invariant has it   *)
(* as an existential.  A review reads before its coverage counts a scan,   *)
(* and a scan that finishes after the review began does not finish before  *)
(* the onset: Read is the disjunction that survives the steps in between.  *)
(*                                                                         *)
(* The journal of a behaviour: what it started from, and what the one scan *)
(* has added.                                                              *)
Found == {[e EXCEPT !.time = history.now] : e \in history.live}

Journal ==
  /\ history \in Histories /\ clock \in history.now .. history.now + MaxTicks
  /\ scan \in {"none", "collecting", "recorded"}
  /\ events = IF scan = "collecting" THEN history.events ELSE history.events \cup Found
  /\ \/ scans = history.scans
     \/ /\ scan = "none"
        /\ \E f \in Nat : scans = history.scans \cup {[history.report EXCEPT !.finished = f]}

(* With no more events than a review reads, it has read all that a scan it *)
(* counts has found.                                                       *)
WithinReadLimit ==
  \A h \in Histories : Cardinality(h.events) + Cardinality(h.live) <= ReadLimit

Window(r) == {e \in events : LookbackStart(r) <= e.time /\ e.time <= r.end}
Earlier(S, r) == {s \in S : s.id = history.report.id /\ s.finished < r.start}

Read(r, seen, S) ==
  /\ seen \subseteq Window(r)
  /\ WithinReadLimit =>
       /\ Window(r) \cap history.events \subseteq seen
       /\ \/ scan # "collecting" /\ seen = Window(r)
          \/ Earlier(S, r) = {}

Covered(r, coverage) ==
  \E S \in SUBSET ScansBetween(LookbackStart(r), r.start) : coverage = CoverageOf(S, r)

ReviewIsRead(t) ==
  Reviewing(t) =>
    LET r == task[t].request IN
    /\ RequestFits(r) /\ r.start <= clock
    /\ task[t].id \in Rows => row[task[t].id].request = r
    /\ task[t].at # "events" => Read(r, task[t].seen, scans)
    /\ task[t].at = "store" => Covered(r, task[t].coverage)

RowIsEarned(i) ==
  LET r == row[i].request  c == row[i].coverage IN
  /\ RequestFits(r)
  /\ \/ row[i].assessment = "neutral" /\ row[i].results = <<>> /\ c = NoCoverage
     \/ \E seen \in SUBSET events :
          /\ Read(r, seen, c.counted) /\ Covered(r, c)
          /\ row[i].results = Leads(r, seen, c)
          /\ row[i].assessment = Assess(r, row[i].results, seen, c)

Earned ==
  /\ IInv /\ Journal
  /\ \A t \in Thread : ReviewIsRead(t)
  /\ \A i \in Rows : RowIsEarned(i)

(* How the journal may change in a step.                                   *)
JournalGrows ==
  /\ Journal /\ Journal' /\ history' = history
  /\ events \subseteq events' /\ scans \subseteq scans' /\ clock <= clock'
  /\ scan # "collecting" => events' = events /\ scan' # "collecting"
  /\ clock \in Nat /\ clock' \in Nat
  /\ \A s \in scans' \ scans : s.finished \in Nat /\ s.finished >= clock

(* What holds of every journal a behaviour reaches.                        *)
LEMMA JournalFacts ==
  ASSUME Journal
  PROVE  /\ HistoryOK(history) /\ clock \in Nat
         /\ Recorded(events) /\ history.events \subseteq events
         /\ \A e \in events :
              /\ e.kind = "symptom" => e \in history.events /\ e.action \in Actions
              /\ e \in history.events => e.id \notin {l.id : l \in history.live}
         /\ IsFiniteSet(scans) /\ \A s \in scans : ScanOK(s)
         /\ \A s \in scans : s.id = history.report.id => scan = "none"
<1>1. HistoryOK(history) /\ history.now \in Nat /\ clock \in Nat
  BY HistoriesAssumption, LimitsAssumption DEF Journal, HistoryOK
<1> DEFINE live == history.live
           Found1(e) == [e EXCEPT !.time = history.now]
<1>2. /\ IsFiniteSet(live) /\ IsFiniteSet(history.events)
      /\ \A e \in history.events \cup live : EventOK(e)
  BY <1>1 DEF HistoryOK
<1>3. \A e \in live : /\ EventOK(Found1(e)) /\ Found1(e).id = e.id
                      /\ Found1(e).kind = "change"
  <2> TAKE e \in live
  <2>1. EventOK(e) /\ e.kind = "change"
    BY <1>1 DEF HistoryOK
  <2> QED BY <1>1, <2>1 DEF EventOK
<1>4. IsFiniteSet(Found)
  <2>1. [e \in live |-> Found1(e)] \in Surjection(live, Found)
    BY DEF Surjection, Found
  <2> QED BY <1>2, <2>1, FS_Surjection
<1>5. events = history.events \/ events = history.events \cup Found
  BY DEF Journal
<1>6. IsFiniteSet(events) /\ history.events \subseteq events
  BY <1>2, <1>4, <1>5, FS_Union
<1>7. \A e \in events : e \in history.events \/ \E l \in live : e = Found1(l)
  BY <1>5 DEF Found
<1>8. /\ \A d, e \in history.events \cup live : d.id = e.id => d = e
      /\ history.events \cap live = {}
      /\ \A e \in history.events : e.kind = "symptom" => e.action \in Actions
  BY <1>1 DEF HistoryOK, Actions
<1> HIDE DEF Found1, live
<1>9. \A d, e \in events : d.id = e.id => d = e
  <2> SUFFICES ASSUME NEW d \in events, NEW e \in events, d.id = e.id PROVE d = e
    OBVIOUS
  <2>1. CASE d \in history.events /\ e \in history.events
    BY <1>8, <2>1
  <2>2. CASE d \in history.events /\ e \notin history.events
    BY <1>3, <1>7, <1>8, <2>2
  <2>3. CASE d \notin history.events /\ e \in history.events
    BY <1>3, <1>7, <1>8, <2>3
  <2>4. CASE d \notin history.events /\ e \notin history.events
    <3>1. PICK k \in live, l \in live : d = Found1(k) /\ e = Found1(l)
      BY <1>7, <2>4
    <3>2. k = l
      BY <1>3, <1>8, <3>1
    <3> QED BY <3>1, <3>2
  <2> QED BY <2>1, <2>2, <2>3, <2>4
<1>10. \A e \in events : EventOK(e)
  BY <1>2, <1>3, <1>7
<1>11. \A e \in events : e.kind = "symptom" => e \in history.events
  BY <1>3, <1>7
<1>12. \A e \in history.events : e.id \notin {l.id : l \in live}
  BY <1>8
<1>13. /\ IsFiniteSet(history.scans) /\ \A s \in history.scans \cup {history.report} : ScanOK(s)
       /\ \A s \in history.scans : s.id # history.report.id
  BY <1>1 DEF HistoryOK
<1>14. /\ IsFiniteSet(scans) /\ \A s \in scans : ScanOK(s)
       /\ \A s \in scans : s.id = history.report.id => scan = "none"
  <2>1. CASE scans = history.scans
    BY <1>13, <2>1
  <2>2. ASSUME scan = "none", NEW f \in Nat,
               scans = history.scans \cup {[history.report EXCEPT !.finished = f]}
        PROVE  IsFiniteSet(scans) /\ \A s \in scans : ScanOK(s)
    <3>1. ScanOK([history.report EXCEPT !.finished = f])
      BY <1>13 DEF ScanOK
    <3> QED BY <1>13, <2>2, <3>1, FS_AddElement
  <2> QED BY <2>1, <2>2 DEF Journal
<1> QED BY <1>1, <1>6, <1>8, <1>9, <1>10, <1>11, <1>12, <1>14 DEF Recorded, live

(* Within the limit, a review reads every event of its window.             *)
LEMMA WindowIsRead ==
  ASSUME Journal, NEW r, RequestFits(r)
  PROVE  ListEvents(r) \subseteq Window(r) /\ (WithinReadLimit => ListEvents(r) = Window(r))
<1> DEFINE Newer(d, e) == d.time > e.time \/ (d.time = e.time /\ d.id > e.id)
           Ahead1(e) == {d \in Window(r) : Newer(d, e)}
<1>1. ListEvents(r) = {e \in Window(r) : Cardinality(Ahead1(e)) < ReadLimit}
  BY DEF ListEvents, Window
<1>2. ASSUME WithinReadLimit, NEW e \in Window(r) PROVE Cardinality(Ahead1(e)) < ReadLimit
  <2>1. Window(r) \subseteq events /\ e \in events
    BY DEF Window
  <2>2. IsFiniteSet(events) /\ \A d \in events : d.time \in Int /\ d.id \in Int
    BY JournalFacts DEF Recorded, EventOK
  <2>3. Ahead1(e) \in SUBSET (events \ {e})
    BY <2>1, <2>2
  <2>4. IsFiniteSet(events \ {e}) /\ Cardinality(events \ {e}) = Cardinality(events) - 1
    BY <2>1, <2>2, FS_RemoveElement
  <2> HIDE DEF Ahead1
  <2>5. /\ Cardinality(Ahead1(e)) \in Nat /\ Cardinality(events) \in Nat
        /\ Cardinality(Ahead1(e)) <= Cardinality(events) - 1
    BY <2>2, <2>3, <2>4, FS_Subset, FS_CardinalityType
  <2>6. Cardinality(events) <= ReadLimit
    <3>1. /\ IsFiniteSet(history.events) /\ IsFiniteSet(history.live)
          /\ Cardinality(history.events) + Cardinality(history.live) <= ReadLimit
      BY <1>2, JournalFacts DEF WithinReadLimit, Journal, HistoryOK
    <3>2. [x \in history.live |-> [x EXCEPT !.time = history.now]]
            \in Surjection(history.live, Found)
      BY DEF Surjection, Found
    <3>3. IsFiniteSet(Found) /\ Cardinality(Found) <= Cardinality(history.live)
      BY <3>1, <3>2, FS_Surjection
    <3>4. events \in SUBSET (history.events \cup Found)
      BY DEF Journal
    <3>5. /\ Cardinality(history.events) \in Nat /\ Cardinality(history.live) \in Nat
          /\ Cardinality(Found) \in Nat /\ Cardinality(history.events \cap Found) \in Nat
      BY <3>1, <3>3, FS_CardinalityType, FS_Intersection
    <3>6. /\ IsFiniteSet(history.events \cup Found)
          /\ Cardinality(history.events \cup Found) =
               Cardinality(history.events) + Cardinality(Found)
               - Cardinality(history.events \cap Found)
      BY <3>1, <3>3, FS_Union
    <3>7. Cardinality(events) <= Cardinality(history.events \cup Found)
      BY <3>4, <3>6, FS_Subset
    <3> QED BY <2>5, <3>1, <3>3, <3>5, <3>6, <3>7, LimitsAssumption
  <2> QED BY <2>5, <2>6, LimitsAssumption
<1> HIDE DEF Ahead1
<1> QED BY <1>1, <1>2

LEMMA InitEarned == Init => Earned
<1> SUFFICES ASSUME Init PROVE Earned
  OBVIOUS
<1>1. IInv
  BY InitIInv
<1>2. Journal
  <2>1. history \in Histories /\ clock = history.now
    BY DEF Init
  <2>2. clock \in history.now .. history.now + MaxTicks
    BY <2>1, HistoriesAssumption, LimitsAssumption DEF HistoryOK
  <2>3. history.live = {} => Found = {}
    BY DEF Found
  <2> QED BY <2>1, <2>2, <2>3 DEF Init, Journal
<1>3. Rows = {} /\ \A t \in Thread : ~ Reviewing(t)
  BY DEF Init, Rows, Unused, Idle, Reviewing
<1> QED BY <1>1, <1>2, <1>3 DEF Earned, ReviewIsRead

LEMMA JournalStep == ASSUME Journal, [Next]_vars PROVE JournalGrows
<1>1. history.now \in Nat /\ clock \in Nat /\ history.events \subseteq events
  BY JournalFacts DEF HistoryOK
<1>2. ASSUME UNCHANGED <<events, scans, scan, clock, history>> PROVE JournalGrows
  BY <1>1, <1>2 DEF JournalGrows, Journal, Found
<1>3. CASE RecordEvents
  <2>1. Found' = Found /\ events' = history.events \cup Found
    BY <1>3 DEF RecordEvents, Journal, Found
  <2> QED BY <1>1, <1>3, <2>1 DEF RecordEvents, JournalGrows, Journal
<1>4. CASE FinishScan
  <2>1. /\ scans = history.scans
        /\ scans' = scans \cup {[history.report EXCEPT !.finished = clock]}
    BY <1>4 DEF FinishScan, Journal
  <2>2. ScanOK(history.report)
    BY JournalFacts DEF HistoryOK
  <2>3. [history.report EXCEPT !.finished = clock].finished = clock
    BY <2>2 DEF ScanOK
  <2>4. Found' = Found
    BY <1>4 DEF FinishScan, Found
  <2>5. Journal'
    <3>1. \E f \in Nat : scans' = history.scans \cup {[history.report EXCEPT !.finished = f]}
      BY <1>1, <2>1
    <3> QED BY <1>4, <2>4, <3>1 DEF FinishScan, Journal
  <2>6. \A s \in scans' \ scans : s.finished = clock
    BY <2>1, <2>3
  <2> QED BY <1>1, <1>4, <2>1, <2>5, <2>6 DEF FinishScan, JournalGrows
<1>5. CASE Tick
  <2>1. clock' = clock + 1 /\ clock' \in history.now .. history.now + MaxTicks
    BY <1>1, <1>5, LimitsAssumption DEF Tick, Journal
  <2> QED BY <1>1, <1>5, <2>1 DEF Tick, JournalGrows, Journal, Found
<1>6. ASSUME NEW t \in Thread,
             \/ \E i \in Id : CreateIncident(t, i) \/ CheckFeedback(t, i)
             \/ ReadEvents(t) \/ ReadCoverage(t) \/ StoreResults(t) \/ StoreFeedback(t)
      PROVE  JournalGrows
  BY <1>2, <1>6 DEF CreateIncident, CheckFeedback, ReadEvents, ReadCoverage, StoreResults,
                    StoreFeedback
<1>7. ASSUME NEW i \in Id, Draft(i) \/ DeleteIncident(i) PROVE JournalGrows
  BY <1>2, <1>7 DEF Draft, DeleteIncident
<1>8. CASE Die \/ UNCHANGED vars
  BY <1>2, <1>8 DEF Die, vars
<1> QED BY <1>3, <1>4, <1>5, <1>6, <1>7, <1>8 DEF Next

(* What a review has read stays all there is to read about the scans it    *)
(* counts, and about those that finish after the onset.                    *)
LEMMA ReadKept ==
  ASSUME JournalGrows, NEW r, NEW seen, NEW S, Read(r, seen, S)
  PROVE  Read(r, seen, S)'
<1>1. history' = history /\ events \subseteq events'
  BY DEF JournalGrows
<1>2. Window(r) \subseteq Window(r)'
  BY <1>1 DEF Window, LookbackStart
<1>3. Window(r)' \cap history.events \subseteq Window(r)
  BY JournalFacts DEF JournalGrows, Window, LookbackStart
<1>4. scan # "collecting" => scan' # "collecting" /\ Window(r)' = Window(r)
  BY DEF JournalGrows, Window, LookbackStart
<1>5. Earlier(S, r)' = Earlier(S, r)
  BY <1>1 DEF Earlier
<1> QED BY <1>1, <1>2, <1>3, <1>4, <1>5 DEF Read, WithinReadLimit

LEMMA ReadOfScansKept ==
  ASSUME JournalGrows, NEW r, r.start \in Int, r.start <= clock, NEW seen,
         Read(r, seen, scans)
  PROVE  Read(r, seen, scans)'
<1>1. PICK S : S = scans
  OBVIOUS
<1>2. Read(r, seen, S)'
  <2>1. Read(r, seen, S)
    BY <1>1
  <2> QED BY <2>1, ReadKept
<1>3. \A s \in scans' : s.finished < r.start => s \in S
  <2> SUFFICES ASSUME NEW s \in scans', s.finished < r.start, s \notin scans PROVE FALSE
    BY <1>1
  <2>1. s.finished \in Nat /\ s.finished >= clock /\ clock \in Nat
    BY DEF JournalGrows
  <2> QED BY <2>1
<1> QED BY <1>2, <1>3 DEF Read, Earlier

LEMMA CoveredKept ==
  ASSUME JournalGrows, NEW r, NEW c, Covered(r, c) PROVE Covered(r, c)'
<1>1. PICK S \in SUBSET ScansBetween(LookbackStart(r), r.start) : c = CoverageOf(S, r)
  BY DEF Covered
<1>2. S \in SUBSET ScansBetween(LookbackStart(r), r.start)'
  BY DEF JournalGrows, ScansBetween
<1>3. CoverageOf(S, r)' = CoverageOf(S, r)
  BY DEF JournalGrows, CoverageOf, Uninitialized, Impaired, Warns, NoCoverage
<1> QED BY <1>1, <1>2, <1>3 DEF Covered

(* A review that is left alone.                                            *)
LEMMA ReviewKept ==
  ASSUME Earned, JournalGrows, NEW t \in Thread, task'[t] = task[t],
         Reviewing(t) /\ task[t].id \in Rows' =>
           task[t].id \in Rows /\ row'[task[t].id].request = row[task[t].id].request
  PROVE  ReviewIsRead(t)'
<1> SUFFICES ASSUME Reviewing(t) PROVE ReviewIsRead(t)'
  BY DEF ReviewIsRead, Reviewing
<1>1. PICK r, seen, c : r = task[t].request /\ seen = task[t].seen /\ c = task[t].coverage
  OBVIOUS
<1>2. ReviewIsRead(t)
  BY DEF Earned
<1>3. RequestFits(r) /\ r.start \in Int /\ r.start <= clock
  BY <1>1, <1>2 DEF ReviewIsRead, RequestFits, AskedOK
<1>4. r.start <= clock'
  BY <1>3 DEF JournalGrows
<1>5. task[t].at # "events" => Read(r, seen, scans)'
  BY <1>1, <1>2, <1>3, ReadOfScansKept DEF ReviewIsRead
<1>6. task[t].at = "store" => Covered(r, c)'
  BY <1>1, <1>2, CoveredKept DEF ReviewIsRead
<1>7. task'[t].id \in Rows' => row'[task'[t].id].request = r
  BY <1>1, <1>2 DEF ReviewIsRead
<1>8. task'[t].request = r /\ task'[t].seen = seen /\ task'[t].coverage = c
  BY <1>1
<1>9. RequestFits(r)'
  BY <1>3 DEF RequestFits, RequestOK, AskedOK
<1>10. task'[t].at # "events" => Read(task[t].request, task[t].seen, scans)'
  BY <1>5, <1>8 DEF Read, Window, Earlier
<1>11. task'[t].at = "store" => Covered(task[t].request, task[t].coverage)'
  BY <1>6, <1>8 DEF Covered
<1>12. task'[t].request.start <= clock'
  BY <1>4, <1>8
<1>13. RequestFits(task[t].request)'
  BY <1>8, <1>9 DEF RequestFits, RequestOK, AskedOK
<1>14. task'[t].id \in Rows' => row'[task'[t].id].request = task'[t].request
  BY <1>7, <1>8
<1> QED BY <1>10, <1>11, <1>12, <1>13, <1>14 DEF ReviewIsRead

(* A row whose review is left alone.                                       *)
LEMMA RowKept ==
  ASSUME Earned, JournalGrows, NEW i \in Rows,
         row'[i].request = row[i].request, row'[i].results = row[i].results,
         row'[i].assessment = row[i].assessment, row'[i].coverage = row[i].coverage
  PROVE  RowIsEarned(i)'
<1>1. PICK r, c, results, assessment :
        /\ r = row[i].request /\ c = row[i].coverage
        /\ results = row[i].results /\ assessment = row[i].assessment
  OBVIOUS
<1>2. RowIsEarned(i)
  BY DEF Earned
<1>3. /\ r = row'[i].request /\ c = row'[i].coverage
      /\ results = row'[i].results /\ assessment = row'[i].assessment
  BY <1>1
<1>4. RequestFits(row[i].request)'
  BY <1>1, <1>2, <1>3 DEF RowIsEarned, RequestFits, RequestOK, AskedOK
<1>5. CASE assessment = "neutral" /\ results = <<>> /\ c = NoCoverage
  BY <1>3, <1>4, <1>5 DEF RowIsEarned, NoCoverage
<1>6. ASSUME NEW seen \in SUBSET events, Read(r, seen, c.counted), Covered(r, c),
             results = Leads(r, seen, c), assessment = Assess(r, results, seen, c)
      PROVE  RowIsEarned(i)'
  <2>1. seen \in SUBSET events'
    BY DEF JournalGrows
  <2>2. Covered(r, c)'
    BY <1>6, CoveredKept
  <2>3. Read(r, seen, c.counted)'
    BY <1>6, ReadKept
  <2>4. Covered(row[i].request, row[i].coverage)'
    BY <1>3, <2>2 DEF Covered
  <2>5. Read(row[i].request, seen, row[i].coverage.counted)'
    BY <1>3, <2>3 DEF Read, Window, Earlier
  <2> QED BY <1>3, <1>4, <1>6, <2>1, <2>4, <2>5 DEF RowIsEarned
<1> QED BY <1>1, <1>2, <1>5, <1>6 DEF RowIsEarned

-----------------------------------------------------------------------------
LEMMA NextEarned == ASSUME Earned, [Next]_vars PROVE Earned'
<1>1. IInv' /\ Tables /\ JournalGrows
  BY NextIInv, JournalStep DEF Earned, IInv
<1> DOMAIN row = Id /\ DOMAIN task = Thread
  BY <1>1 DEF Tables
<1>2. Journal'
  BY <1>1 DEF JournalGrows
<1>3. ASSUME UNCHANGED row, NEW t \in Thread, task'[t] = task[t] PROVE ReviewIsRead(t)'
  BY <1>1, <1>3, ReviewKept DEF Rows
<1>4. ASSUME UNCHANGED row, NEW i \in Rows' PROVE RowIsEarned(i)'
  BY <1>1, <1>4, RowKept DEF Rows
<1>5. ASSUME UNCHANGED <<row, task>> PROVE Earned'
  BY <1>1, <1>2, <1>3, <1>4, <1>5 DEF Earned
<1>6. ASSUME NEW t \in Thread, NEW i \in Id, CreateIncident(t, i) PROVE Earned'
  <2>1. PICK asked \in history.requests :
          LET r == [asked EXCEPT !.end = clock] IN
          /\ NotInFuture(r) /\ row' = [row EXCEPT ![i] = Created(r, "investigating")]
          /\ task' = [task EXCEPT ![t] = [at |-> "events", id |-> i, request |-> r]]
    BY <1>6 DEF CreateIncident
  <2>2. PICK r : r = [asked EXCEPT !.end = clock]
    OBVIOUS
  <2>3. RequestFits(r) /\ r.start <= clock
    <3>1. AskedOK(asked) /\ clock \in Nat
      BY JournalFacts DEF Earned, HistoryOK
    <3> QED BY <2>1, <2>2, <3>1 DEF NotInFuture, RequestFits, RequestOK, AskedOK
  <2>4. /\ row' = [row EXCEPT ![i] = Created(r, "investigating")]
        /\ task' = [task EXCEPT ![t] = [at |-> "events", id |-> i, request |-> r]]
    BY <2>1, <2>2
  <2>5. row[i].status = "unused" /\ i \notin Rows
    BY <1>6 DEF CreateIncident, Unused, Rows
  <2>6. /\ row'[i].request = r /\ row'[i].assessment = "neutral" /\ row'[i].results = <<>>
        /\ row'[i].coverage = NoCoverage /\ row'[i].status = "investigating"
    BY <2>4 DEF Created
  <2>7. \A j \in Id \ {i} : row'[j] = row[j]
    BY <2>4
  <2>8. RowIsEarned(i)'
    BY <2>3, <2>6 DEF RowIsEarned, RequestFits, RequestOK, AskedOK, NoCoverage
  <2>9. ASSUME NEW j \in Rows' PROVE RowIsEarned(j)'
    <3>1. CASE j = i
      BY <2>8, <3>1
    <3>2. CASE j # i
      BY <1>1, <2>7, <2>9, <3>2, RowKept DEF Rows
    <3> QED BY <3>1, <3>2
  <2>10. ASSUME NEW u \in Thread PROVE ReviewIsRead(u)'
    <3>1. CASE u = t
      <4>1. /\ task'[u].at = "events" /\ task'[u].id = i /\ task'[u].request = r
        BY <2>4, <3>1
      <4> QED BY <1>6, <2>3, <2>6, <4>1 DEF ReviewIsRead, CreateIncident, RequestFits,
                                             RequestOK, AskedOK
    <3>2. CASE u # t
      <4>1. task'[u] = task[u]
        BY <2>4, <3>2
      <4>2. Reviewing(u) => task[u].id \in Id /\ task[u].id # i
        BY <2>5 DEF Earned, IInv, ReviewsAreFresh
      <4> QED BY <1>1, <2>7, <4>1, <4>2, ReviewKept DEF Rows
    <3> QED BY <3>1, <3>2
  <2> QED BY <1>1, <1>2, <2>9, <2>10 DEF Earned
<1>7. ASSUME NEW t \in Thread, ReadEvents(t) PROVE Earned'
  <2>1. PICK r, seen : r = task[t].request /\ seen = ListEvents(r)
    OBVIOUS
  <2>2. /\ Reviewing(t) /\ UNCHANGED <<events, scans, row, scan, clock, history>>
        /\ task' = [task EXCEPT ![t] = [at |-> "coverage", id |-> task[t].id, request |-> r,
                                         seen |-> seen]]
    BY <1>7, <2>1 DEF ReadEvents, Reviewing
  <2>3. ReviewIsRead(t)
    BY DEF Earned
  <2>4. RequestFits(r)
    BY <2>1, <2>2, <2>3 DEF ReviewIsRead
  <2>5. Read(r, seen, scans)
    <3>1. seen \subseteq Window(r) /\ (WithinReadLimit => seen = Window(r))
      BY <2>1, <2>4, WindowIsRead DEF Earned
    <3>2. scan = "collecting" => Earlier(scans, r) = {}
      BY JournalFacts DEF Earned, Earlier
    <3> QED BY <3>1, <3>2 DEF Read
  <2>6. Read(r, seen, scans)'
    BY <2>2, <2>5 DEF Read, WithinReadLimit, Window, Earlier, LookbackStart
  <2>7. /\ task'[t].at = "coverage" /\ task'[t].id = task[t].id
        /\ task'[t].request = r /\ task'[t].seen = seen
    BY <2>2
  <2>8. ReviewIsRead(t)'
    <3>1. Read(task[t].request, task[t].seen, scans)'
      BY <2>6, <2>7 DEF Read, Window, Earlier
    <3>2. RequestFits(task[t].request)'
      BY <2>4, <2>7 DEF RequestFits, RequestOK, AskedOK
    <3> QED BY <2>1, <2>2, <2>3, <2>7, <3>1, <3>2 DEF ReviewIsRead, Rows
  <2>9. ASSUME NEW u \in Thread PROVE ReviewIsRead(u)'
    BY <1>3, <2>2, <2>8
  <2> QED BY <1>1, <1>2, <1>4, <2>2, <2>9 DEF Earned
<1>8. ASSUME NEW t \in Thread, ReadCoverage(t) PROVE Earned'
  <2>1. PICK r, seen, c : /\ r = task[t].request /\ seen = task[t].seen
                          /\ c = InvestigationCoverage(r)
    OBVIOUS
  <2>2. /\ Reviewing(t) /\ UNCHANGED <<events, scans, row, scan, clock, history>>
        /\ task[t].at = "coverage"
        /\ task' = [task EXCEPT ![t] = [at |-> "store", id |-> task[t].id, request |-> r,
                                         seen |-> seen, coverage |-> c]]
    BY <1>8, <2>1 DEF ReadCoverage, Reviewing
  <2>3. ReviewIsRead(t)
    BY DEF Earned
  <2>4. RequestFits(r) /\ Read(r, seen, scans)
    BY <2>1, <2>2, <2>3 DEF ReviewIsRead
  <2>5. Covered(r, c)
    BY <2>1 DEF Covered, InvestigationCoverage
  <2>6. Read(r, seen, scans)' /\ Covered(r, c)'
    <3>1. Covered(r, c)'
      BY <1>1, <2>5, CoveredKept
    <3> QED BY <2>2, <2>4, <3>1 DEF Read, WithinReadLimit, Window, Earlier, LookbackStart
  <2>7. /\ task'[t].at = "store" /\ task'[t].id = task[t].id /\ task'[t].request = r
        /\ task'[t].seen = seen /\ task'[t].coverage = c
    BY <2>2
  <2>8. ReviewIsRead(t)'
    <3>1. Read(task[t].request, task[t].seen, scans)'
      BY <2>6, <2>7 DEF Read, Window, Earlier
    <3>2. RequestFits(task[t].request)'
      BY <2>4, <2>7 DEF RequestFits, RequestOK, AskedOK
    <3>3. Covered(task[t].request, task[t].coverage)'
      BY <2>6, <2>7 DEF Covered
    <3> QED BY <2>1, <2>2, <2>3, <2>7, <3>1, <3>2, <3>3 DEF ReviewIsRead, Rows
  <2>9. ASSUME NEW u \in Thread PROVE ReviewIsRead(u)'
    BY <1>3, <2>2, <2>8
  <2> QED BY <1>1, <1>2, <1>4, <2>2, <2>9 DEF Earned
<1>9. ASSUME NEW t \in Thread, StoreResults(t) PROVE Earned'
  <2>1. PICK i, r, seen, c : /\ i = task[t].id /\ r = task[t].request
                             /\ seen = task[t].seen /\ c = task[t].coverage
    OBVIOUS
  <2>2. /\ Reviewing(t) /\ task[t].at = "store"
        /\ task' = [task EXCEPT ![t] = Idle]
        /\ UNCHANGED <<events, scans, scan, clock, history>>
        /\ row' = IF i \in Rows THEN [row EXCEPT ![i] = Assessed(row[i], seen, c)] ELSE row
    BY <1>9, <2>1 DEF StoreResults, Reviewing
  <2>3. ASSUME NEW u \in Thread, task'[u] # task[u] PROVE ReviewIsRead(u)'
    <3>1. task'[u] = Idle
      BY <2>2, <2>3
    <3> QED BY <3>1 DEF ReviewIsRead, Reviewing, Idle
  <2>4. CASE i \notin Rows
    BY <1>1, <1>2, <1>3, <1>4, <2>2, <2>3, <2>4 DEF Earned
  <2>5. CASE i \in Rows
    <3>1. ReviewIsRead(t) /\ i \in Id /\ DOMAIN row[i] = Columns
      BY <1>1, <2>5 DEF Earned, Rows, Tables
    <3>2. RequestFits(r) /\ row[i].request = r /\ Read(r, seen, scans) /\ Covered(r, c)
      BY <2>1, <2>2, <2>5, <3>1 DEF ReviewIsRead
    <3>3. /\ row'[i].request = r /\ row'[i].results = Leads(r, seen, c) /\ row'[i].coverage = c
          /\ row'[i].assessment = Assess(r, Leads(r, seen, c), seen, c)
          /\ row'[i].status = row[i].status
      <4>1. row'[i] = Assessed(row[i], seen, c)
        BY <2>2, <2>5, <3>1
      <4> QED BY <3>1, <3>2, <4>1 DEF Assessed, Columns
    <3>4. /\ \A j \in Id \ {i} : row'[j] = row[j]
          /\ Rows' = Rows
      BY <2>2, <2>5, <3>3 DEF Rows
    <3>5. c.counted \subseteq scans
      BY <3>2 DEF Covered, CoverageOf, NoCoverage, ScansBetween
    <3>6. Read(r, seen, c.counted)' /\ Covered(r, c)'
      <4>1. Read(r, seen, c.counted)
        BY <3>2, <3>5 DEF Read, Earlier
      <4> QED BY <1>1, <3>2, <4>1, ReadKept, CoveredKept
    <3>7. RowIsEarned(i)'
      <4>1. Read(row[i].request, seen, row[i].coverage.counted)'
        BY <3>3, <3>6 DEF Read, Window, Earlier
      <4>2. Covered(row[i].request, row[i].coverage)'
        BY <3>3, <3>6 DEF Covered
      <4>3. RequestFits(row[i].request)'
        BY <3>2, <3>3 DEF RequestFits, RequestOK, AskedOK
      <4>4. seen \in SUBSET events'
        BY <2>2, <3>2 DEF Read, Window
      <4> QED BY <3>3, <4>1, <4>2, <4>3, <4>4 DEF RowIsEarned
    <3>8. ASSUME NEW j \in Rows' PROVE RowIsEarned(j)'
      BY <1>1, <3>4, <3>7, <3>8, RowKept DEF Rows
    <3>9. ASSUME NEW u \in Thread PROVE ReviewIsRead(u)'
      <4>1. CASE task'[u] = task[u]
        BY <1>1, <3>2, <3>3, <3>4, <4>1, ReviewKept DEF Rows
      <4> QED BY <2>3, <4>1
    <3> QED BY <1>1, <1>2, <3>8, <3>9 DEF Earned
  <2> QED BY <2>4, <2>5
<1>10. ASSUME NEW i \in Id, Draft(i) PROVE Earned'
  <2>1. PICK s, name : s \in Symptoms(events) /\
          row' = [row EXCEPT ![i] = Assessed(Created(DraftRequest(s, name), "draft"),
                                             ListEvents(DraftRequest(s, name)),
                                             InvestigationCoverage(DraftRequest(s, name)))]
    BY <1>10 DEF Draft
  <2>2. PICK r, seen, c : /\ r = DraftRequest(s, name) /\ seen = ListEvents(r)
                          /\ c = InvestigationCoverage(r)
    OBVIOUS
  <2>3. /\ row[i].status = "unused" /\ i \notin Rows
        /\ UNCHANGED <<events, scans, scan, clock, task, history>>
    BY <1>10 DEF Draft, Unused, Rows
  <2>4. RequestFits(r)
    <3>1. s.time \in Nat /\ s.subsystem \in Subsystem
      BY <2>1, JournalFacts DEF Earned, Recorded, EventOK, Symptoms
    <3> QED BY <2>2, <3>1, LimitsAssumption DEF DraftRequest, RequestFits, RequestOK, AskedOK
  <2>5. /\ row'[i].request = r /\ row'[i].results = Leads(r, seen, c) /\ row'[i].coverage = c
        /\ row'[i].assessment = Assess(r, Leads(r, seen, c), seen, c)
        /\ row'[i].status = "draft"
    BY <2>1, <2>2 DEF Assessed, Created
  <2>6. \A j \in Id \ {i} : row'[j] = row[j]
    BY <2>1
  <2>7. Covered(r, c)
    BY <2>2 DEF Covered, InvestigationCoverage
  <2>8. c.counted \subseteq scans
    BY <2>7 DEF Covered, CoverageOf, NoCoverage, ScansBetween
  <2>9. Read(r, seen, c.counted)
    <3>1. seen \subseteq Window(r) /\ (WithinReadLimit => seen = Window(r))
      BY <2>2, <2>4, WindowIsRead DEF Earned
    <3>2. scan = "collecting" => Earlier(c.counted, r) = {}
      BY <2>8, JournalFacts DEF Earned, Earlier
    <3> QED BY <3>1, <3>2 DEF Read
  <2>10. Read(r, seen, c.counted)' /\ Covered(r, c)'
    BY <1>1, <2>7, <2>9, ReadKept, CoveredKept
  <2>11. RowIsEarned(i)'
    <3>1. Read(row[i].request, seen, row[i].coverage.counted)'
      BY <2>5, <2>10 DEF Read, Window, Earlier
    <3>2. Covered(row[i].request, row[i].coverage)'
      BY <2>5, <2>10 DEF Covered
    <3>3. RequestFits(row[i].request)'
      BY <2>4, <2>5 DEF RequestFits, RequestOK, AskedOK
    <3>4. seen \in SUBSET events'
      BY <2>3, <2>9 DEF Read, Window
    <3> QED BY <2>5, <3>1, <3>2, <3>3, <3>4 DEF RowIsEarned
  <2>12. ASSUME NEW j \in Rows' PROVE RowIsEarned(j)'
    <3>1. CASE j = i
      BY <2>11, <3>1
    <3>2. CASE j # i
      BY <1>1, <2>6, <2>12, <3>2, RowKept DEF Rows
    <3> QED BY <3>1, <3>2
  <2>13. ASSUME NEW u \in Thread PROVE ReviewIsRead(u)'
    <3>1. Reviewing(u) => task[u].id \in Id /\ task[u].id # i
      BY <2>3 DEF Earned, IInv, ReviewsAreFresh
    <3> QED BY <1>1, <2>3, <2>6, <3>1, ReviewKept DEF Rows
  <2> QED BY <1>1, <1>2, <2>12, <2>13 DEF Earned
<1>11. ASSUME NEW t \in Thread, NEW i \in Id, CheckFeedback(t, i) PROVE Earned'
  <2>1. PICK feedback :
          task' = [task EXCEPT ![t] = [at |-> "feedback", id |-> i, feedback |-> feedback]]
    BY <1>11 DEF CheckFeedback
  <2>2. ASSUME NEW u \in Thread PROVE ReviewIsRead(u)'
    <3>1. CASE u = t
      BY <2>1, <3>1 DEF ReviewIsRead, Reviewing
    <3>2. CASE u # t
      BY <1>3, <1>11, <2>1, <3>2 DEF CheckFeedback
    <3> QED BY <3>1, <3>2
  <2> QED BY <1>1, <1>2, <1>4, <1>11, <2>2 DEF Earned, CheckFeedback
<1>12. ASSUME NEW t \in Thread, StoreFeedback(t) PROVE Earned'
  <2>1. PICK i : i = task[t].id
    OBVIOUS
  <2>2. ASSUME NEW j \in Rows'
        PROVE  /\ j \in Rows /\ row'[j].request = row[j].request
               /\ row'[j].results = row[j].results /\ row'[j].coverage = row[j].coverage
               /\ row'[j].assessment = row[j].assessment
    <3>1. CASE i \in Rows /\ j = i
      <4>1. DOMAIN row[i] = Columns /\ i \in Id
        BY <1>1, <3>1 DEF Tables, Rows
      <4>2. row'[i] = [row[i] EXCEPT !.feedback = task[t].feedback]
        BY <1>12, <2>1, <3>1, <4>1 DEF StoreFeedback
      <4> QED BY <3>1, <4>1, <4>2 DEF Columns
    <3>2. CASE i \notin Rows \/ j # i
      <4>1. row'[j] = row[j] /\ j \in Id
        BY <1>12, <2>1, <2>2, <3>2 DEF StoreFeedback, Rows
      <4> QED BY <2>2, <4>1 DEF Rows
    <3> QED BY <3>1, <3>2
  <2>3. ASSUME NEW u \in Thread PROVE ReviewIsRead(u)'
    <3>1. CASE u = t
      BY <1>12, <3>1 DEF ReviewIsRead, Reviewing, StoreFeedback, Idle
    <3>2. CASE u # t
      <4>1. task'[u] = task[u]
        BY <1>12, <3>2 DEF StoreFeedback
      <4> QED BY <1>1, <2>2, <4>1, ReviewKept
    <3> QED BY <3>1, <3>2
  <2>4. ASSUME NEW j \in Rows' PROVE RowIsEarned(j)'
    BY <1>1, <2>2, <2>4, RowKept
  <2> QED BY <1>1, <1>2, <2>3, <2>4 DEF Earned
<1>13. ASSUME NEW i \in Id, DeleteIncident(i) PROVE Earned'
  <2>1. \A j \in Rows' : j \in Rows /\ row'[j] = row[j]
    BY <1>13 DEF DeleteIncident, Deleted, Rows
  <2>2. ASSUME NEW u \in Thread PROVE ReviewIsRead(u)'
    BY <1>1, <1>13, <2>1, ReviewKept DEF DeleteIncident
  <2>3. ASSUME NEW j \in Rows' PROVE RowIsEarned(j)'
    BY <1>1, <2>1, <2>3, RowKept
  <2> QED BY <1>1, <1>2, <2>2, <2>3 DEF Earned
<1>14. CASE Die
  <2>1. ASSUME NEW u \in Thread PROVE ReviewIsRead(u)'
    BY <1>14 DEF Die, Idle, ReviewIsRead, Reviewing
  <2> QED BY <1>1, <1>2, <1>4, <1>14, <2>1 DEF Earned, Die
<1>15. CASE RecordEvents \/ FinishScan \/ Tick \/ UNCHANGED vars
  BY <1>5, <1>15 DEF RecordEvents, FinishScan, Tick, vars
<1> QED BY <1>6, <1>7, <1>8, <1>9, <1>10, <1>11, <1>12, <1>13, <1>14, <1>15 DEF Next

LEMMA EarnedAlways == Spec => []Earned
<1>1. Earned /\ [Next]_vars => Earned'
  BY NextEarned
<1> QED BY InitEarned, <1>1, PTL DEF Spec

(* The scans a coverage counts, and what is known about them.              *)
LEMMA CountedScans ==
  ASSUME Journal, NEW r, NEW c, Covered(r, c), c.counted # {} \/ c.known
  PROVE  /\ c = CoverageOf(c.counted, r) /\ c.known
         /\ IsFiniteSet(c.counted) /\ c.counted \subseteq scans
         /\ \A s \in c.counted : /\ ScanOK(s)
                                 /\ LookbackStart(r) <= s.finished /\ s.finished <= r.start
<1>1. PICK S \in SUBSET ScansBetween(LookbackStart(r), r.start) : c = CoverageOf(S, r)
  BY DEF Covered
<1>2. S # {} /\ c.counted = S /\ c.known
  BY <1>1 DEF CoverageOf, NoCoverage
<1>3. S \in SUBSET scans
  BY <1>1 DEF ScansBetween
<1>4. IsFiniteSet(S) /\ \A s \in S : ScanOK(s)
  BY <1>3, JournalFacts, FS_Subset
<1> QED BY <1>1, <1>2, <1>3, <1>4 DEF ScansBetween

(* The events a review has read.                                           *)
LEMMA SeenEvents ==
  ASSUME Journal, NEW r, NEW seen, NEW S, Read(r, seen, S)
  PROVE  seen \in SUBSET events /\ Recorded(seen)
<1>1. seen \in SUBSET events /\ Recorded(events)
  BY JournalFacts DEF Read, Window
<1> QED BY <1>1, FS_Subset DEF Recorded

(* investigation_coverage: coverage that is not limited rests on scans of  *)
(* the change window alone, every source that matters was collected by one *)
(* of them and failed in none, and the last is not too old.                *)
THEOREM CoverageIsWatched == Spec => []UnlimitedIsWatched
<1>1. Earned => UnlimitedIsWatched
  <2> SUFFICES ASSUME Earned, NEW i \in Rows, row[i].coverage.known,
                      ~ row[i].coverage.limited,
                      \A s \in row[i].coverage.counted : s.collected # Legacy
               PROVE  LET r == row[i].request  c == row[i].coverage IN
                      /\ Expected(r.subsystem) \subseteq UNION {s.collected : s \in c.counted}
                      /\ \A s \in c.counted :
                           /\ r.start - r.lookback <= s.finished /\ s.finished <= r.start
                           /\ s.status \in {"ok", "partial"}
                           /\ s.failed \cap Expected(r.subsystem) = {}
                      /\ \E s \in c.counted : s.finished >= r.start - MaxGap
    BY DEF UnlimitedIsWatched
  <2>1. PICK r, c : r = row[i].request /\ c = row[i].coverage
    OBVIOUS
  <2>2. Journal /\ RequestFits(r) /\ Covered(r, c)
    BY <2>1 DEF Earned, RowIsEarned, NoCoverage
  <2>3. /\ c = CoverageOf(c.counted, r) /\ IsFiniteSet(c.counted)
        /\ \A s \in c.counted : /\ ScanOK(s) /\ s.collected # Legacy
                                /\ LookbackStart(r) <= s.finished /\ s.finished <= r.start
    BY <2>1, <2>2, CountedScans
  <2>4. /\ Expected(r.subsystem) \subseteq UNION {s.collected : s \in c.counted}
        /\ \A s \in c.counted : /\ s.status \in {"ok", "partial"}
                                /\ s.failed \cap Expected(r.subsystem) = {}
        /\ \E s \in c.counted : s.finished >= r.start - MaxGap
    <3>1. PICK S : S = c.counted
      OBVIOUS
    <3>2. /\ c = CoverageOf(S, r) /\ IsFiniteSet(S) /\ c.known /\ ~ c.limited
          /\ \A s \in S : ScanOK(s) /\ s.collected # Legacy
      BY <2>1, <2>3, <3>1
    <3>3. /\ Expected(r.subsystem) \subseteq UNION {s.collected : s \in S}
          /\ \A s \in S : /\ s.status \in {"ok", "partial"}
                          /\ s.failed \cap Expected(r.subsystem) = {}
          /\ \E s \in S : s.finished >= r.start - MaxGap
      BY <2>2, <3>2, UnlimitedCoverage
    <3> QED BY <3>1, <3>3
  <2> QED BY <2>1, <2>3, <2>4 DEF LookbackStart
<1> QED BY EarnedAlways, <1>1, PTL

(* run_investigation reads the events before the coverage: whatever a scan *)
(* it counts has found, if that finished before the onset, is among the    *)
(* leads, unless there are more leads than a review keeps (and no more     *)
(* events than it reads).                                                  *)
THEOREM CountedScansAreRead == WithinReadLimit => (Spec => []CoverageIsRead)
<1>1. Earned /\ WithinReadLimit => CoverageIsRead
  <2> SUFFICES ASSUME Earned, WithinReadLimit, NEW i \in Rows,
                      NEW s \in row[i].coverage.counted, s.id = history.report.id,
                      s.finished < row[i].request.start,
                      NEW e \in Changes(events, row[i].request),
                      Len(row[i].results) # Limit
               PROVE  e.id \in Ranked(i)
    BY DEF CoverageIsRead
  <2>1. PICK r, c, results : /\ r = row[i].request /\ c = row[i].coverage
                             /\ results = row[i].results
    OBVIOUS
  <2>2. PICK seen \in SUBSET events :
          Read(r, seen, c.counted) /\ Covered(r, c) /\ results = Leads(r, seen, c)
    BY <2>1 DEF Earned, RowIsEarned, NoCoverage
  <2>3. Journal /\ RequestFits(r) /\ c.known
    BY <2>1, <2>2, CountedScans DEF Earned, RowIsEarned
  <2>4. seen = Window(r)
    BY <2>1, <2>2 DEF Read, Earlier
  <2>5. e \in Changes(seen, r)
    <3>1. /\ e \in events /\ LookbackStart(r) <= e.time /\ e.time <= r.start
          /\ e \in Changes(events, r)
      BY <2>1 DEF Changes, InLookback
    <3>2. e.time \in Int /\ r.start \in Int /\ r.end \in Int /\ r.start <= r.end
      BY <2>3, <3>1, JournalFacts DEF Recorded, EventOK, RequestFits, RequestOK, AskedOK
    <3>3. e \in Window(r)
      BY <3>1, <3>2 DEF Window
    <3> QED BY <2>4, <3>1, <3>3 DEF Changes, InLookback
  <2>6. Recorded(seen)
    BY <2>2, <2>3, SeenEvents
  <2>7. \E k \in DOMAIN results : results[k].event = e
    BY <2>1, <2>2, <2>3, <2>5, <2>6, LeadsListChanges
  <2> QED BY <2>1, <2>7 DEF Ranked
<1>2. ASSUME WithinReadLimit PROVE Spec => []CoverageIsRead
  <2>1. Earned => CoverageIsRead
    BY <1>1, <1>2
  <2> QED BY EarnedAlways, <2>1, PTL
<1> QED BY <1>2

(* rank_candidates and assess_investigation call a change a candidate only *)
(* when a symptom of its own follows it near the onset, none preceded it,  *)
(* no other lead scores about the same and the coverage is not limited.    *)
THEOREM CandidatesAreEarned == WithinReadLimit => (Spec => []CandidateIsEarned)
<1>1. Earned /\ WithinReadLimit => CandidateIsEarned
  <2> SUFFICES ASSUME Earned, WithinReadLimit, NEW i \in Rows,
                      row[i].assessment = "candidate_found"
               PROVE  LET r == row[i].request  lead == row[i].results[1] IN
                      /\ \E s \in events : Witness(r, lead.event, s)
                      /\ ~ \E s \in events : Before(r, lead.event, s)
                      /\ \A k \in 2 .. Len(row[i].results) :
                           LET gap == lead.score - row[i].results[k].score IN
                           gap > 2500 \/ gap < -2500
                      /\ row[i].coverage.counted # {} /\ ~ row[i].coverage.limited
    BY DEF CandidateIsEarned
  <2>1. PICK r, c, results : /\ r = row[i].request /\ c = row[i].coverage
                             /\ results = row[i].results
    OBVIOUS
  <2>2. PICK seen \in SUBSET events :
          /\ Read(r, seen, c.counted) /\ Covered(r, c) /\ results = Leads(r, seen, c)
          /\ Assess(r, results, seen, c) = "candidate_found"
    BY <2>1 DEF Earned, RowIsEarned
  <2>3. Journal /\ RequestFits(r) /\ Recorded(seen)
    BY <2>1, <2>2, SeenEvents DEF Earned, RowIsEarned
  <2>4. PICK e : e = results[1].event
    OBVIOUS
  <2>5. Conclusive(seen, r, e, results, c)
    BY <2>2, <2>3, <2>4, LeadOfCandidate
  <2>6. /\ e \in Changes(seen, r) /\ StrongSupport(seen, r, e) # {} /\ Prior(seen, r, e) = {}
        /\ r.subsystem # "general" /\ ~ c.limited /\ c.known
    BY <2>5 DEF Conclusive
  <2>7. \E s \in events : Witness(r, e, s)
    <3>1. PICK s \in StrongSupport(seen, r, e) : TRUE
      BY <2>6
    <3>2. s \in events /\ s.kind = "symptom"
      BY <2>2, <3>1 DEF StrongSupport, Near, Symptoms
    <3>3. s.action \in Actions
      BY <2>3, <3>2, JournalFacts
    <3> QED BY <2>3, <2>6, <3>2, <3>3, StrongIsWitness
  <2>8. ASSUME NEW s \in events, Before(r, e, s) PROVE FALSE
    <3>1. s \in history.events /\ EventOK(s) /\ EventOK(e)
      BY <2>2, <2>3, <2>6, <2>8, JournalFacts DEF Before, Recorded, Changes, InLookback
    <3>2. /\ LookbackStart(r) <= s.time /\ s.time < e.time /\ e.time <= r.start
          /\ r.start <= r.end
      BY <2>3, <2>6, <2>8 DEF Before, LookbackStart, Changes, InLookback, RequestFits, RequestOK
    <3>3. s.time <= r.end
      BY <2>3, <3>1, <3>2 DEF EventOK, RequestFits, AskedOK
    <3>4. s \in seen
      BY <2>2, <3>1, <3>2, <3>3 DEF Read, Window
    <3> QED BY <2>3, <2>6, <2>8, <3>4, NothingBefore
  <2>9. c.counted # {}
    BY <2>2, <2>6 DEF Covered, CoverageOf, NoCoverage
  <2> QED BY <2>1, <2>4, <2>5, <2>6, <2>7, <2>8, <2>9 DEF Conclusive
<1>2. ASSUME WithinReadLimit PROVE Spec => []CandidateIsEarned
  <2>1. Earned => CandidateIsEarned
    BY <1>1, <1>2
  <2> QED BY EarnedAlways, <2>1, PTL
<1> QED BY <1>2

-----------------------------------------------------------------------------
(* Types: what is left to say of the rows and the requests.                *)
Outcomes == {"correct", "incorrect", "unknown"}

RowShape(i) ==
  /\ row[i].status \in {"investigating", "draft"}
  /\ row[i].feedback.outcome \in {"none"} \cup Outcomes
TaskShape(t) ==
  /\ task[t].at \in {"idle", "events", "coverage", "store", "feedback"}
  /\ task[t].at = "feedback" => task[t].feedback.outcome \in Outcomes

Shapes == (\A i \in Rows : RowShape(i)) /\ (\A t \in Thread : TaskShape(t))

LEMMA InitShapes == Init => Shapes
BY DEF Init, Shapes, Rows, Unused, Idle, TaskShape

LEMMA NextShapes == Tables /\ Shapes /\ [Next]_vars => Shapes'
<1> SUFFICES ASSUME Tables, Shapes, [Next]_vars PROVE Shapes'
  OBVIOUS
<1> DOMAIN row = Id /\ DOMAIN task = Thread
  BY DEF Tables
<1>1. ASSUME UNCHANGED row, \A t \in Thread : task'[t] = task[t] \/ TaskShape(t)'
      PROVE  Shapes'
  BY <1>1 DEF Shapes, Rows, RowShape, TaskShape
<1>2. ASSUME NEW t \in Thread, NEW i \in Id, CreateIncident(t, i) PROVE Shapes'
  <2>1. PICK r : /\ row' = [row EXCEPT ![i] = Created(r, "investigating")]
                 /\ task' = [task EXCEPT ![t] = [at |-> "events", id |-> i, request |-> r]]
    BY <1>2 DEF CreateIncident
  <2>2. RowShape(i)' /\ \A j \in Id \ {i} : row'[j] = row[j]
    BY <2>1 DEF RowShape, Created, NoFeedback
  <2>3. TaskShape(t)' /\ \A u \in Thread \ {t} : task'[u] = task[u]
    BY <2>1 DEF TaskShape
  <2> QED BY <2>2, <2>3 DEF Shapes, Rows, RowShape, TaskShape
<1>3. ASSUME NEW t \in Thread, ReadEvents(t) \/ ReadCoverage(t) PROVE Shapes'
  BY <1>1, <1>3 DEF ReadEvents, ReadCoverage, TaskShape
<1>4. ASSUME NEW t \in Thread, NEW i \in Id, CheckFeedback(t, i) PROVE Shapes'
  <2>1. PICK outcome \in Outcomes : \E event :
          task' = [task EXCEPT ![t] = [at |-> "feedback", id |-> i,
                                       feedback |-> [outcome |-> outcome, event |-> event]]]
    BY <1>4 DEF CheckFeedback, Outcomes
  <2> QED BY <1>1, <1>4, <2>1 DEF CheckFeedback, TaskShape
<1>5. ASSUME NEW t \in Thread, StoreResults(t) PROVE Shapes'
  <2>1. PICK i, seen, c : i = task[t].id /\ seen = task[t].seen /\ c = task[t].coverage
    OBVIOUS
  <2>2. /\ task' = [task EXCEPT ![t] = Idle]
        /\ row' = IF i \in Rows THEN [row EXCEPT ![i] = Assessed(row[i], seen, c)] ELSE row
    BY <1>5, <2>1 DEF StoreResults
  <2>3. \A u \in Thread : TaskShape(u)'
    BY <2>2 DEF Shapes, TaskShape, Idle
  <2>4. ASSUME NEW j \in Rows' PROVE RowShape(j)'
    <3>1. CASE i \in Rows /\ j = i
      <4>1. /\ i \in Id /\ row'[i] = Assessed(row[i], seen, c) /\ DOMAIN row[i] = Columns
        BY <2>2, <3>1 DEF Tables, Rows
      <4>2. row'[i].status = row[i].status /\ row'[i].feedback = row[i].feedback
        BY <4>1, AssessedRow
      <4> QED BY <3>1, <4>2 DEF Shapes, RowShape
    <3>2. CASE i \notin Rows \/ j # i
      BY <2>2, <2>4, <3>2 DEF Shapes, RowShape, Rows
    <3> QED BY <3>1, <3>2
  <2> QED BY <2>3, <2>4 DEF Shapes
<1>6. ASSUME NEW t \in Thread, StoreFeedback(t) PROVE Shapes'
  <2>1. PICK i, feedback : i = task[t].id /\ feedback = task[t].feedback
    OBVIOUS
  <2>2. /\ task' = [task EXCEPT ![t] = Idle] /\ feedback.outcome \in Outcomes
        /\ row' = IF i \in Rows
                  THEN [row EXCEPT ![i] = [row[i] EXCEPT !.feedback = feedback]] ELSE row
    BY <1>6, <2>1 DEF StoreFeedback, Shapes, TaskShape
  <2>3. \A u \in Thread : TaskShape(u)'
    BY <2>2 DEF Shapes, TaskShape, Idle
  <2>4. ASSUME NEW j \in Rows' PROVE RowShape(j)'
    <3>1. CASE i \in Rows /\ j = i
      <4>1. i \in Id /\ DOMAIN row[i] = Columns
        BY <3>1 DEF Tables, Rows
      <4>2. row'[i].status = row[i].status /\ row'[i].feedback = feedback
        BY <2>2, <3>1, <4>1 DEF Columns
      <4> QED BY <2>2, <3>1, <4>2 DEF Shapes, RowShape
    <3>2. CASE i \notin Rows \/ j # i
      BY <2>2, <2>4, <3>2 DEF Shapes, RowShape, Rows
    <3> QED BY <3>1, <3>2
  <2> QED BY <2>3, <2>4 DEF Shapes
<1>7. ASSUME NEW i \in Id, Draft(i) PROVE Shapes'
  <2>1. PICK r, seen, c : row' = [row EXCEPT ![i] = Assessed(Created(r, "draft"), seen, c)]
    BY <1>7 DEF Draft
  <2>2. row'[i].status = "draft" /\ row'[i].feedback = NoFeedback
    BY <2>1 DEF Assessed, Created
  <2>3. UNCHANGED task /\ \A j \in Id \ {i} : row'[j] = row[j]
    BY <1>7, <2>1 DEF Draft
  <2> QED BY <2>2, <2>3 DEF Shapes, Rows, RowShape, TaskShape, NoFeedback
<1>8. ASSUME NEW i \in Id, DeleteIncident(i) PROVE Shapes'
  BY <1>8 DEF DeleteIncident, Deleted, Shapes, Rows, RowShape, TaskShape
<1>9. CASE Die
  BY <1>1, <1>9 DEF Die, Idle, TaskShape
<1>10. CASE RecordEvents \/ FinishScan \/ Tick \/ UNCHANGED vars
  BY <1>1, <1>10 DEF RecordEvents, FinishScan, Tick, vars
<1> QED BY <1>2, <1>3, <1>4, <1>5, <1>6, <1>7, <1>8, <1>9, <1>10 DEF Next

(* Type correctness: among others, a stored request is well formed, its    *)
(* conclusion is one of the five, and a row keeps at most Limit leads.     *)
THEOREM Types == Spec => []TypeOK
<1>1. Spec => []Shapes
  <2>1. IInv => Tables
    BY DEF IInv
  <2> QED BY InitShapes, NextShapes, Invariance, <2>1, PTL DEF Spec
<1>2. Earned /\ Shapes => TypeOK
  <2> SUFFICES ASSUME Earned, Shapes PROVE TypeOK
    OBVIOUS
  <2>1. \A e \in events : EventOK(e)
    BY JournalFacts DEF Earned, Recorded
  <2>2. ASSUME NEW i \in Rows
        PROVE  /\ RequestOK(row[i].request) /\ Len(row[i].results) <= Limit
               /\ row[i].assessment \in {"neutral", "limited_coverage", "no_recent_changes",
                                         "insufficient_evidence", "candidate_found"}
    <3>1. PICK r, c, results : /\ r = row[i].request /\ c = row[i].coverage
                               /\ results = row[i].results
      OBVIOUS
    <3>2. RequestFits(r)
      BY <3>1 DEF Earned, RowIsEarned
    <3>3. CASE row[i].assessment = "neutral" /\ results = <<>>
      <4>1. Len(results) <= Limit
        BY <3>3, BoundsAssumption
      <4> QED BY <3>1, <3>2, <3>3, <4>1 DEF RequestFits
    <3>4. ASSUME NEW seen \in SUBSET events, Read(r, seen, c.counted),
                 results = Leads(r, seen, c),
                 row[i].assessment = Assess(r, results, seen, c)
          PROVE  /\ Len(results) <= Limit
                 /\ row[i].assessment \in {"limited_coverage", "no_recent_changes",
                                           "insufficient_evidence", "candidate_found"}
      <4>1. Recorded(seen)
        BY <3>4, SeenEvents DEF Earned
      <4>2. Len(results) <= Limit
        BY <3>2, <3>4, <4>1, LeadsAreFew
      <4>3. Assess(r, results, seen, c) \in {"limited_coverage", "no_recent_changes",
                                            "insufficient_evidence", "candidate_found"}
        BY DEF Assess
      <4> QED BY <3>4, <4>2, <4>3
    <3> QED BY <3>1, <3>2, <3>3, <3>4 DEF Earned, RowIsEarned, RequestFits
  <2>3. clock \in history.now .. history.now + MaxTicks
        /\ scan \in {"none", "collecting", "recorded"}
    BY DEF Earned, Journal
  <2> QED BY <2>1, <2>2, <2>3 DEF TypeOK, Shapes, RowShape, TaskShape, Outcomes
<1> QED BY EarnedAlways, <1>1, <1>2, PTL

=============================================================================
