----------------------------- MODULE ReportsProofs -----------------------------
(***************************************************************************)
(* For every book, ladder and threshold, and however re-scoring, client    *)
(* corrections and deaths of either process fall between the statements of *)
(* a benchmark: a stored placement can be worked out from its snapshot,    *)
(* its quartile was earned and agrees with its median, a higher posture is *)
(* placed no lower, and a worse vendor is advised on no more softly.       *)
(***************************************************************************)
EXTENDS Reports, FiniteSetTheorems, SequenceTheorems, TLAPS
WF == INSTANCE WellFoundedInduction

-------------------------------------------------------------------------------
(* Any population and any threshold: a higher number is placed no lower. *)

\* A population: finitely many members with an integer each.
Populated(values) == IsFiniteSet(DOMAIN values) /\ \A m \in DOMAIN values : values[m] \in Int

-------------------------------------------------------------------------------
(* Counting. *)

LEMMA SomeAreCounted ==
    ASSUME NEW values, Populated(values), NEW S, S \subseteq DOMAIN values
    PROVE  IsFiniteSet(S) /\ Cardinality(S) \in Nat /\ Cardinality(S) <= Count(values)
<1>1. IsFiniteSet(S) /\ Cardinality(S) <= Cardinality(DOMAIN values)
  BY FS_Subset DEF Populated
<1> QED BY <1>1, FS_CardinalityType DEF Count

LEMMA CountsAreNat ==
    ASSUME NEW values, Populated(values), NEW x \in Int
    PROVE  /\ Count(values) \in Nat /\ Below(values, x) \in Nat /\ Equal(values, x) \in Nat
           /\ Above(values, x) \in Nat /\ TwiceMidrank(values, x) \in Nat
<1>1. Count(values) \in Nat
  BY FS_CardinalityType DEF Populated, Count
<1>2. Below(values, x) \in Nat
  BY SomeAreCounted DEF Below
<1>3. Equal(values, x) \in Nat
  BY SomeAreCounted DEF Equal
<1>4. Above(values, x) \in Nat
  BY SomeAreCounted DEF Above
<1> QED BY <1>1, <1>2, <1>3, <1>4 DEF TwiceMidrank

\* What is below or beside the lower of two numbers is below the higher.
LEMMA BelowIsAdditive ==
    ASSUME NEW values, Populated(values), NEW x \in Int, NEW y \in Int, x < y
    PROVE  Below(values, x) + Equal(values, x) <= Below(values, y)
<1> DEFINE B == {m \in DOMAIN values : values[m] < x}
           E == {m \in DOMAIN values : values[m] = x}
           Y == {m \in DOMAIN values : values[m] < y}
<1>1. /\ IsFiniteSet(B) /\ Cardinality(B) \in Nat
      /\ IsFiniteSet(E) /\ Cardinality(E) \in Nat
      /\ IsFiniteSet(Y) /\ Cardinality(Y) \in Nat
  BY SomeAreCounted
<1>2. B \cap E = {}
  BY DEF Populated
<1>3. B \cup E \subseteq Y
  BY DEF Populated
<1>4. Cardinality(B \cup E) = Cardinality(B) + Cardinality(E) - Cardinality(B \cap E)
  BY <1>1, FS_Union
<1>5. Cardinality(B \cap E) = 0
  BY <1>2, FS_EmptySet
<1>6. Cardinality(B \cup E) <= Cardinality(Y)
  BY <1>1, <1>3, FS_Subset
<1> HIDE DEF B, E, Y
<1>7. Cardinality(B) + Cardinality(E) <= Cardinality(Y)
  BY <1>1, <1>4, <1>5, <1>6
<1> QED BY <1>7 DEF Below, Equal, B, E, Y

LEMMA MidrankGrows ==
    ASSUME NEW values, Populated(values), NEW x \in Int, NEW y \in Int, x <= y
    PROVE  TwiceMidrank(values, x) <= TwiceMidrank(values, y)
<1>0. /\ Below(values, x) \in Nat /\ Equal(values, x) \in Nat
      /\ Below(values, y) \in Nat /\ Equal(values, y) \in Nat
  BY CountsAreNat
<1>1. CASE x = y
  BY <1>0, <1>1 DEF TwiceMidrank
<1>2. CASE x < y
  <2>1. Below(values, x) + Equal(values, x) <= Below(values, y)
    BY <1>2, BelowIsAdditive
  <2> QED BY <1>0, <2>1 DEF TwiceMidrank
<1> QED BY <1>1, <1>2

LEMMA AboveShrinks ==
    ASSUME NEW values, Populated(values), NEW x \in Int, NEW y \in Int, x <= y
    PROVE  Above(values, y) <= Above(values, x)
<1> DEFINE X == {m \in DOMAIN values : values[m] > x}
           Y == {m \in DOMAIN values : values[m] > y}
<1>1. IsFiniteSet(X)
  BY SomeAreCounted
<1>2. Y \subseteq X
  BY DEF Populated
<1>3. Cardinality(Y) <= Cardinality(X)
  BY <1>1, <1>2, FS_Subset
<1> QED BY <1>3 DEF Above

-------------------------------------------------------------------------------
(* Quarters and percentages. *)

LEMMA QuarterGrows ==
    ASSUME NEW n \in Nat, NEW t \in Nat, NEW u \in Nat, t <= u
    PROVE  Quarter(t, n) \in 1 .. 4 /\ Quarter(t, n) <= Quarter(u, n)
BY DEF Quarter

\* A quotient and its remainder.
LEMMA Division ==
    ASSUME NEW a \in Nat, NEW b \in Nat \ {0}
    PROVE  a \div b \in Nat /\ (a % b) \in 0 .. b - 1 /\ a = b * (a \div b) + (a % b)
OBVIOUS

LEMMA QuotientGrows ==
    ASSUME NEW b \in Nat \ {0}, NEW p \in Nat, NEW q \in Nat, NEW r \in 0 .. b - 1, NEW s \in 0 .. b - 1,
           b * p + r <= b * q + s
    PROVE  p <= q /\ (p = q => r <= s)
<1>1. ASSUME q < p PROVE FALSE
  <2>1. q + 1 <= p
    BY <1>1
  <2>2. b * (q + 1) <= b * p
    BY <2>1
  <2>3. b * (q + 1) = b * q + b
    OBVIOUS
  <2>4. b * p \in Nat /\ b * q \in Nat
    OBVIOUS
  <2> QED BY <2>2, <2>3, <2>4
<1>2. ASSUME p = q PROVE r <= s
  <2>1. b * p = b * q /\ b * p \in Nat
    BY <1>2
  <2> QED BY <2>1
<1> QED BY <1>1, <1>2

LEMMA RoundedGrows ==
    ASSUME NEW a \in Nat, NEW c \in Nat, NEW b \in Nat \ {0}, a <= c
    PROVE  Rounded(a, b) \in Nat /\ Rounded(c, b) \in Nat /\ Rounded(a, b) <= Rounded(c, b)
<1> DEFINE p == a \div b
           q == c \div b
           r == a % b
           s == c % b
<1>1. p \in Nat /\ q \in Nat /\ r \in 0 .. b - 1 /\ s \in 0 .. b - 1
  BY Division
<1>2. a = b * p + r /\ c = b * q + s
  BY Division
<1>3. Rounded(a, b) = IF 2 * r < b \/ (2 * r = b /\ (p % 2) = 0) THEN p ELSE p + 1
  BY DEF Rounded
<1>4. Rounded(c, b) = IF 2 * s < b \/ (2 * s = b /\ (q % 2) = 0) THEN q ELSE q + 1
  BY DEF Rounded
<1> HIDE DEF p, q, r, s
<1>5. p <= q /\ (p = q => r <= s)
  BY <1>1, <1>2, QuotientGrows
<1>6. CASE p = q
  BY <1>1, <1>3, <1>4, <1>5, <1>6
<1>7. CASE p < q
  BY <1>1, <1>3, <1>4, <1>7
<1> QED BY <1>1, <1>5, <1>6, <1>7

LEMMA StepIsPositive ==
    ASSUME NEW n \in Nat \ {0}
    PROVE  (99 + n) \div n \in Nat \ {0}
<1> DEFINE a == 99 + n
<1>1. a \in Nat /\ a > 0 /\ a >= n
  OBVIOUS
<1> HIDE DEF a
<1>2. a \div n \in Nat /\ a = n * (a \div n) + (a % n) /\ (a % n) \in 0 .. n - 1
  BY <1>1, Division
<1>3. a \div n # 0
  BY <1>1, <1>2
<1> QED BY <1>2, <1>3 DEF a

LEMMA PercentileGrows ==
    ASSUME NEW values, Populated(values), Count(values) > 0, NEW x \in Int, NEW y \in Int, x <= y
    PROVE  Percentile(values, x) <= Percentile(values, y)
<1> DEFINE n == Count(values)
           r == Resolution(values)
           t == TwiceMidrank(values, x)
           u == TwiceMidrank(values, y)
<1>1. n \in Nat \ {0} /\ t \in Nat /\ u \in Nat /\ t <= u
  BY CountsAreNat, MidrankGrows
<1>2. r \in Nat \ {0}
  BY <1>1, StepIsPositive DEF Resolution
<1> HIDE DEF n, r, t, u
<1>3. n * r \in Nat \ {0}
  BY <1>1, <1>2
<1>4. 50 * t \in Nat /\ 50 * u \in Nat /\ 50 * t <= 50 * u
  BY <1>1
<1> DEFINE A == Rounded(50 * t, n * r)
           B == Rounded(50 * u, n * r)
<1>5. A \in Nat /\ B \in Nat /\ A <= B
  BY <1>3, <1>4, RoundedGrows
<1> HIDE DEF A, B
<1>6. r * A \in Nat /\ r * B \in Nat /\ r * A <= r * B
  BY <1>2, <1>5
<1>7. Percentile(values, x) = IF r * A < 100 THEN r * A ELSE 100
  BY DEF Percentile, A, n, r, t
<1>8. Percentile(values, y) = IF r * B < 100 THEN r * B ELSE 100
  BY DEF Percentile, B, n, r, u
<1> QED BY <1>6, <1>7, <1>8

-------------------------------------------------------------------------------
(* The inductive invariant. *)

IsPosture(x) == x \in Int \/ x = None

\* What can be frozen: integer postures of some of the other vendors.
SnapshotOK(s) ==
    /\ DOMAIN s.values \subseteq Vendors \ {s.vendor}
    /\ \A m \in DOMAIN s.values : s.values[m] \in Int
    /\ \A d \in DOMAIN s.domains : /\ DOMAIN s.domains[d] \subseteq DOMAIN s.values
                                   /\ \A m \in DOMAIN s.domains[d] : s.domains[d][m] \in Int

\* A placement is a function of the snapshot it names.
WorkedOut(p, s) ==
    /\ s.id = p.snapshot /\ s.vendor = p.vendor
    /\ p.overall = Place(p.overall.subject, s.values, MinQuartile) /\ IsPosture(p.overall.subject)
    /\ p.median = Median(s.values)
    /\ DOMAIN p.domains = DOMAIN s.domains
    /\ \A d \in DOMAIN p.domains : /\ p.domains[d] = PlaceDomain(p.domains[d].placement.subject, s.domains[d])
                                   /\ IsPosture(p.domains[d].placement.subject)

BookOK == /\ score \in [Vendors -> AllScores]
          /\ DOMAIN rows = Vendors
SnapshotsOK == /\ IsFiniteSet(snapshots)
               /\ \A s \in snapshots : SnapshotOK(s) /\ s.id \in 1 .. Cardinality(snapshots)
               /\ \A s, t \in snapshots : s.id = t.id => s = t
PlacementsOK == /\ placements \in Seq(Placement)
                /\ \A p \in Placement : \E s \in snapshots : WorkedOut(p, s)
CallOK == /\ call.at = "score" => call.vendor \in Vendors
          /\ call.at = "ladder" => call.subject \in AllScores
          /\ call.at = "store" => /\ SnapshotOK(call.frozen) /\ WorkedOut(call.placement, call.frozen)
                                  /\ call.frozen.id = Cardinality(snapshots) + 1
          /\ call.at = "place" => \E s \in snapshots : WorkedOut(call.placement, s)
IInv == BookOK /\ SnapshotsOK /\ PlacementsOK /\ CallOK

-------------------------------------------------------------------------------
(* Lemmas. *)

LEMMA SubjectIsPlaced ==
    ASSUME NEW x, NEW values, NEW least
    PROVE  Place(x, values, least).subject = x /\ Place(x, values, least).n = Count(values)
BY DEF Place, Placed, Unplaced

LEMMA PosturesOfScores ==
    ASSUME NEW s \in AllScores
    PROVE  /\ IsPosture(s.posture) /\ (s.standing = "published" => s.posture \in Int)
           /\ \A d \in DOMAIN s.domains : s.domains[d] \in Int
BY BookAssumption DEF IsPosture

\* The peers of a lookup are other vendors with a posture each.
LEMMA PeersAreOthers ==
    ASSUME BookOK, NEW v, NEW cohort
    PROVE  /\ Peers(v, cohort) \subseteq Vendors \ {v}
           /\ \A p \in Peers(v, cohort) :
                score[p].posture \in Int /\ \A d \in DOMAIN score[p].domains : score[p].domains[d] \in Int
<1>1. ASSUME NEW p \in Peers(v, cohort)
      PROVE  p \in Vendors /\ p # v /\ score[p].standing = "published"
  BY <1>1 DEF Peers, PeersOf, BookOK
<1>2. ASSUME NEW p \in Vendors PROVE score[p] \in AllScores
  BY DEF BookOK
<1> QED BY <1>1, <1>2, PosturesOfScores

LEMMA SnapshotIsPopulated ==
    ASSUME NEW s, SnapshotOK(s)
    PROVE  /\ Populated(s.values)
           /\ Cardinality(DOMAIN s.values \ {s.vendor}) = Count(s.values)
           /\ \A d \in DOMAIN s.domains : Populated(s.domains[d])
           /\ \A d \in DOMAIN s.domains :
                Cardinality(DOMAIN s.domains[d] \ {s.vendor}) = Count(s.domains[d])
<1>1. IsFiniteSet(DOMAIN s.values)
  BY BookAssumption, FS_Subset DEF SnapshotOK
<1>2. DOMAIN s.values \ {s.vendor} = DOMAIN s.values
  BY DEF SnapshotOK
<1>3. ASSUME NEW d \in DOMAIN s.domains
      PROVE  DOMAIN s.domains[d] \ {s.vendor} = DOMAIN s.domains[d]
  BY DEF SnapshotOK
<1>4. ASSUME NEW d \in DOMAIN s.domains
      PROVE  Populated(s.domains[d])
  BY <1>1, FS_Subset DEF SnapshotOK, Populated
<1> QED BY <1>1, <1>2, <1>3, <1>4 DEF SnapshotOK, Populated, Count

\* A sequence with one more element holds one value more.
LEMMA OneMorePlaced ==
    ASSUME NEW S, NEW q \in Seq(S), S = {q[i] : i \in DOMAIN q}, NEW e
    PROVE  /\ Append(q, e) \in Seq(S \cup {e})
           /\ {Append(q, e)[i] : i \in DOMAIN Append(q, e)} = S \cup {e}
<1> DEFINE T == S \cup {e}
<1>1. q \in Seq(T)
  BY DEF T
<1>2. e \in T
  OBVIOUS
<1> HIDE DEF T
<1>3. /\ Append(q, e) \in Seq(T) /\ Len(Append(q, e)) = Len(q) + 1
      /\ \A i \in 1 .. Len(q) : Append(q, e)[i] = q[i]
      /\ Append(q, e)[Len(q) + 1] = e
  BY <1>1, <1>2, AppendProperties
<1>4. Len(q) \in Nat /\ DOMAIN q = 1 .. Len(q) /\ DOMAIN Append(q, e) = 1 .. Len(q) + 1
  BY <1>1, <1>3, LenProperties
<1>5. 1 .. Len(q) + 1 = (1 .. Len(q)) \cup {Len(q) + 1}
  BY <1>4
<1>6. {Append(q, e)[i] : i \in DOMAIN Append(q, e)} = S \cup {e}
  BY <1>3, <1>4, <1>5
<1> QED BY <1>3, <1>6 DEF T

LEMMA LastAppended ==
    ASSUME NEW S, NEW q \in Seq(S), NEW e
    PROVE  Append(q, e)[Len(Append(q, e))] = e
<1> DEFINE T == S \cup {e}
<1>1. q \in Seq(T) /\ e \in T
  BY DEF T
<1> HIDE DEF T
<1> QED BY <1>1, AppendProperties

-------------------------------------------------------------------------------
(* The invariant holds at the start and is kept by every step. *)

LEMMA Initially == Init => IInv
<1> SUFFICES ASSUME Init PROVE IInv
  OBVIOUS
<1>1. BookOK
  BY DEF Init, BookOK, AllScores
<1>2. SnapshotsOK
  BY FS_EmptySet DEF Init, SnapshotsOK
<1>3. PlacementsOK
  BY DEF Init, PlacementsOK, Placement
<1>4. CallOK
  BY DEF Init, CallOK, Idle
<1> QED BY <1>1, <1>2, <1>3, <1>4 DEF IInv

\* A step that touches neither the tables of the benchmark nor its handler.
LEMMA Elsewhere ==
    ASSUME IInv, UNCHANGED <<snapshots, placements, call>>, BookOK'
    PROVE  IInv'
<1>1. SnapshotsOK'
  BY DEF IInv, SnapshotsOK, SnapshotOK
<1>2. PlacementsOK'
  BY DEF IInv, PlacementsOK, Placement, WorkedOut
<1>3. CallOK'
  BY DEF IInv, CallOK, SnapshotOK, WorkedOut
<1> QED BY <1>1, <1>2, <1>3 DEF IInv

\* A step of the handler that stores nothing.
LEMMA NothingStored ==
    ASSUME IInv, UNCHANGED <<book, snapshots, placements>>, CallOK'
    PROVE  IInv'
<1>1. BookOK'
  BY DEF IInv, BookOK, book
<1>2. SnapshotsOK'
  BY DEF IInv, SnapshotsOK, SnapshotOK
<1>3. PlacementsOK'
  BY DEF IInv, PlacementsOK, Placement, WorkedOut
<1> QED BY <1>1, <1>2, <1>3 DEF IInv

\* The monitor's statements.
LEMMA MonitorKeeps == IInv /\ Monitor => IInv'
<1> SUFFICES ASSUME IInv, Monitor PROVE IInv'
  OBVIOUS
<1>1. CASE SweepScore
  <2>1. PICK v \in Swept, s \in Scores : score' = [score EXCEPT ![v] = s]
    BY <1>1 DEF SweepScore
  <2>2. s \in AllScores
    BY DEF AllScores
  <2>3. BookOK'
    BY <1>1, <2>1, <2>2 DEF SweepScore, IInv, BookOK
  <2> QED BY <1>1, <2>3, Elsewhere DEF SweepScore, bench
<1>2. CASE SweepFindings
  <2>1. BookOK'
    BY <1>2 DEF SweepFindings, IInv, BookOK
  <2> QED BY <1>2, <2>1, Elsewhere DEF SweepFindings, bench
<1>3. CASE SweepPrior \/ SweepKilled
  <2>1. BookOK'
    BY <1>3 DEF SweepPrior, SweepKilled, IInv, BookOK, book
  <2> QED BY <1>3, <2>1, Elsewhere DEF SweepPrior, SweepKilled, bench
<1>4. CASE SweepAttributes
  <2>1. BookOK'
    BY <1>4 DEF SweepAttributes, IInv, BookOK
  <2> QED BY <1>4, <2>1, Elsewhere DEF SweepAttributes, bench
<1> QED BY <1>1, <1>2, <1>3, <1>4 DEF Monitor

\* The handlers that leave the benchmark alone.
LEMMA OthersKeep ==
    IInv /\ (SetAttributes \/ Raise \/ Advance \/ Analysis \/ ApiDies) => IInv'
<1> SUFFICES ASSUME IInv, SetAttributes \/ Raise \/ Advance \/ Analysis \/ ApiDies PROVE IInv'
  OBVIOUS
<1>1. CASE SetAttributes
  <2>1. BookOK'
    BY <1>1 DEF SetAttributes, IInv, BookOK
  <2> QED BY <1>1, <2>1, Elsewhere DEF SetAttributes, bench
<1>2. CASE Raise \/ Advance
  <2>1. BookOK'
    BY <1>2 DEF Raise, Advance, IInv, BookOK, book
  <2> QED BY <1>2, <2>1, Elsewhere DEF Raise, Advance
<1>3. CASE ProviderFails \/ ProviderAnswers
  <2>1. BookOK'
    BY <1>3 DEF ProviderFails, ProviderAnswers, IInv, BookOK, book
  <2> QED BY <1>3, <2>1, Elsewhere DEF ProviderFails, ProviderAnswers, bench
<1>4. CASE AnalysisGate \/ AnalysisContext \/ ApiDies
  <2>1. call'.at \in {"idle", "context"}
    BY <1>4 DEF AnalysisGate, AnalysisContext, ApiDies, Idle
  <2>2. CallOK'
    BY <2>1 DEF CallOK
  <2> QED BY <1>4, <2>2, NothingStored DEF AnalysisGate, AnalysisContext, ApiDies, bench
<1> QED BY <1>1, <1>2, <1>3, <1>4 DEF Analysis

\* What is frozen is worked out from what the second lookup returned.
LEMMA FreezeKeeps == IInv /\ BenchmarkFreeze => IInv'
<1> SUFFICES ASSUME IInv, BenchmarkFreeze PROVE IInv'
  OBVIOUS
<1> DEFINE v == call.vendor
           rungs == Rungs(call.firm)
           on == Assigned(call.counts)
           peers == IF on = None THEN {} ELSE Peers(v, CohortOn(rungs[on], call.firm))
           values == [p \in peers |-> score[p].posture]
           domains == DomainsOf(call.subject, peers)
           frozen == call'.frozen
           placement == call'.placement
<1>1. /\ peers \subseteq Vendors \ {v}
      /\ \A p \in peers : score[p].posture \in Int /\ \A d \in DOMAIN score[p].domains : score[p].domains[d] \in Int
  BY PeersAreOthers DEF IInv
<1>2. \A d \in DOMAIN domains : /\ DOMAIN domains[d].values \subseteq peers
                                /\ \A m \in DOMAIN domains[d].values : domains[d].values[m] \in Int
  <2> HIDE DEF peers
  <2> QED BY <1>1 DEF DomainsOf, DomainValues
<1>3. /\ IsPosture(call.subject.posture)
      /\ \A d \in DOMAIN domains : IsPosture(domains[d].subject)
  <2>1. call.subject \in AllScores
    BY DEF IInv, CallOK, BenchmarkFreeze
  <2> HIDE DEF peers
  <2> QED BY <2>1, PosturesOfScores DEF IsPosture, DomainsOf
<1>4. /\ call'.at = "store"
      /\ frozen.id = Cardinality(snapshots) + 1 /\ frozen.vendor = v /\ frozen.values = values
      /\ frozen.domains = [d \in DOMAIN domains |-> domains[d].values]
      /\ placement.vendor = v /\ placement.snapshot = Cardinality(snapshots) + 1
      /\ placement.overall = Place(call.subject.posture, values, MinQuartile)
      /\ placement.median = Median(values)
      /\ placement.domains = [d \in DOMAIN domains |-> PlaceDomain(domains[d].subject, domains[d].values)]
      /\ UNCHANGED <<book, snapshots, placements>>
  BY DEF BenchmarkFreeze, bench
<1>5. DOMAIN values = peers /\ \A p \in peers : values[p] = score[p].posture
  OBVIOUS
<1> HIDE DEF v, rungs, on, peers, values, domains, frozen, placement
<1>6. SnapshotOK(frozen)
  BY <1>1, <1>2, <1>4, <1>5 DEF SnapshotOK
<1>7. \A d \in DOMAIN domains :
        PlaceDomain(domains[d].subject, domains[d].values).placement.subject = domains[d].subject
  BY SubjectIsPlaced DEF PlaceDomain
<1>8. placement.overall.subject = call.subject.posture
  BY <1>4, SubjectIsPlaced
<1>9. WorkedOut(placement, frozen)
  BY <1>3, <1>4, <1>7, <1>8 DEF WorkedOut
<1>10. CallOK'
  BY <1>4, <1>6, <1>9 DEF CallOK, frozen, placement
<1> QED BY <1>4, <1>10, NothingStored

LEMMA SnapshotKeeps == IInv /\ BenchmarkSnapshot => IInv'
<1> SUFFICES ASSUME IInv, BenchmarkSnapshot PROVE IInv'
  OBVIOUS
<1>1. /\ SnapshotOK(call.frozen) /\ WorkedOut(call.placement, call.frozen)
      /\ call.frozen.id = Cardinality(snapshots) + 1
  BY DEF IInv, CallOK, BenchmarkSnapshot
<1>2. /\ snapshots' = snapshots \cup {call.frozen}
      /\ call' = [at |-> "place", placement |-> call.placement]
      /\ UNCHANGED <<book, placements>>
  BY DEF BenchmarkSnapshot, StoreSnapshot
<1>3. IsFiniteSet(snapshots) /\ Cardinality(snapshots) \in Nat
  BY FS_CardinalityType DEF IInv, SnapshotsOK
<1>4. call.frozen \notin snapshots
  BY <1>1, <1>3 DEF IInv, SnapshotsOK
<1>5. IsFiniteSet(snapshots') /\ Cardinality(snapshots') = Cardinality(snapshots) + 1
  BY <1>2, <1>3, <1>4, FS_AddElement
<1>6. SnapshotsOK'
  <2>1. ASSUME NEW s \in snapshots'
        PROVE  SnapshotOK(s) /\ s.id \in 1 .. Cardinality(snapshots')
    BY <1>1, <1>2, <1>3, <1>5 DEF IInv, SnapshotsOK
  <2>2. ASSUME NEW s \in snapshots', NEW t \in snapshots', s.id = t.id
        PROVE  s = t
    BY <1>1, <1>2, <1>3, <2>2 DEF IInv, SnapshotsOK
  <2> QED BY <1>5, <2>1, <2>2 DEF SnapshotsOK, SnapshotOK
<1>7. PlacementsOK'
  BY <1>2 DEF IInv, PlacementsOK, Placement, WorkedOut
<1>8. CallOK'
  <2>1. WorkedOut(call.placement, call.frozen) /\ call.frozen \in snapshots'
    BY <1>1, <1>2
  <2>2. call'.at = "place" /\ call'.placement = call.placement
    BY <1>2
  <2> QED BY <2>1, <2>2 DEF CallOK, WorkedOut
<1>9. BookOK'
  BY <1>2 DEF IInv, BookOK, book
<1> QED BY <1>6, <1>7, <1>8, <1>9 DEF IInv

LEMMA PlacementKeeps == IInv /\ BenchmarkPlacement => IInv'
<1> SUFFICES ASSUME IInv, BenchmarkPlacement PROVE IInv'
  OBVIOUS
<1>1. /\ placements' = Append(placements, call.placement) /\ call' = Idle
      /\ UNCHANGED <<book, snapshots>>
  BY DEF BenchmarkPlacement
<1>2. placements \in Seq(Placement) /\ Placement = {placements[i] : i \in DOMAIN placements}
  BY DEF IInv, PlacementsOK, Placement
<1>3. /\ placements' \in Seq(Placement \cup {call.placement})
      /\ {placements'[i] : i \in DOMAIN placements'} = Placement \cup {call.placement}
  BY <1>1, <1>2, OneMorePlaced
<1>4. Placement' = Placement \cup {call.placement}
  BY <1>3 DEF Placement
<1>5. \A p \in Placement \cup {call.placement} : \E s \in snapshots : WorkedOut(p, s)
  BY DEF IInv, PlacementsOK, CallOK, BenchmarkPlacement
<1>6. PlacementsOK'
  <2>1. placements' \in Seq(Placement')
    BY <1>3, <1>4
  <2>2. \A p \in Placement' : \E s \in snapshots' : WorkedOut(p, s)
    BY <1>1, <1>4, <1>5
  <2> QED BY <2>1, <2>2 DEF PlacementsOK, WorkedOut
<1>7. SnapshotsOK'
  BY <1>1 DEF IInv, SnapshotsOK, SnapshotOK
<1>8. BookOK' /\ CallOK'
  BY <1>1 DEF IInv, BookOK, book, CallOK, Idle
<1> QED BY <1>6, <1>7, <1>8 DEF IInv

LEMMA BenchmarkKeeps == IInv /\ Benchmark => IInv'
<1> SUFFICES ASSUME IInv, Benchmark PROVE IInv'
  OBVIOUS
<1>1. CASE BenchmarkRow
  <2>1. CallOK'
    BY <1>1, BookAssumption DEF BenchmarkRow, CallOK
  <2> QED BY <1>1, <2>1, NothingStored DEF BenchmarkRow, bench
<1>2. CASE BenchmarkScore
  <2>1. call.vendor \in Vendors
    BY <1>2 DEF BenchmarkScore, IInv, CallOK
  <2>2. CallOK'
    BY <1>2, <2>1 DEF BenchmarkScore, CallOK, IInv, BookOK
  <2> QED BY <1>2, <2>2, NothingStored DEF BenchmarkScore, bench
<1>3. CASE BenchmarkRung
  <2>1. CallOK'
    BY <1>3 DEF BenchmarkRung, CallOK, IInv
  <2> QED BY <1>3, <2>1, NothingStored DEF BenchmarkRung, bench
<1> QED BY <1>1, <1>2, <1>3, FreezeKeeps, SnapshotKeeps, PlacementKeeps DEF Benchmark

\* The invariant of the benchmark's tables.
THEOREM BenchmarkInvariant == Spec => []IInv
<1>1. IInv /\ [Next]_vars => IInv'
  <2> SUFFICES ASSUME IInv, [Next]_vars PROVE IInv'
    OBVIOUS
  <2>1. CASE Next
    BY <2>1, MonitorKeeps, OthersKeep, BenchmarkKeeps DEF Next
  <2>2. CASE UNCHANGED vars
    <3>1. BookOK'
      BY <2>2 DEF vars, book, IInv, BookOK
    <3> QED BY <2>2, <3>1, Elsewhere DEF vars, bench
  <2> QED BY <2>1, <2>2
<1> QED BY Initially, <1>1, PTL DEF Spec

-------------------------------------------------------------------------------
(* What it gives. *)

\* There is one snapshot of a placement's, and the placement is worked out from it.
LEMMA OneSnapshot ==
    ASSUME IInv, NEW p \in Placement
    PROVE  \E s \in snapshots : FrozenFor(p) = {s} /\ WorkedOut(p, s) /\ SnapshotOK(s)
<1>1. PICK s \in snapshots : WorkedOut(p, s)
  BY DEF IInv, PlacementsOK
<1>2. SnapshotOK(s) /\ s.id = p.snapshot
  BY <1>1 DEF IInv, SnapshotsOK, WorkedOut
<1>3. \A t \in snapshots : t.id = p.snapshot => t = s
  BY <1>2 DEF IInv, SnapshotsOK
<1>4. FrozenFor(p) = {s}
  BY <1>2, <1>3 DEF FrozenFor
<1> QED BY <1>1, <1>2, <1>4

\* Nothing is published among fewer members than the floor.
LEMMA PublishedIsEarned ==
    ASSUME NEW x, NEW values, NEW least
    PROVE  /\ Place(x, values, least).quartile # None =>
                x # None /\ ~(Count(values) < least)
                  /\ Place(x, values, least) = Placed(x, values)
           /\ Place(x, values, least).percentile # None =>
                x # None /\ ~(Count(values) < least) /\ Count(values) >= MinPercentile
                  /\ Place(x, values, least) = Placed(x, values)
<1>1. CASE x = None \/ Count(values) < least
  BY <1>1 DEF Place, Unplaced
<1>2. CASE ~(x = None \/ Count(values) < least)
  <2>1. Place(x, values, least) = Placed(x, values)
    BY <1>2 DEF Place
  <2>2. Placed(x, values).percentile # None => Count(values) >= MinPercentile
    BY DEF Placed
  <2> QED BY <1>2, <2>1, <2>2
<1> QED BY <1>1, <1>2

\* Every stored placement can be worked out again from the one snapshot it names.
THEOREM Reproduces == Spec => []Reproducible
<1>1. IInv => Reproducible
  <2> SUFFICES ASSUME IInv, NEW p \in Placement
               PROVE  \E s \in snapshots :
                        /\ FrozenFor(p) = {s} /\ s.vendor = p.vendor
                        /\ p.overall = Place(p.overall.subject, s.values, MinQuartile)
                        /\ p.median = Median(s.values)
                        /\ DOMAIN p.domains = DOMAIN s.domains
                        /\ \A d \in DOMAIN p.domains :
                             p.domains[d] = PlaceDomain(p.domains[d].placement.subject, s.domains[d])
    BY DEF Reproducible
  <2> QED BY OneSnapshot DEF WorkedOut
<1> QED BY <1>1, BenchmarkInvariant, PTL

\* A stored quartile or percentile has its floor of other suppliers behind it.
THEOREM Earned == Spec => []QuartileIsEarned
<1>1. IInv => QuartileIsEarned
  <2> SUFFICES ASSUME IInv, NEW p \in Placement, NEW s \in FrozenFor(p)
               PROVE  LET others == DOMAIN s.values \ {p.vendor}
                      IN /\ p.overall.quartile # None => Cardinality(others) >= MinQuartile
                         /\ p.overall.percentile # None => Cardinality(others) >= MinPercentile
                         /\ \A d \in DOMAIN p.domains :
                              p.domains[d].placement.quartile # None
                                => Cardinality(DOMAIN s.domains[d] \ {p.vendor}) >= MinDomain
    BY DEF QuartileIsEarned
  <2>1. WorkedOut(p, s) /\ SnapshotOK(s)
    BY OneSnapshot
  <2>2. s.vendor = p.vendor
    BY <2>1 DEF WorkedOut
  <2>3. /\ Cardinality(DOMAIN s.values \ {p.vendor}) = Count(s.values)
        /\ \A d \in DOMAIN s.domains : Cardinality(DOMAIN s.domains[d] \ {p.vendor}) = Count(s.domains[d])
    BY <2>1, <2>2, SnapshotIsPopulated
  <2>4. Count(s.values) \in Nat
    BY <2>1, SnapshotIsPopulated, FS_CardinalityType DEF Populated, Count
  <2>5. /\ p.overall.quartile # None => ~(Count(s.values) < MinQuartile)
        /\ p.overall.percentile # None => Count(s.values) >= MinPercentile
    BY <2>1, PublishedIsEarned DEF WorkedOut
  <2>6. ASSUME NEW d \in DOMAIN p.domains, p.domains[d].placement.quartile # None
        PROVE  Cardinality(DOMAIN s.domains[d] \ {p.vendor}) >= MinDomain
    <3> DEFINE x == p.domains[d].placement.subject
    <3>1. d \in DOMAIN s.domains /\ p.domains[d] = PlaceDomain(x, s.domains[d])
      BY <2>1 DEF WorkedOut
    <3>2. PlaceDomain(x, s.domains[d]).placement = Place(x, s.domains[d], MinDomain)
      BY DEF PlaceDomain
    <3> HIDE DEF x
    <3>3. Place(x, s.domains[d], MinDomain).quartile # None
      BY <2>6, <3>1, <3>2
    <3>4. ~(Count(s.domains[d]) < MinDomain)
      BY <3>3, PublishedIsEarned
    <3>5. Count(s.domains[d]) \in Nat
      <4>1. IsFiniteSet(DOMAIN s.domains[d])
        BY <2>1, <3>1, SnapshotIsPopulated, FS_Subset DEF SnapshotOK, Populated
      <4> QED BY <4>1, FS_CardinalityType DEF Count
    <3> QED BY <2>3, <3>1, <3>4, <3>5, ThresholdAssumption DEF ValidThresholds
  <2> QED BY <2>3, <2>4, <2>5, <2>6, ThresholdAssumption DEF ValidThresholds
<1> QED BY <1>1, BenchmarkInvariant, PTL

\* Among one population a higher posture is placed no lower, on any of the three scales.
LEMMA PlacedGrows ==
    ASSUME NEW values, Populated(values), Count(values) > 0, NEW x \in Int, NEW y \in Int, x <= y
    PROVE  LET p == Placed(x, values)
               q == Placed(y, values)
           IN /\ p.quartile <= q.quartile /\ p.rank >= q.rank
              /\ p.percentile # None => p.percentile <= q.percentile
<1>1. TwiceMidrank(values, x) \in Nat /\ TwiceMidrank(values, y) \in Nat /\ Count(values) \in Nat
  BY CountsAreNat
<1>2. TwiceMidrank(values, x) <= TwiceMidrank(values, y)
  BY MidrankGrows
<1>3. Quartile(values, x) <= Quartile(values, y)
  BY <1>1, <1>2, QuarterGrows DEF Quartile
<1>4. Above(values, x) + 1 >= Above(values, y) + 1
  BY CountsAreNat, AboveShrinks
<1>5. Percentile(values, x) <= Percentile(values, y)
  BY PercentileGrows
<1> QED BY <1>3, <1>4, <1>5 DEF Placed

THEOREM StrongerRanks == Spec => []StrongerRanksNoLower
<1>1. IInv => StrongerRanksNoLower
  <2> SUFFICES ASSUME IInv, NEW p \in Placement, NEW q \in Placement,
                      NEW s \in FrozenFor(p), NEW t \in FrozenFor(q),
                      s.values = t.values, p.overall.quartile # None, q.overall.quartile # None,
                      p.overall.subject <= q.overall.subject
               PROVE  /\ p.overall.quartile <= q.overall.quartile
                      /\ p.overall.rank >= q.overall.rank
                      /\ p.overall.percentile # None => p.overall.percentile <= q.overall.percentile
    BY DEF StrongerRanksNoLower
  <2> DEFINE x == p.overall.subject
             y == q.overall.subject
  <2>1. WorkedOut(p, s) /\ SnapshotOK(s) /\ WorkedOut(q, t)
    BY OneSnapshot
  <2>2. /\ p.overall = Place(x, s.values, MinQuartile) /\ IsPosture(x)
        /\ q.overall = Place(y, s.values, MinQuartile) /\ IsPosture(y)
    BY <2>1 DEF WorkedOut
  <2> HIDE DEF x, y
  <2>3. x # None /\ ~(Count(s.values) < MinQuartile) /\ p.overall = Placed(x, s.values)
    BY <2>2, PublishedIsEarned
  <2>4. y # None /\ q.overall = Placed(y, s.values)
    BY <2>2, PublishedIsEarned
  <2>5. x \in Int /\ y \in Int
    BY <2>2, <2>3, <2>4 DEF IsPosture
  <2>6. x <= y
    BY DEF x, y
  <2>7. Populated(s.values) /\ Count(s.values) \in Nat
    BY <2>1, SnapshotIsPopulated, FS_CardinalityType DEF Populated, Count
  <2>8. Count(s.values) > 0
    BY <2>3, <2>7, ThresholdAssumption DEF ValidThresholds
  <2> QED BY <2>3, <2>4, <2>5, <2>6, <2>7, <2>8, PlacedGrows
<1> QED BY <1>1, BenchmarkInvariant, PTL
-------------------------------------------------------------------------------
(* The quarter a subject is put in, and the median it is shown beside.     *)
(* Both come from counting, the median by the rank of a member and the     *)
(* quarter by the midrank of the subject.                                  *)

LEMMA LessIsWellFounded ==
    \E R : WF!IsWellFoundedOn(R, Nat) /\ \A x, y \in Nat : x < y => <<x, y>> \in R
<1>1. \A x, y \in Nat : x < y => <<x, y>> \in WF!OpToRel(<, Nat)
  BY DEF WF!OpToRel
<1> QED BY <1>1, WF!NatLessThanWellFounded, Zenon

\* A part of the naturals that an order is well founded on has a minimal member.
LEMMA MinimalNatural ==
    ASSUME NEW R, WF!IsWellFoundedOn(R, Nat), NEW T, T \subseteq Nat, T # {}
    PROVE  \E x \in T : \A y \in T : ~(<<y, x>> \in R)
BY WF!WFMin, Zenon

\* A set of naturals with a member has a least one.
LEMMA LeastNatural ==
    ASSUME NEW T, T \subseteq Nat, T # {}
    PROVE  \E x \in T : \A y \in T : x <= y
<1>1. PICK R : WF!IsWellFoundedOn(R, Nat) /\ \A x, y \in Nat : x < y => <<x, y>> \in R
  BY LessIsWellFounded
<1>2. PICK x \in T : \A y \in T : ~(<<y, x>> \in R)
  BY <1>1, MinimalNatural, Zenon
<1>3. ASSUME NEW y \in T PROVE x <= y
  <2>1. x \in Nat /\ y \in Nat
    OBVIOUS
  <2>2. ~(y < x)
    BY <1>1, <1>2, <2>1
  <2> QED BY <2>1, <2>2
<1> QED BY <1>3

\* A member is beside itself.
LEMMA MembersCount ==
    ASSUME NEW values, Populated(values), NEW m \in DOMAIN values
    PROVE  values[m] \in Int /\ Equal(values, values[m]) \in Nat \ {0}
<1> DEFINE E == {i \in DOMAIN values : values[i] = values[m]}
<1>1. values[m] \in Int /\ m \in E
  BY DEF Populated
<1>2. IsFiniteSet(E) /\ Cardinality(E) \in Nat
  BY SomeAreCounted
<1> HIDE DEF E
<1>3. Cardinality(E) # 0
  BY <1>1, <1>2, FS_EmptySet
<1> QED BY <1>1, <1>2, <1>3 DEF Equal, E

\* Some member of a set that holds everybody below its members has that set below and beside it.
LEMMA TopOf ==
    ASSUME NEW values, Populated(values), NEW S, S \subseteq DOMAIN values, S # {},
           \A m \in S, i \in DOMAIN values : values[i] <= values[m] => i \in S
    PROVE  \E m \in S : Below(values, values[m]) + Equal(values, values[m]) = Cardinality(S)
<1> DEFINE n == Count(values)
           B(m) == Below(values, values[m])
           T == {k \in Nat : \E m \in S : k = n - B(m)}
<1>1. ASSUME NEW m \in S
      PROVE  n - B(m) \in Nat /\ B(m) \in Nat /\ n \in Nat
  BY SomeAreCounted, CountsAreNat DEF Below, Populated
<1>2. T \subseteq Nat /\ T # {}
  BY <1>1
<1>3. PICK k \in T : \A j \in T : k <= j
  <2> HIDE DEF T
  <2> QED BY <1>2, LeastNatural
<1>4. PICK m \in S : k = n - B(m)
  OBVIOUS
<1>5. ASSUME NEW i \in S PROVE values[i] <= values[m]
  <2>1. values[i] \in Int /\ values[m] \in Int /\ Equal(values, values[m]) \in Nat \ {0}
    BY MembersCount
  <2>2. ASSUME values[m] < values[i] PROVE FALSE
    <3>1. B(m) + Equal(values, values[m]) <= B(i)
      BY <2>1, <2>2, BelowIsAdditive
    <3>2. n - B(i) \in T /\ n - B(i) \in Nat /\ B(i) \in Nat /\ B(m) \in Nat /\ n \in Nat
      BY <1>1
    <3>3. n - B(m) <= n - B(i)
      BY <1>3, <1>4, <3>2
    <3> DEFINE bm == B(m)
               bi == B(i)
               e == Equal(values, values[m])
    <3>4. bm \in Nat /\ bi \in Nat /\ n \in Nat /\ e \in Nat \ {0} /\ bm + e <= bi /\ n - bm <= n - bi
      BY <2>1, <3>1, <3>2, <3>3
    <3> HIDE DEF bm, bi, e, n
    <3> QED BY <3>4
  <2> QED BY <2>1, <2>2
<1> DEFINE L == {i \in DOMAIN values : values[i] < values[m]}
           E == {i \in DOMAIN values : values[i] = values[m]}
<1>6. S = L \cup E /\ L \cap E = {}
  BY <1>5 DEF Populated
<1>7. IsFiniteSet(L) /\ IsFiniteSet(E) /\ Cardinality(L) \in Nat /\ Cardinality(E) \in Nat
  BY SomeAreCounted
<1>8. B(m) = Cardinality(L) /\ Equal(values, values[m]) = Cardinality(E)
  BY DEF Below, Equal
<1> HIDE DEF L, E, B
<1>9. Cardinality(L \cup E) = Cardinality(L) + Cardinality(E)
  <2>1. Cardinality(L \cup E) = Cardinality(L) + Cardinality(E) - Cardinality(L \cap E)
    BY <1>7, FS_Union
  <2>2. Cardinality(L \cap E) = 0
    BY <1>6, FS_EmptySet
  <2> QED BY <1>7, <2>1, <2>2
<1>10. B(m) + Equal(values, values[m]) = Cardinality(S)
  BY <1>6, <1>8, <1>9
<1> QED BY <1>10 DEF B

\* Every rank below the number of members is somebody's.
LEMMA OrderStatistic ==
    ASSUME NEW values, Populated(values), NEW k \in Nat, k < Count(values)
    PROVE  \E x \in {values[m] : m \in DOMAIN values} :
             Below(values, x) <= k /\ k < Below(values, x) + Equal(values, x)
<1> DEFINE U(m) == Below(values, values[m]) + Equal(values, values[m])
           T == {u \in Nat : u > k /\ \E m \in DOMAIN values : u = U(m)}
<1>0. ASSUME NEW m \in DOMAIN values
      PROVE  /\ values[m] \in Int /\ U(m) \in Nat /\ Below(values, values[m]) \in Nat
             /\ Equal(values, values[m]) \in Nat \ {0}
  BY MembersCount, CountsAreNat
<1>1. T # {}
  <2>1. Cardinality(DOMAIN values) # 0 /\ Count(values) \in Nat
    BY FS_CardinalityType DEF Populated, Count
  <2>2. DOMAIN values # {}
    BY <2>1, FS_EmptySet
  <2>3. PICK m \in DOMAIN values : U(m) = Cardinality(DOMAIN values)
    BY <2>2, TopOf
  <2> QED BY <1>0, <2>3 DEF Count
<1>2. PICK u \in T : \A w \in T : u <= w
  <2>1. T \subseteq Nat
    OBVIOUS
  <2> HIDE DEF T
  <2> QED BY <1>1, <2>1, LeastNatural
<1>3. PICK m \in DOMAIN values : u = U(m) /\ u > k
  OBVIOUS
<1> DEFINE x == values[m]
<1>4. Below(values, x) <= k
  <2> SUFFICES ASSUME Below(values, x) > k PROVE FALSE
    BY <1>0
  <2> DEFINE S == {i \in DOMAIN values : values[i] < x}
  <2>1. Cardinality(S) = Below(values, x) /\ Cardinality(S) # 0
    BY <1>0 DEF Below
  <2>2. S # {}
    BY <2>1, FS_EmptySet
  <2>3. \A j \in S, i \in DOMAIN values : values[i] <= values[j] => i \in S
    BY <1>0
  <2>4. S \subseteq DOMAIN values
    OBVIOUS
  <2> HIDE DEF S, x
  <2>5. PICK j \in S : Below(values, values[j]) + Equal(values, values[j]) = Cardinality(S)
    BY <2>2, <2>3, <2>4, TopOf
  <2>6. U(j) = Below(values, x) /\ U(j) \in Nat /\ j \in DOMAIN values
    BY <1>0, <2>1, <2>4, <2>5
  <2>7. U(j) \in T
    BY <2>6
  <2>8. U(m) <= U(j)
    BY <1>2, <1>3, <2>7
  <2> HIDE DEF T
  <2> QED BY <1>0, <2>6, <2>8 DEF x
<1> QED BY <1>3, <1>4

LEMMA RoundedWhole ==
    ASSUME NEW j \in Nat
    PROVE  Rounded(100 * j, 100) = j
<1>1. (100 * j) \div 100 = j /\ (100 * j) % 100 = 0
  OBVIOUS
<1> QED BY <1>1 DEF Rounded

\* The position of a percentile among n members, and the member that stands there.
Position(values, percent) == Rounded(percent * (Count(values) - 1), 100)

LEMMA RankStands ==
    ASSUME NEW values, Populated(values), Count(values) > 0, NEW percent \in {25, 50, 75}
    PROVE  /\ Position(values, percent) \in Nat
           /\ NearestRank(values, percent) \in Int
           /\ Below(values, NearestRank(values, percent)) <= Position(values, percent)
           /\ Position(values, percent)
                < Below(values, NearestRank(values, percent)) + Equal(values, NearestRank(values, percent))
<1> DEFINE j == Count(values) - 1
           k == Position(values, percent)
           P(x) == Below(values, x) <= k /\ k < Below(values, x) + Equal(values, x)
           V == {values[m] : m \in DOMAIN values}
<1>1. Count(values) \in Nat /\ j \in Nat
  BY CountsAreNat
<1>2. percent * j \in Nat /\ 100 * j \in Nat /\ percent * j <= 100 * j
  <2> HIDE DEF j
  <2> QED BY <1>1
<1>3. Rounded(percent * j, 100) \in Nat /\ Rounded(percent * j, 100) <= j
  <2> HIDE DEF j
  <2>1. Rounded(percent * j, 100) \in Nat /\ Rounded(percent * j, 100) <= Rounded(100 * j, 100)
    <3> DEFINE a == percent * j
               c == 100 * j
    <3>1. a \in Nat /\ c \in Nat /\ a <= c
      BY <1>2
    <3> HIDE DEF a, c
    <3>2. Rounded(a, 100) \in Nat /\ Rounded(a, 100) <= Rounded(c, 100)
      BY <3>1, RoundedGrows
    <3> QED BY <3>2 DEF a, c
  <2>2. Rounded(100 * j, 100) = j
    BY <1>1, RoundedWhole
  <2> QED BY <2>1, <2>2
<1>4. k \in Nat /\ k < Count(values)
  BY <1>1, <1>3 DEF Position
<1>5. NearestRank(values, percent) = CHOOSE x \in V : P(x)
  BY <1>1 DEF NearestRank, Position
<1> HIDE DEF k
<1>6. \E x \in V : P(x)
  BY <1>4, OrderStatistic
<1>7. NearestRank(values, percent) \in V /\ P(NearestRank(values, percent))
  <2> HIDE DEF P, V
  <2> QED BY <1>5, <1>6
<1>8. \A x \in V : x \in Int
  BY DEF Populated
<1> QED BY <1>4, <1>7, <1>8 DEF k

\* A lower percentile's member is no higher.
LEMMA RanksGrow ==
    ASSUME NEW values, Populated(values), Count(values) > 0,
           NEW p \in {25, 50, 75}, NEW q \in {25, 50, 75}, p <= q
    PROVE  NearestRank(values, p) <= NearestRank(values, q)
<1> DEFINE x == NearestRank(values, p)
           y == NearestRank(values, q)
           j == Count(values) - 1
<1>1. x \in Int /\ y \in Int
  BY RankStands
<1>2. j \in Nat
  BY CountsAreNat
<1>3. p * j \in Nat /\ q * j \in Nat /\ p * j <= q * j
  <2> HIDE DEF j
  <2> QED BY <1>2
<1>4. Position(values, p) <= Position(values, q) /\ Position(values, p) \in Nat /\ Position(values, q) \in Nat
  <2> HIDE DEF j
  <2>1. Rounded(p * j, 100) \in Nat /\ Rounded(q * j, 100) \in Nat /\ Rounded(p * j, 100) <= Rounded(q * j, 100)
    BY <1>3, RoundedGrows
  <2> QED BY <2>1 DEF Position, j
<1>5. Below(values, x) <= Position(values, p) /\ Position(values, q) < Below(values, y) + Equal(values, y)
  BY RankStands
<1> HIDE DEF x, y, j
<1>6. ASSUME y < x PROVE FALSE
  <2>1. Below(values, y) + Equal(values, y) <= Below(values, x)
    BY <1>1, <1>6, BelowIsAdditive
  <2>2. Below(values, y) \in Nat /\ Equal(values, y) \in Nat /\ Below(values, x) \in Nat
    BY <1>1, CountsAreNat
  <2> QED BY <1>4, <1>5, <2>1, <2>2
<1>7. x <= y
  BY <1>1, <1>6
<1> QED BY <1>7 DEF x, y

\* The median stands in the middle: as many below as above it, but for one.
LEMMA MiddlePosition ==
    ASSUME NEW values, Populated(values), Count(values) > 0
    PROVE  2 * Position(values, 50) \in Count(values) - 2 .. Count(values)
<1> DEFINE j == Count(values) - 1
           q == (50 * j) \div 100
           r == (50 * j) % 100
<1>1. j \in Nat
  BY CountsAreNat
<1> HIDE DEF j
<1>2. q \in Nat /\ r \in 0 .. 99 /\ 50 * j = 100 * q + r
  BY <1>1, Division
<1>3. Rounded(50 * j, 100) \in {q, q + 1} /\ (2 * r < 100 => Rounded(50 * j, 100) = q)
  BY DEF Rounded
<1> HIDE DEF q, r
<1>4. (j = 2 * q /\ r = 0) \/ (j = 2 * q + 1 /\ r = 50)
  BY <1>1, <1>2
<1>5. 2 * Rounded(50 * j, 100) \in j - 1 .. j + 1
  BY <1>1, <1>2, <1>3, <1>4
<1> QED BY <1>1, <1>5, CountsAreNat DEF Position, j

\* What is published of one subject does not contradict itself.
LEMMA PlacedAgrees ==
    ASSUME NEW values, Populated(values), Count(values) > 0, NEW x \in Int
    PROVE  /\ x - Median(values) < 0 => Quartile(values, x) <= 2
           /\ x - Median(values) > 0 => Quartile(values, x) >= 2
           /\ OutlierLow(values, x) => x - Median(values) < 0
<1> DEFINE M == Median(values)
           k == Position(values, 50)
           n == Count(values)
           b == Below(values, x)
           e == Equal(values, x)
<1>1. M \in Int /\ k \in Nat /\ Below(values, M) <= k /\ k < Below(values, M) + Equal(values, M)
  BY RankStands DEF Median
<1>2. 2 * k \in n - 2 .. n
  BY MiddlePosition
<1>3. n \in Nat /\ n > 0 /\ b \in Nat /\ e \in Nat /\ Below(values, M) \in Nat /\ Equal(values, M) \in Nat
  BY <1>1, CountsAreNat
<1>4. Quartile(values, x) = Quarter(2 * (2 * b + e), n)
  BY DEF Quartile, TwiceMidrank
<1>5. ASSUME x < M PROVE Quartile(values, x) <= 2
  <2>1. b + e <= Below(values, M)
    BY <1>1, <1>5, BelowIsAdditive
  <2> HIDE DEF b, e, n, k, M
  <2>2. 2 * (2 * b + e) <= 2 * n
    BY <1>1, <1>2, <1>3, <2>1
  <2> QED BY <1>3, <1>4, <2>2 DEF Quarter
<1>6. ASSUME M < x PROVE Quartile(values, x) >= 2
  <2>1. Below(values, M) + Equal(values, M) <= b
    BY <1>1, <1>6, BelowIsAdditive
  <2> HIDE DEF b, e, n, k, M
  <2>2. 2 * (2 * b + e) > n
    BY <1>1, <1>2, <1>3, <2>1
  <2> QED BY <1>3, <1>4, <2>2 DEF Quarter
<1>7. ASSUME OutlierLow(values, x) PROVE x < M
  <2> DEFINE low == NearestRank(values, 25)
             high == NearestRank(values, 75)
  <2>1. low \in Int /\ high \in Int
    BY RankStands
  <2>2. low <= high /\ low <= M
    BY RanksGrow DEF Median
  <2>3. 2 * x < 2 * low - 3 * (high - low)
    BY <1>7 DEF OutlierLow, Spread
  <2> HIDE DEF low, high, M
  <2> QED BY <1>1, <2>1, <2>2, <2>3
<1> HIDE DEF M
<1>8. (x - M < 0 => x < M) /\ (x - M > 0 => M < x) /\ (x < M => x - M < 0)
  BY <1>1
<1> QED BY <1>5, <1>6, <1>7, <1>8 DEF M

LEMMA PlaceAgrees ==
    ASSUME NEW values, Populated(values), NEW x, IsPosture(x), NEW least \in Nat \ {0},
           Place(x, values, least).quartile # None
    PROVE  LET o == Place(x, values, least)
           IN /\ o.delta < 0 => o.quartile <= 2
              /\ o.delta > 0 => o.quartile >= 2
              /\ o.outlier => o.delta < 0
<1>1. x # None /\ ~(Count(values) < least) /\ Place(x, values, least) = Placed(x, values)
  BY PublishedIsEarned
<1>2. x \in Int /\ Count(values) > 0
  BY <1>1, FS_CardinalityType DEF IsPosture, Populated, Count
<1>3. /\ Placed(x, values).delta = x - Median(values)
      /\ Placed(x, values).quartile = Quartile(values, x)
      /\ Placed(x, values).outlier = OutlierLow(values, x)
  BY DEF Placed
<1> QED BY <1>1, <1>2, <1>3, PlacedAgrees

\* In every stored placement, overall and of each domain, the quartile and the distance from the median
\* tell the same story, and a low outlier is below the median: a matter of a rank against two nearest
\* ranks, over any population.  The rounded percentile is not part of it.
THEOREM HalvesAgreeHolds == Spec => []HalvesAgree
<1>1. IInv => HalvesAgree
  <2> SUFFICES ASSUME IInv, NEW p \in Placement,
                      NEW o \in {p.overall} \cup {p.domains[d].placement : d \in DOMAIN p.domains},
                      o.quartile # None
               PROVE  (o.delta < 0 => o.quartile <= 2) /\ (o.delta > 0 => o.quartile >= 2)
                        /\ (o.outlier => o.delta < 0)
    BY DEF HalvesAgree
  <2>1. PICK s : WorkedOut(p, s) /\ SnapshotOK(s)
    BY OneSnapshot
  <2>2. Populated(s.values) /\ \A d \in DOMAIN s.domains : Populated(s.domains[d])
    BY <2>1, SnapshotIsPopulated
  <2>3. MinQuartile \in Nat \ {0} /\ MinDomain \in Nat \ {0}
    BY ThresholdAssumption DEF ValidThresholds
  <2>4. CASE o = p.overall
    <3> DEFINE x == p.overall.subject
    <3>1. o = Place(x, s.values, MinQuartile) /\ IsPosture(x)
      BY <2>1, <2>4 DEF WorkedOut
    <3> HIDE DEF x
    <3> QED BY <2>2, <2>3, <3>1, PlaceAgrees
  <2>5. CASE \E d \in DOMAIN p.domains : o = p.domains[d].placement
    <3>1. PICK d \in DOMAIN p.domains : o = p.domains[d].placement
      BY <2>5
    <3> DEFINE x == p.domains[d].placement.subject
    <3>2. d \in DOMAIN s.domains /\ p.domains[d] = PlaceDomain(x, s.domains[d]) /\ IsPosture(x)
      BY <2>1 DEF WorkedOut
    <3> HIDE DEF x
    <3>3. o = Place(x, s.domains[d], MinDomain)
      BY <3>1, <3>2 DEF PlaceDomain
    <3> QED BY <2>2, <2>3, <3>2, <3>3, PlaceAgrees
  <2> QED BY <2>4, <2>5
<1> QED BY <1>1, BenchmarkInvariant, PTL

-------------------------------------------------------------------------------
(* The advice on a vendor.  Every table of it is a ladder, and a worse     *)
(* score or one finding more climbs none of them downwards.                *)

LEMMA LadderRanks ==
    /\ \A i \in 1 .. 6 : RankIn(Ladder, Ladder[i]) = i
    /\ \A i \in 1 .. 6 : RankIn(Decisions, Decisions[i]) = i
    /\ \A i \in 1 .. 4 : RankIn(Rechecks, Rechecks[i]) = i
    /\ \A i \in 1 .. 3 : RankIn(ExitAlerts, ExitAlerts[i]) = i
<1>1. \A i \in 1 .. 6 : RankIn(Ladder, Ladder[i]) = i
  BY DEF RankIn, Ladder
<1>2. \A i \in 1 .. 6 : RankIn(Decisions, Decisions[i]) = i
  BY DEF RankIn, Decisions
<1>3. \A i \in 1 .. 4 : RankIn(Rechecks, Rechecks[i]) = i
  BY DEF RankIn, Rechecks
<1>4. \A i \in 1 .. 3 : RankIn(ExitAlerts, ExitAlerts[i]) = i
  BY DEF RankIn, ExitAlerts
<1> QED BY <1>1, <1>2, <1>3, <1>4

\* The rows of the recommendation, a grade at a time.
GradeOrder == <<"A", "B", "C", "D", "F">>

LEMMA GradeFalls ==
    ASSUME NEW x \in Int, NEW y \in Int, y <= x
    PROVE  \E i, j \in 1 .. 5 : Grade(x) = GradeOrder[i] /\ Grade(y) = GradeOrder[j] /\ i <= j
<1> DEFINE Index(p) == IF p >= 85 THEN 1 ELSE IF p >= 70 THEN 2 ELSE IF p >= 50 THEN 3 ELSE IF p >= 30 THEN 4 ELSE 5
<1>1. \A p \in Int : Index(p) \in 1 .. 5 /\ Grade(p) = GradeOrder[Index(p)]
  BY DEF Grade, GradeOrder
<1>2. Index(x) <= Index(y)
  OBVIOUS
<1> HIDE DEF Index
<1> QED BY <1>1, <1>2

DecisionRank(g, thin, high) == CASE g <= 2 -> IF thin THEN 2 ELSE 1
                                 [] g = 3  -> IF high THEN 4 ELSE 3
                                 [] g = 4  -> 5
                                 [] OTHER  -> 6
RecheckRank(g, thin, high) == CASE g <= 2 -> IF thin THEN 3 ELSE 4
                                [] g = 3  -> IF high THEN 1 ELSE 3
                                [] OTHER  -> 1

LEMMA RowIs ==
    ASSUME NEW g \in 1 .. 5, NEW thin, NEW high
    PROVE  /\ DecisionRank(g, thin, high) \in 1 .. 6 /\ RecheckRank(g, thin, high) \in 1 .. 4
           /\ GradeRow(GradeOrder[g], thin, high).decision = Decisions[DecisionRank(g, thin, high)]
           /\ GradeRow(GradeOrder[g], thin, high).recheck = Rechecks[RecheckRank(g, thin, high)]
BY DEF GradeRow, GradeOrder, Advised, Decisions, Rechecks, DecisionRank, RecheckRank

\* The soonest of some labels stands where the least of their ranks does.
LEMMA SoonestIs ==
    ASSUME NEW labels, NEW k \in 1 .. 4, Rechecks[k] \in labels
    PROVE  \E i \in 1 .. 4 : /\ SoonestRecheck(labels) = Rechecks[i] /\ Rechecks[i] \in labels
                             /\ \A j \in 1 .. 4 : Rechecks[j] \in labels => i <= j
<1> DEFINE known == {i \in 1 .. 4 : Rechecks[i] \in labels}
<1>1. known # {} /\ known \subseteq Nat
  OBVIOUS
<1>2. PICK i \in known : \A j \in known : i <= j
  <2> HIDE DEF known
  <2> QED BY <1>1, LeastNatural
<1>3. Min(known) \in known /\ \A j \in known : Min(known) <= j
  <2> HIDE DEF known
  <2> QED BY <1>2 DEF Min
<1>4. SoonestRecheck(labels) = Rechecks[Min(known)]
  BY <1>1 DEF SoonestRecheck
<1> QED BY <1>3, <1>4

LEMMA SoonerOfMore ==
    ASSUME NEW L, NEW M, NEW k \in 1 .. 4, Rechecks[k] \in L,
           \A i \in 1 .. 4 : Rechecks[i] \in L => \E j \in 1 .. i : Rechecks[j] \in M
    PROVE  RankIn(Rechecks, SoonestRecheck(M)) <= RankIn(Rechecks, SoonestRecheck(L))
<1>1. PICK a \in 1 .. 4 : /\ SoonestRecheck(L) = Rechecks[a] /\ Rechecks[a] \in L
                          /\ \A j \in 1 .. 4 : Rechecks[j] \in L => a <= j
  BY SoonestIs
<1>2. PICK b \in 1 .. a : Rechecks[b] \in M
  BY <1>1
<1>3. PICK c \in 1 .. 4 : SoonestRecheck(M) = Rechecks[c] /\ \A j \in 1 .. 4 : Rechecks[j] \in M => c <= j
  BY <1>2, SoonestIs
<1>4. c <= a
  BY <1>2, <1>3
<1> QED BY <1>1, <1>3, <1>4, LadderRanks

\* One score is no better than another in anything the advice reads.
Weaker(s, t) == /\ s.posture \in Int /\ t.posture \in Int
                /\ s.thin \in BOOLEAN /\ t.thin \in BOOLEAN /\ s.ceiling \in BOOLEAN /\ t.ceiling \in BOOLEAN
                /\ NoBetter(s, t)

LEMMA NoneIsNeither == None \notin Int /\ \A i \in 1 .. 4 : Rechecks[i] # None
BY BookAssumption

LEMMA ChangeFalls ==
    ASSUME NEW x \in Int, NEW y \in Int, y <= x, NEW expected \in Int \cup {None},
           Change(x, expected) # None, Change(x, expected) <= MaterialGap
    PROVE  Change(y, expected) # None /\ Change(y, expected) <= MaterialGap
<1>1. expected \in Int /\ Change(x, expected) = x - expected
  BY NoneIsNeither DEF Change
<1>2. Change(y, expected) = y - expected /\ y - expected \in Int
  BY NoneIsNeither, <1>1 DEF Change
<1> QED BY NoneIsNeither, <1>1, <1>2 DEF MaterialGap

LEMMA RecommendHardens ==
    ASSUME NEW s, NEW t, Weaker(s, t), NEW criticality, NEW L, NEW M, L \subseteq M,
           NEW expected \in Int \cup {None}
    PROVE  LET before == Recommend(s, criticality, SoonestRecheck(L), Change(s.posture, expected))
               after == Recommend(t, criticality, SoonestRecheck(M), Change(t.posture, expected))
           IN /\ RankIn(Decisions, after.decision) >= RankIn(Decisions, before.decision)
              /\ RankIn(Rechecks, after.recheck) <= RankIn(Rechecks, before.recheck)
<1> DEFINE high == criticality = "high"
           label == IF high THEN "14d" ELSE "30d"
           Row(x) == GradeRow(Grade(x.posture), x.thin, high)
           Late(x) == {g \in {Change(x.posture, expected)} : g # None /\ g <= MaterialGap}
           Clocks(x, N) == {Row(x).recheck, SoonestRecheck(N)} \cup {r \in {"7d"} : x.ceiling}
                             \cup {label : g \in Late(x)}
<1>1. PICK i \in 1 .. 5, j \in 1 .. 5 :
        Grade(s.posture) = GradeOrder[i] /\ Grade(t.posture) = GradeOrder[j] /\ i <= j
  BY GradeFalls DEF Weaker, NoBetter
<1> DEFINE c == DecisionRank(i, s.thin, high)
           d == DecisionRank(j, t.thin, high)
           k == RecheckRank(i, s.thin, high)
           l == RecheckRank(j, t.thin, high)
<1>2. /\ c \in 1 .. 6 /\ d \in 1 .. 6 /\ k \in 1 .. 4 /\ l \in 1 .. 4
      /\ Row(s).decision = Decisions[c] /\ Row(t).decision = Decisions[d] /\ c <= d
      /\ Row(s).recheck = Rechecks[k] /\ Row(t).recheck = Rechecks[l] /\ l <= k
  <2>1. s.thin => t.thin
    BY DEF Weaker, NoBetter
  <2>2. c <= d /\ l <= k
    BY <1>1, <2>1 DEF DecisionRank, RecheckRank
  <2> HIDE DEF high
  <2>3. c \in 1 .. 6 /\ k \in 1 .. 4 /\ Row(s).decision = Decisions[c] /\ Row(s).recheck = Rechecks[k]
    BY <1>1, RowIs
  <2>4. d \in 1 .. 6 /\ l \in 1 .. 4 /\ Row(t).decision = Decisions[d] /\ Row(t).recheck = Rechecks[l]
    BY <1>1, RowIs
  <2> QED BY <2>2, <2>3, <2>4
<1> HIDE DEF c, d, k, l
<1>3. ASSUME NEW x \in {s, t}, NEW N
      PROVE  LET r == Recommend(x, criticality, SoonestRecheck(N), Change(x.posture, expected))
             IN r.decision = Row(x).decision /\ r.recheck = SoonestRecheck(Clocks(x, N))
  <2>1. x.standing = "published"
    BY DEF Weaker, NoBetter
  <2>2. Row(x) = [decision |-> Row(x).decision, urgency |-> Row(x).urgency, recheck |-> Row(x).recheck]
    BY DEF GradeRow, Advised
  <2> HIDE DEF Row
  <2> QED BY <2>1, <2>2 DEF Recommend, Row
<1>4. ASSUME NEW a \in 1 .. 4, Rechecks[a] \in Clocks(s, L)
      PROVE  \E b \in 1 .. a : Rechecks[b] \in Clocks(t, M)
  <2>1. CASE Rechecks[a] = Row(s).recheck
    <3>1. a = k
      BY <1>2, <2>1, LadderRanks
    <3>2. l \in 1 .. a /\ Rechecks[l] \in Clocks(t, M)
      BY <1>2, <3>1
    <3> QED BY <3>2
  <2>2. CASE Rechecks[a] = SoonestRecheck(L)
    <3>1. \E m \in 1 .. 4 : Rechecks[m] \in L
      <4>1. Rechecks[a] # None
        BY NoneIsNeither
      <4> QED BY <2>2, <4>1 DEF SoonestRecheck
    <3>2. PICK m \in 1 .. 4 : SoonestRecheck(L) = Rechecks[m] /\ Rechecks[m] \in L
      BY <3>1, SoonestIs
    <3>3. a = m
      BY <2>2, <3>2, LadderRanks
    <3>4. PICK b \in 1 .. 4 : SoonestRecheck(M) = Rechecks[b] /\ \A n \in 1 .. 4 : Rechecks[n] \in M => b <= n
      BY <3>2, SoonestIs
    <3>5. b \in 1 .. a
      BY <3>2, <3>3, <3>4
    <3> QED BY <3>4, <3>5
  <2>3. CASE Rechecks[a] \in {r \in {"7d"} : s.ceiling}
    <3>1. Rechecks[a] \in {r \in {"7d"} : t.ceiling}
      BY <2>3 DEF Weaker, NoBetter
    <3> QED BY <3>1
  <2>4. CASE Rechecks[a] \in {label : g \in Late(s)}
    <3>1. Late(s) # {} /\ Rechecks[a] = label
      BY <2>4
    <3>2. Change(t.posture, expected) # None /\ Change(t.posture, expected) <= MaterialGap
      BY <3>1, ChangeFalls DEF Weaker, NoBetter
    <3>3. Rechecks[a] \in {label : g \in Late(t)}
      BY <3>1, <3>2
    <3> QED BY <3>3
  <2> QED BY <1>4, <2>1, <2>2, <2>3, <2>4
<1>5. Rechecks[k] \in Clocks(s, L)
  BY <1>2
<1> HIDE DEF Clocks, Row
<1>6. RankIn(Rechecks, SoonestRecheck(Clocks(t, M))) <= RankIn(Rechecks, SoonestRecheck(Clocks(s, L)))
  <2> DEFINE A == Clocks(s, L)
             B == Clocks(t, M)
  <2>1. k \in 1 .. 4 /\ Rechecks[k] \in A
    BY <1>2, <1>5
  <2>2. \A a \in 1 .. 4 : Rechecks[a] \in A => \E b \in 1 .. a : Rechecks[b] \in B
    BY <1>4
  <2> HIDE DEF A, B
  <2>3. RankIn(Rechecks, SoonestRecheck(B)) <= RankIn(Rechecks, SoonestRecheck(A))
    BY <2>1, <2>2, SoonerOfMore
  <2> QED BY <2>3 DEF A, B
<1>7. RankIn(Decisions, Row(s).decision) = c /\ RankIn(Decisions, Row(t).decision) = d
  BY <1>2, LadderRanks
<1> QED BY <1>2, <1>3, <1>6, <1>7

-------------------------------------------------------------------------------
(* The residual tier and the exit alert, by the band of the posture. *)

BandOrder == <<"strong", "moderate", "weak", "poor">>

LEMMA BandFalls ==
    ASSUME NEW x \in Int, NEW y \in Int, y <= x
    PROVE  \E a, b \in 1 .. 4 : PostureBand(x) = BandOrder[a] /\ PostureBand(y) = BandOrder[b] /\ a <= b
<1> DEFINE Index(p) == IF p >= 80 THEN 1 ELSE IF p >= 60 THEN 2 ELSE IF p >= 40 THEN 3 ELSE 4
<1>1. \A p \in Int : Index(p) \in 1 .. 4 /\ PostureBand(p) = BandOrder[Index(p)]
  BY DEF PostureBand, BandOrder
<1>2. Index(x) <= Index(y)
  OBVIOUS
<1> HIDE DEF Index
<1> QED BY <1>1, <1>2

\* The published matrix in ranks of the ladder.
MatrixRanks(young) ==
    IF young THEN << <<2, 3, 4, 5>>, <<3, 4, 5, 5>>, <<4, 5, 6, 6>>, <<5, 5, 6, 6>> >>
    ELSE << <<1, 2, 3, 4>>, <<2, 3, 5, 5>>, <<3, 5, 5, 6>>, <<4, 5, 6, 6>> >>

LEMMA MatrixIs ==
    ASSUME NEW age, NEW a \in 1 .. 4, NEW n \in 1 .. 4
    PROVE  LET r == MatrixRanks(age \in {"startup", "young"})[a][n]
           IN r \in 1 .. 6 /\ Matrix(age)[BandOrder[a]][n] = Ladder[r]
BY DEF Matrix, MatrixRanks, Residual, ResidualYoung, BandOrder, Ladder

LEMMA MatrixRises ==
    ASSUME NEW young, NEW a \in 1 .. 4, NEW b \in 1 .. 4, a <= b, NEW n \in 1 .. 4
    PROVE  MatrixRanks(young)[a][n] <= MatrixRanks(young)[b][n]
BY DEF MatrixRanks

LEMMA InherentIsTier ==
    ASSUME NEW criticality, NEW scope, NEW age, InherentTier(criticality, scope, age) # None
    PROVE  RankIn(Tiers, InherentTier(criticality, scope, age)) \in 1 .. 4
<1> DEFINE ranks == ExposureRanks(criticality, scope)
           n == 1 + Clamped(Max(ranks) + AgeAdjustment(age))
<1>1. ranks # {} /\ InherentTier(criticality, scope, age) = Tiers[n]
  BY DEF InherentTier
<1>2. ranks \subseteq 0 .. 3
  BY DEF ExposureRanks, CriticalityRank, ScopeRank
<1>3. Max(ranks) \in 0 .. 3
  <2> HIDE DEF ranks
  <2>1. \E x \in ranks : \A y \in ranks : y <= x
    <3>1. \A y \in ranks : y \in {0, 1, 2, 3}
      BY <1>2
    <3>2. CASE 3 \in ranks
      BY <3>1, <3>2
    <3>3. CASE 3 \notin ranks /\ 2 \in ranks
      BY <3>1, <3>3
    <3>4. CASE 3 \notin ranks /\ 2 \notin ranks /\ 1 \in ranks
      BY <3>1, <3>4
    <3>5. CASE 3 \notin ranks /\ 2 \notin ranks /\ 1 \notin ranks
      <4>1. ranks = {0}
        BY <1>1, <3>1, <3>5
      <4> QED BY <4>1
    <3> QED BY <3>2, <3>3, <3>4, <3>5
  <2>2. Max(ranks) \in ranks
    BY <2>1 DEF Max
  <2> QED BY <1>2, <2>2
<1>4. \A i \in Int : Clamped(i) \in 0 .. 3
  BY DEF Clamped, Max, Min, Tiers
<1>5. n \in 1 .. 4
  BY <1>3, <1>4 DEF AgeAdjustment
<1> HIDE DEF n
<1>6. \A i \in 1 .. 4 : RankIn(Tiers, Tiers[i]) = i
  BY DEF RankIn, Tiers
<1> QED BY <1>1, <1>5, <1>6

LEMMA EscalatedRises ==
    ASSUME NEW p \in 1 .. 6, NEW q \in 1 .. 6, p <= q, NEW substitutability
    PROVE  RankIn(Ladder, Escalated(Ladder[p], substitutability))
             <= RankIn(Ladder, Escalated(Ladder[q], substitutability))
<1>1. \A i \in 1 .. 6 : Escalated(Ladder[i], substitutability)
                          = Ladder[IF substitutability = "sole_source" /\ i < 6 THEN i + 1 ELSE i]
  <2>1. \A i \in 1 .. 6 : Ladder[i] = "critical" <=> i = 6
    BY DEF Ladder
  <2> QED BY <2>1, LadderRanks DEF Escalated
<1> QED BY <1>1, LadderRanks

LEMMA ResidualRises ==
    ASSUME NEW s, NEW t, Weaker(s, t), NEW criticality, NEW scope, NEW substitutability, NEW age,
           ResidualTier(s.standing, s.posture, criticality, scope, substitutability, age) # None
    PROVE  RankIn(Ladder, ResidualTier(t.standing, t.posture, criticality, scope, substitutability, age))
             >= RankIn(Ladder, ResidualTier(s.standing, s.posture, criticality, scope, substitutability, age))
<1> DEFINE tier == InherentTier(criticality, scope, age)
           n == RankIn(Tiers, tier)
           At(x) == Matrix(age)[PostureBand(x.posture)][n]
           young == age \in {"startup", "young"}
<1>1. s.standing = "published" /\ t.standing = "published" /\ s.posture # None /\ t.posture # None
  BY NoneIsNeither DEF Weaker, NoBetter
<1>2. tier # None
  BY <1>1 DEF ResidualTier
<1>3. n \in 1 .. 4
  BY <1>2, InherentIsTier
<1>4. /\ ResidualTier(s.standing, s.posture, criticality, scope, substitutability, age)
           = Escalated(At(s), substitutability)
      /\ ResidualTier(t.standing, t.posture, criticality, scope, substitutability, age)
           = Escalated(At(t), substitutability)
  BY <1>1, <1>2 DEF ResidualTier
<1>5. PICK a \in 1 .. 4, b \in 1 .. 4 :
        PostureBand(s.posture) = BandOrder[a] /\ PostureBand(t.posture) = BandOrder[b] /\ a <= b
  BY BandFalls DEF Weaker, NoBetter
<1> DEFINE p == MatrixRanks(young)[a][n]
           q == MatrixRanks(young)[b][n]
<1> HIDE DEF n
<1>6. p \in 1 .. 6 /\ At(s) = Ladder[p]
  BY <1>3, <1>5, MatrixIs
<1>7. q \in 1 .. 6 /\ At(t) = Ladder[q]
  BY <1>3, <1>5, MatrixIs
<1>8. p <= q
  BY <1>3, <1>5, MatrixRises
<1> HIDE DEF p, q
<1>9. RankIn(Ladder, Escalated(Ladder[p], substitutability)) <= RankIn(Ladder, Escalated(Ladder[q], substitutability))
  BY <1>6, <1>7, <1>8, EscalatedRises
<1>10. \A i \in 1 .. 6 : RankIn(Ladder, Escalated(Ladder[i], substitutability)) \in Int
  <2>1. \A i \in 1 .. 6 : Escalated(Ladder[i], substitutability) \in {Ladder[j] : j \in 1 .. 6}
    <3>1. \A i \in 1 .. 6 : Ladder[i] = "critical" <=> i = 6
      BY DEF Ladder
    <3> QED BY <3>1, LadderRanks DEF Escalated
  <2> QED BY <2>1, LadderRanks
<1> QED BY <1>4, <1>6, <1>7, <1>9, <1>10

LEMMA AlertRises ==
    ASSUME NEW s, NEW t, Weaker(s, t), NEW substitutability
    PROVE  RankIn(ExitAlerts, ExitAlert(t, substitutability)) >= RankIn(ExitAlerts, ExitAlert(s, substitutability))
<1> DEFINE A(x) == IF substitutability # "sole_source" THEN 1
                   ELSE IF PostureBand(x.posture) = "poor" THEN 3
                   ELSE IF PostureBand(x.posture) = "weak" THEN 2 ELSE 1
<1>1. PICK a \in 1 .. 4, b \in 1 .. 4 :
        PostureBand(s.posture) = BandOrder[a] /\ PostureBand(t.posture) = BandOrder[b] /\ a <= b
  BY BandFalls DEF Weaker, NoBetter
<1>2. A(s) <= A(t) /\ A(s) \in 1 .. 3 /\ A(t) \in 1 .. 3
  BY <1>1 DEF BandOrder
<1>3. ExitAlert(s, substitutability) = ExitAlerts[A(s)] /\ ExitAlert(t, substitutability) = ExitAlerts[A(t)]
  BY DEF ExitAlert, ExitAlerts, Weaker, NoBetter
<1> HIDE DEF A
<1> QED BY <1>2, <1>3, LadderRanks

\* More findings only add drafting points and gaps.
LEMMA PointsStay ==
    ASSUME NEW s, NEW t, Weaker(s, t), NEW found, NEW more, found \subseteq more, NEW substitutability
    PROVE  FlowDowns(found, s, FALSE, substitutability) \subseteq FlowDowns(more, t, FALSE, substitutability)
<1>1. s.thin = TRUE => t.thin = TRUE
  BY DEF Weaker, NoBetter
<1>2. Flagged(found) \subseteq Flagged(more)
  BY DEF Flagged
<1> QED BY <1>1, <1>2 DEF FlowDowns

LEMMA GapsStay ==
    ASSUME NEW found, NEW more, found \subseteq more, NEW sector, NEW claims
    PROVE  ComplianceGaps(found, sector, claims) \subseteq ComplianceGaps(more, sector, claims)
<1>1. \A framework : Applies(framework, found, sector, claims) => Applies(framework, more, sector, claims)
  BY DEF Applies
<1> QED BY <1>1 DEF ComplianceGaps

-------------------------------------------------------------------------------
(* The peers the expectation is taken from. *)

LEMMA RungsAreSequence ==
    ASSUME NEW firm
    PROVE  \E n \in Nat : DOMAIN Rungs(firm) = 1 .. n
<1> DEFINE usable == {i \in DOMAIN CohortLadder : CohortLadder[i] \subseteq DOMAIN Available(firm)}
<1>1. CohortLadder \in Seq(SUBSET Dimensions)
  BY ConfigAssumption DEF ValidLadder
<1>2. DOMAIN CohortLadder = 1 .. Len(CohortLadder) /\ Len(CohortLadder) \in Nat
  BY <1>1
<1>3. IsFiniteSet(DOMAIN CohortLadder)
  BY <1>2, FS_Interval
<1>4. Cardinality(usable) \in Nat
  <2>1. usable \subseteq DOMAIN CohortLadder
    OBVIOUS
  <2> HIDE DEF usable
  <2> QED BY <1>3, <2>1, FS_Subset, FS_CardinalityType
<1> QED BY <1>4 DEF Rungs

\* The walk ends on one of the rungs it counted, if there were any.
LEMMA AssignedIsCounted ==
    ASSUME NEW n \in Nat, NEW counts \in [1 .. n -> Nat], NEW most \in Nat,
           \A i \in 1 .. n : counts[i] <= most, Assigned(counts) # None
    PROVE  Assigned(counts) \in 1 .. n
<1> DEFINE enough == {i \in DOMAIN counts : counts[i] >= MinQuartile}
           fullest == {i \in DOMAIN counts : \A j \in DOMAIN counts : counts[j] <= counts[i]}
           S == IF enough # {} THEN enough ELSE fullest
           Lacking == {most - counts[i] : i \in DOMAIN counts}
<1>1. counts # <<>> /\ Assigned(counts) = CHOOSE i \in S : \A j \in S : i <= j
  BY DEF Assigned
<1>2. DOMAIN counts # {}
  <2>1. counts \in Seq(Nat) /\ Len(counts) = n
    OBVIOUS
  <2>2. n # 0
    BY <1>1, <2>1, EmptySeq
  <2> QED BY <2>2
<1>3. fullest # {}
  <2>1. Lacking # {} /\ Lacking \subseteq Nat
    BY <1>2
  <2>2. PICK u \in Lacking : \A w \in Lacking : u <= w
    <3> HIDE DEF Lacking
    <3> QED BY <2>1, LeastNatural
  <2>3. PICK i \in DOMAIN counts : u = most - counts[i]
    OBVIOUS
  <2>4. ASSUME NEW j \in DOMAIN counts PROVE counts[j] <= counts[i]
    <3>1. u <= most - counts[j]
      BY <2>2
    <3> QED BY <2>3, <3>1
  <2> QED BY <2>3, <2>4
<1>4. S # {} /\ S \subseteq Nat /\ S \subseteq 1 .. n
  BY <1>3
<1>5. PICK i \in S : \A j \in S : i <= j
  <2> HIDE DEF S
  <2> QED BY <1>4, LeastNatural
<1> HIDE DEF S
<1> QED BY <1>1, <1>4, <1>5

LEMMA PopulationIsScored ==
    ASSUME BookOK, NEW v
    PROVE  IsFiniteSet(Population(v)) /\ \A p \in Population(v) : score[p].posture \in Int
<1> DEFINE rungs == Rungs(rows[v].firm)
           among == [i \in DOMAIN rungs |-> Peers(v, CohortOn(rungs[i], rows[v].firm))]
           counts == [i \in DOMAIN rungs |-> Cardinality(among[i])]
           on == Assigned(counts)
<1>1. Population(v) = IF on = None THEN {} ELSE among[on]
  BY DEF Population
<1>2. PICK n \in Nat : DOMAIN rungs = 1 .. n
  BY RungsAreSequence
<1>3. ASSUME NEW i \in 1 .. n
      PROVE  /\ IsFiniteSet(among[i]) /\ Cardinality(among[i]) \in Nat
             /\ Cardinality(among[i]) <= Cardinality(Vendors)
             /\ \A p \in among[i] : score[p].posture \in Int
  <2> DEFINE peers == Peers(v, CohortOn(rungs[i], rows[v].firm))
  <2>1. peers \subseteq Vendors /\ \A p \in peers : score[p].posture \in Int
    BY PeersAreOthers
  <2>2. among[i] = peers
    BY <1>2
  <2> HIDE DEF peers, among
  <2>3. IsFiniteSet(peers) /\ Cardinality(peers) <= Cardinality(Vendors)
    BY <2>1, BookAssumption, FS_Subset
  <2> QED BY <2>1, <2>2, <2>3, FS_CardinalityType
<1>4. counts \in [1 .. n -> Nat] /\ \A i \in 1 .. n : counts[i] <= Cardinality(Vendors)
  <2> HIDE DEF among, rungs
  <2> QED BY <1>2, <1>3
<1>5. Cardinality(Vendors) \in Nat
  BY BookAssumption, FS_CardinalityType
<1> HIDE DEF among, counts, on
<1>6. on # None => on \in 1 .. n
  BY <1>4, <1>5, AssignedIsCounted DEF on
<1> QED BY <1>1, <1>3, <1>6, FS_EmptySet

LEMMA ExpectedIsNumber ==
    ASSUME BookOK, NEW v
    PROVE  ExpectedOf(v) \in Int \cup {None}
<1> DEFINE among == Population(v)
           values == [p \in among |-> score[p].posture]
<1>1. ExpectedOf(v) = IF Cardinality(among) < MinQuartile THEN None ELSE Median(values)
  BY DEF ExpectedOf
<1>2. Populated(values) /\ Count(values) = Cardinality(among)
  BY PopulationIsScored DEF Populated, Count
<1>3. Count(values) \in Nat
  BY <1>2, FS_CardinalityType DEF Populated, Count
<1>4. ASSUME ~(Cardinality(among) < MinQuartile) PROVE Median(values) \in Int
  <2>1. Count(values) > 0
    BY <1>2, <1>3, <1>4, ThresholdAssumption DEF ValidThresholds
  <2> HIDE DEF values, among
  <2> QED BY <1>2, <2>1, RankStands DEF Median
<1> QED BY <1>1, <1>4

LEMMA AdviceHardens ==
    ASSUME NEW v, NEW s, NEW t, Weaker(s, t), NEW found, NEW more, found \subseteq more,
           NEW expected \in Int \cup {None}
    PROVE  NoSofter(AdviceOn(v, t, more, expected), AdviceOn(v, s, found, expected))
<1> DEFINE L == {RecheckOf[f] : f \in ChargedOf(found)}
           M == {RecheckOf[f] : f \in ChargedOf(more)}
           criticality == Declared[v].criticality
           substitutability == Declared[v].substitutability
           before == AdviceOn(v, s, found, expected)
           after == AdviceOn(v, t, more, expected)
<1>1. L \subseteq M
  BY DEF ChargedOf
<1>2. /\ before.next = Recommend(s, criticality, SoonestRecheck(L), Change(s.posture, expected))
      /\ after.next = Recommend(t, criticality, SoonestRecheck(M), Change(t.posture, expected))
  BY DEF AdviceOn
<1>3. /\ RankIn(Decisions, after.next.decision) >= RankIn(Decisions, before.next.decision)
      /\ RankIn(Rechecks, after.next.recheck) <= RankIn(Rechecks, before.next.recheck)
  <2> HIDE DEF L, M, criticality, before, after
  <2> QED BY <1>1, <1>2, RecommendHardens
<1>4. before.residual # None => RankIn(Ladder, after.residual) >= RankIn(Ladder, before.residual)
  <2> DEFINE scope == rows[v].firm.scope
  <2>1. /\ before.residual = ResidualTier(s.standing, s.posture, criticality, scope, substitutability, None)
        /\ after.residual = ResidualTier(t.standing, t.posture, criticality, scope, substitutability, None)
    BY DEF AdviceOn
  <2> HIDE DEF criticality, substitutability, scope, before, after
  <2> QED BY <2>1, ResidualRises
<1>5. RankIn(ExitAlerts, after.exit) >= RankIn(ExitAlerts, before.exit)
  <2>1. before.exit = ExitAlert(s, substitutability) /\ after.exit = ExitAlert(t, substitutability)
    BY DEF AdviceOn
  <2> HIDE DEF substitutability, before, after
  <2> QED BY <2>1, AlertRises
<1>6. before.points \subseteq after.points
  <2>1. /\ before.points = FlowDowns(found, s, FALSE, substitutability)
        /\ after.points = FlowDowns(more, t, FALSE, substitutability)
    BY DEF AdviceOn
  <2> HIDE DEF substitutability, before, after
  <2>2. FlowDowns(found, s, FALSE, substitutability) \subseteq FlowDowns(more, t, FALSE, substitutability)
    BY PointsStay, Zenon
  <2> QED BY <2>1, <2>2
<1>7. before.gaps \subseteq after.gaps
  <2>1. /\ before.gaps = ComplianceGaps(found, rows[v].sector, DOMAIN Frameworks)
        /\ after.gaps = ComplianceGaps(more, rows[v].sector, DOMAIN Frameworks)
    BY DEF AdviceOn
  <2> HIDE DEF before, after
  <2> QED BY <2>1, GapsStay
<1> QED BY <1>3, <1>4, <1>5, <1>6, <1>7 DEF NoSofter

\* When a vendor's next rows are no better in anything, no piece of advice on it is softer, whatever
\* the frameworks, the declarations, the peers and what else has been re-scored.
THEOREM WorseNeverSofterHolds == Spec => WorseNeverSofter
<1>1. ASSUME BookOK, BookOK', NEW v \in Subjects, NoBetter(score[v], score'[v]),
             Found(v) \subseteq runs'[v][Len(runs'[v])]
      PROVE  NoSofter(AdviceOn(v, score'[v], runs'[v][Len(runs'[v])], ExpectedOf(v)),
                      AdviceOn(v, score[v], Found(v), ExpectedOf(v)))
  <2>1. score[v] \in AllScores /\ score'[v] \in AllScores
    BY <1>1, BookAssumption DEF BookOK
  <2>2. Weaker(score[v], score'[v])
    BY <1>1, <2>1, BookAssumption DEF Weaker, NoBetter
  <2>3. ExpectedOf(v) \in Int \cup {None}
    BY <1>1, ExpectedIsNumber
  <2> QED BY <1>1, <2>2, <2>3, AdviceHardens
<1>2. IInv /\ IInv' => [\A v \in Subjects :
         (/\ score'[v] # score[v] \/ runs'[v] # runs[v]
          /\ NoBetter(score[v], score'[v])
          /\ Found(v) \subseteq runs'[v][Len(runs'[v])])
         => \A expected \in {ExpectedOf(v)} :
              \A before \in {AdviceOn(v, score[v], Found(v), expected)},
                 after \in {AdviceOn(v, score'[v], runs'[v][Len(runs'[v])], expected)} :
                NoSofter(after, before)]_vars
  BY <1>1 DEF IInv
<1> QED BY <1>2, BenchmarkInvariant, PTL DEF Spec, WorseNeverSofter

-------------------------------------------------------------------------------
(* The written analysis.  Its ids were read from one run, and runs are only appended. *)

CitesOneRun(kept, v, cites) == \E i \in DOMAIN kept[v] : cites \subseteq Receipts(v, i, ChargedOf(kept[v][i]))

Conclusions == Evidence \cup {Opening[v].found : v \in Vendors}
RunsOK == runs \in [Vendors -> Seq(Conclusions)] /\ \A v \in Vendors : Len(runs[v]) > 0
AskingOK == /\ call.at = "context" => call.vendor \in Vendors
            /\ asking # None => asking.vendor \in Vendors /\ CitesOneRun(runs, asking.vendor, asking.ids)
AnalysesOK == \A a \in analyses : a.vendor \in Vendors /\ (a.listed => CitesOneRun(runs, a.vendor, a.cites))
AnalysisInv == RunsOK /\ AskingOK /\ AnalysesOK

\* What was read of a run stays readable when another is appended.
LEMMA RunsGrow ==
    ASSUME RunsOK, SweepFindings
    PROVE  /\ RunsOK'
           /\ \A v \in Vendors : \A i \in DOMAIN runs[v] : i \in DOMAIN runs'[v] /\ runs'[v][i] = runs[v][i]
<1>1. PICK found \in Evidence : runs' = [runs EXCEPT ![sweep.vendor] = Append(@, found)]
  BY DEF SweepFindings
<1>2. found \in Conclusions
  BY DEF Conclusions
<1>3. ASSUME NEW v \in Vendors
      PROVE  /\ runs'[v] \in Seq(Conclusions) /\ Len(runs'[v]) > 0
             /\ \A i \in DOMAIN runs[v] : i \in DOMAIN runs'[v] /\ runs'[v][i] = runs[v][i]
  <2>1. runs[v] \in Seq(Conclusions) /\ Len(runs[v]) > 0
    BY DEF RunsOK
  <2>2. runs'[v] = IF v = sweep.vendor THEN Append(runs[v], found) ELSE runs[v]
    BY <1>1 DEF RunsOK
  <2>3. /\ Append(runs[v], found) \in Seq(Conclusions) /\ Len(Append(runs[v], found)) = Len(runs[v]) + 1
        /\ \A i \in 1 .. Len(runs[v]) : Append(runs[v], found)[i] = runs[v][i]
    BY <1>2, <2>1, AppendProperties
  <2>4. Len(runs[v]) \in Nat /\ DOMAIN runs[v] = 1 .. Len(runs[v])
        /\ DOMAIN Append(runs[v], found) = 1 .. Len(runs[v]) + 1
    BY <2>1, <2>3, LenProperties
  <2> QED BY <2>1, <2>2, <2>3, <2>4
<1>4. runs' \in [Vendors -> Seq(Conclusions)]
  <2>1. DOMAIN runs' = Vendors
    BY <1>1 DEF RunsOK
  <2>2. runs' = [v \in Vendors |-> runs'[v]]
    BY <1>1, <2>1 DEF RunsOK
  <2> QED BY <1>3, <2>2
<1> QED BY <1>3, <1>4 DEF RunsOK

LEMMA CitationsStay ==
    ASSUME RunsOK, UNCHANGED runs \/ SweepFindings, NEW v \in Vendors, NEW cites, CitesOneRun(runs, v, cites)
    PROVE  CitesOneRun(runs', v, cites)
<1>1. PICK i \in DOMAIN runs[v] : cites \subseteq Receipts(v, i, ChargedOf(runs[v][i]))
  BY DEF CitesOneRun
<1>2. i \in DOMAIN runs'[v] /\ runs'[v][i] = runs[v][i]
  BY RunsGrow
<1> QED BY <1>1, <1>2 DEF CitesOneRun

LEMMA RunsStayOK == RunsOK /\ (UNCHANGED runs \/ SweepFindings) => RunsOK'
BY RunsGrow DEF RunsOK

\* Steps that leave the analyses and the question alone.
LEMMA AnalysisElsewhere ==
    ASSUME AnalysisInv, UNCHANGED <<asking, analyses>>, UNCHANGED runs \/ SweepFindings,
           call'.at = "context" => call'.vendor \in Vendors
    PROVE  AnalysisInv'
<1>1. RunsOK'
  BY RunsStayOK DEF AnalysisInv
<1>2. AskingOK'
  BY CitationsStay DEF AnalysisInv, AskingOK
<1>3. AnalysesOK'
  BY CitationsStay DEF AnalysisInv, AnalysesOK
<1> QED BY <1>1, <1>2, <1>3 DEF AnalysisInv

LEMMA AnalysisStep ==
    ASSUME AnalysisInv, Analysis \/ ApiDies
    PROVE  AnalysisInv'
<1>1. UNCHANGED runs /\ RunsOK'
  BY RunsStayOK DEF AnalysisInv, Analysis, AnalysisGate, AnalysisContext, ProviderFails, ProviderAnswers, ApiDies, book
<1>2. CASE AnalysisGate
  BY <1>1, <1>2, AnalysisElsewhere, BookAssumption DEF AnalysisGate
<1>3. CASE AnalysisContext
  <2>1. call.vendor \in Vendors
    BY <1>3 DEF AnalysisContext, AnalysisInv, AskingOK
  <2>2. /\ asking' = [vendor |-> call.vendor, run |-> Len(runs[call.vendor]), left |-> Chain,
                      ids |-> Receipts(call.vendor, Len(runs[call.vendor]), ChargedOf(Found(call.vendor)))]
        /\ call'.at = "idle" /\ UNCHANGED analyses
    BY <1>3 DEF AnalysisContext, Idle
  <2>3. Len(runs[call.vendor]) \in DOMAIN runs[call.vendor]
    BY <2>1, LenProperties DEF AnalysisInv, RunsOK
  <2>4. CitesOneRun(runs', asking'.vendor, asking'.ids)
    BY <1>1, <2>2, <2>3 DEF CitesOneRun, Found
  <2>5. AskingOK'
    BY <2>1, <2>2, <2>4 DEF AskingOK
  <2>6. AnalysesOK'
    BY <1>1, <2>2 DEF AnalysisInv, AnalysesOK
  <2> QED BY <1>1, <2>5, <2>6 DEF AnalysisInv
<1>4. CASE ProviderFails
  <2>1. call.at # "context" /\ UNCHANGED <<call, analyses>>
    BY <1>4 DEF ProviderFails, Idle
  <2>2. asking' = None \/ (asking # None /\ asking'.vendor = asking.vendor /\ asking'.ids = asking.ids)
    <3>1. CASE asking.left > 1
      BY <1>4, <3>1 DEF ProviderFails
    <3>2. CASE ~(asking.left > 1)
      BY <1>4, <3>2 DEF ProviderFails
    <3> QED BY <3>1, <3>2
  <2>3. AskingOK'
    BY <1>1, <2>1, <2>2 DEF AnalysisInv, AskingOK
  <2>4. AnalysesOK'
    BY <1>1, <2>1 DEF AnalysisInv, AnalysesOK
  <2> QED BY <1>1, <2>3, <2>4 DEF AnalysisInv
<1>5. CASE ProviderAnswers
  <2>1. PICK listed, cites :
          analyses' = analyses \cup {[vendor |-> asking.vendor, listed |-> listed,
                                     cites |-> Kept(listed, cites, asking.ids)]}
    BY <1>5 DEF ProviderAnswers
  <2>2. asking # None /\ asking' = None /\ call'.at = "idle"
    BY <1>5 DEF ProviderAnswers, Idle
  <2>3. AskingOK'
    BY <2>2 DEF AskingOK
  <2>4. asking.vendor \in Vendors /\ (listed => CitesOneRun(runs', asking.vendor, Kept(listed, cites, asking.ids)))
    BY <1>1, <2>2 DEF AnalysisInv, AskingOK, CitesOneRun, Kept
  <2>5. AnalysesOK'
    BY <1>1, <2>1, <2>4 DEF AnalysisInv, AnalysesOK
  <2> QED BY <1>1, <2>3, <2>5 DEF AnalysisInv
<1>6. CASE ApiDies
  <2>1. asking' = None /\ call'.at = "idle" /\ UNCHANGED analyses
    BY <1>6 DEF ApiDies, Idle
  <2>2. AskingOK' /\ AnalysesOK'
    BY <1>1, <2>1 DEF AnalysisInv, AskingOK, AnalysesOK
  <2> QED BY <1>1, <2>2 DEF AnalysisInv
<1> QED BY <1>2, <1>3, <1>4, <1>5, <1>6 DEF Analysis

\* A stored analysis whose citations came as a list, whichever ids it named, cites receipts of
\* charged findings of one run of its vendor.
THEOREM CitesCharged == Spec => []AnalysisCitesCharged
<1>1. Init => AnalysisInv
  <2> SUFFICES ASSUME Init PROVE AnalysisInv
    OBVIOUS
  <2>1. \A v \in Vendors : <<Opening[v].found>> \in Seq(Conclusions) /\ Len(<<Opening[v].found>>) = 1
    BY DEF Conclusions
  <2>2. RunsOK
    BY <2>1 DEF Init, RunsOK
  <2>3. AskingOK /\ AnalysesOK
    BY DEF Init, AskingOK, AnalysesOK, Idle
  <2> QED BY <2>2, <2>3 DEF AnalysisInv
<1>2. AnalysisInv /\ [Next]_vars => AnalysisInv'
  <2> SUFFICES ASSUME AnalysisInv, [Next]_vars PROVE AnalysisInv'
    OBVIOUS
  <2>1. CASE Monitor
    <3>1. UNCHANGED <<call, asking, analyses>> /\ (UNCHANGED runs \/ SweepFindings)
      BY <2>1 DEF Monitor, SweepScore, SweepFindings, SweepPrior, SweepAttributes, SweepKilled, book
    <3> QED BY <3>1, AnalysisElsewhere DEF AnalysisInv, AskingOK
  <2>2. CASE SetAttributes \/ Raise \/ Advance
    <3>1. UNCHANGED <<call, asking, analyses, runs>>
      BY <2>2 DEF SetAttributes, Raise, Advance, book
    <3> QED BY <3>1, AnalysisElsewhere DEF AnalysisInv, AskingOK
  <2>3. CASE Benchmark
    <3>1. UNCHANGED <<asking, analyses, runs>>
      BY <2>3 DEF Benchmark, BenchmarkRow, BenchmarkScore, BenchmarkRung, BenchmarkFreeze, BenchmarkSnapshot,
                  BenchmarkPlacement, book
    <3>2. call'.at # "context"
      BY <2>3 DEF Benchmark, BenchmarkRow, BenchmarkScore, BenchmarkRung, BenchmarkFreeze, BenchmarkSnapshot,
                  BenchmarkPlacement, Idle
    <3> QED BY <3>1, <3>2, AnalysisElsewhere
  <2>4. CASE UNCHANGED vars
    BY <2>4, AnalysisElsewhere DEF vars, book, AnalysisInv, AskingOK
  <2> QED BY <2>1, <2>2, <2>3, <2>4, AnalysisStep DEF Next
<1>3. AnalysisInv => AnalysisCitesCharged
  BY DEF AnalysisInv, AnalysesOK, CitesOneRun, AnalysisCitesCharged, Cited
<1> QED BY <1>1, <1>2, <1>3, PTL DEF Spec

-------------------------------------------------------------------------------
(* The notation of open disputes: no handler moves a dispute while another is between its statements. *)

NoteInv == call.at \in {"store", "place"}
             => (call.placement.disputed <=> disputes[call.placement.vendor] \in OpenStates)

LEMMA NoteKept == NoteInv /\ [Next]_vars => NoteInv'
<1> SUFFICES ASSUME NoteInv, [Next]_vars PROVE NoteInv'
  OBVIOUS
<1>1. CASE UNCHANGED <<call, disputes>>
  BY <1>1 DEF NoteInv
<1>2. CASE call'.at \notin {"store", "place"}
  BY <1>2 DEF NoteInv
<1>3. CASE BenchmarkFreeze
  BY <1>3 DEF BenchmarkFreeze, NoteInv, IsDisputed, bench
<1>4. CASE BenchmarkSnapshot
  BY <1>4 DEF BenchmarkSnapshot, NoteInv
<1>5. CASE Monitor \/ SetAttributes \/ UNCHANGED vars
  <2>1. UNCHANGED <<call, disputes>>
    BY <1>5 DEF Monitor, SweepScore, SweepFindings, SweepPrior, SweepAttributes, SweepKilled, SetAttributes, vars, bench
  <2> QED BY <1>1, <2>1
<1>6. CASE Raise \/ Advance \/ Analysis \/ ApiDies \/ BenchmarkRow \/ BenchmarkScore \/ BenchmarkRung
           \/ BenchmarkPlacement
  <2>1. call'.at \notin {"store", "place"}
    BY <1>6 DEF Raise, Advance, Analysis, AnalysisGate, AnalysisContext, ProviderFails, ProviderAnswers, ApiDies,
                BenchmarkRow, BenchmarkScore, BenchmarkRung, BenchmarkPlacement, Idle
  <2> QED BY <1>2, <2>1
<1> QED BY <1>3, <1>4, <1>5, <1>6 DEF Next, Benchmark

\* A placement is stored as disputed exactly while a dispute of its vendor is open.
THEOREM DisputesNoted == Spec => OpenDisputeNoted
<1>1. Init => NoteInv
  BY DEF Init, NoteInv, Idle
<1>2. ASSUME IInv, NoteInv, [Next]_vars
      PROVE  [Len(placements') > Len(placements) =>
                LET p == placements'[Len(placements')]
                IN p.disputed <=> disputes[p.vendor] \in {"submitted", "under_review"}]_vars
  <2>1. placements \in Seq(Placement) /\ Len(placements) \in Nat
    BY <1>2, LenProperties DEF IInv, PlacementsOK
  <2>2. CASE BenchmarkPlacement
    <3>1. placements' = Append(placements, call.placement) /\ call.at = "place"
      BY <2>2 DEF BenchmarkPlacement
    <3>2. placements'[Len(placements')] = call.placement
      BY <2>1, <3>1, LastAppended
    <3> QED BY <1>2, <3>1, <3>2 DEF NoteInv, OpenStates
  <2>3. CASE UNCHANGED placements
    BY <2>1, <2>3
  <2>4. BenchmarkPlacement \/ UNCHANGED placements
    BY <1>2 DEF Next, Monitor, SweepScore, SweepFindings, SweepPrior, SweepAttributes, SweepKilled, SetAttributes,
      Benchmark, BenchmarkRow, BenchmarkScore, BenchmarkRung, BenchmarkFreeze, BenchmarkSnapshot, Raise, Advance,
      Analysis, AnalysisGate, AnalysisContext, ProviderFails, ProviderAnswers, ApiDies, vars, bench
  <2> QED BY <2>2, <2>3, <2>4
<1> QED BY <1>1, <1>2, NoteKept, BenchmarkInvariant, PTL DEF Spec, OpenDisputeNoted

===============================================================================
