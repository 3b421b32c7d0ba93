-------------------------------- MODULE Reports --------------------------------
(***************************************************************************)
(* The reports of the API over a book that is being re-scored under it     *)
(* (benchmarking/service.py, benchmarking/api.py, the gap analysis of      *)
(* api.py, and the tables of pg_store.py they read and write).             *)
(*                                                                         *)
(* Handlers of the API contain no await between two statements, so one     *)
(* runs at a time; what runs between their statements is the monitor       *)
(* process, which writes a vendor's score, then its findings, then its     *)
(* cohort attributes.  The written analysis is the exception: it awaits    *)
(* its provider, and other handlers run meanwhile.                         *)
(***************************************************************************)
EXTENDS PeerCohorts, Advice

CONSTANTS Vendors,
          Subjects,         \* the vendors that are benchmarked, disputed and analysed here
          Swept,            \* the vendors the monitor gets to
          Opening,          \* vendor -> what the store holds: [score, found, firm]
          Scores, Evidence, \* what a run can conclude, and the finding sets it can store
          Corrections,      \* firmographics a client can submit
          Declared,         \* vendor -> [criticality, substitutability]
          SourceOf,         \* signal -> the collector whose receipt its finding cites
          Costly,           \* the findings that are charged
          RecheckOf,        \* finding -> re-check label of its band
          Chain,            \* providers of the written analysis, in order: a number
          Cites(_, _),      \* what a model writes as citations, given whether it writes a list and
                            \*   the ids there are: a set of sets of ids
          MaxRuns, MaxPlacements, MaxEvents, MaxAnalyses, MaxCorrections

\* None is neither a number nor a label.  A score that is not published has no posture; the two rest on
\* the gates of the scoring engine.  The domains are the categories that have one (service.py:85,
\* `domains: dict[str, int]').
AllScores == Scores \cup {Opening[v].score : v \in Vendors}
ASSUME BookAssumption ==
    /\ IsFiniteSet(Vendors) /\ Subjects \subseteq Vendors /\ Swept \subseteq Vendors
    /\ None \notin Int \cup {Rechecks[i] : i \in 1 .. 4}
    /\ \A s \in AllScores : s.thin \in BOOLEAN /\ s.ceiling \in BOOLEAN
    /\ \A s \in AllScores : IF s.standing = "published" THEN s.posture \in Int ELSE s.posture = None
    /\ \A s \in AllScores : \A d \in DOMAIN s.domains : s.domains[d] \in Int

VARIABLES score,        \* scores, the newest row of each vendor
          runs,         \* findings: vendor -> its runs, each a set of findings; the last is read
          rows,         \* supplier_attributes, the newest row of each vendor
          sweep,        \* the monitor: [at, vendor, prior, left]
          call,         \* the benchmark or analysis handler that is running
          snapshots,    \* cohort_snapshots: set of [id, values, domains]
          placements,   \* benchmark_placements, oldest first
          disputes,     \* cohort_disputes: vendor -> state of its dispute, or None
          events,       \* dispute events so far
          asking,       \* the analysis at its provider: [vendor, run, ids, left], or None
          analyses,     \* gap_analyses
          corrections   \* submissions so far

book == <<score, runs, rows>>
bench == <<snapshots, placements, disputes, events>>
vars == <<book, sweep, call, bench, asking, analyses, corrections>>

Idle == [at |-> "idle"]
Found(v) == runs[v][Len(runs[v])]
ChargedOf(found) == found \cap Costly

\* The receipts a set of findings cites: one per collector, shared by all it saw.
Receipts(v, run, found) == {<<v, run, SourceOf[f[1]]>> : f \in found}

\* record_attributes: the size band is derived once and stored beside its inputs.
RowOf(firm) == [firm |-> firm, sector |-> firm.sector, delivery |-> firm.delivery, size |-> SizeBand(firm)]
Peers(v, cohort) == PeersOf(v, cohort, rows, score)

Init == /\ score = [v \in Vendors |-> Opening[v].score]
        /\ runs = [v \in Vendors |-> <<Opening[v].found>>]
        /\ rows = [v \in Vendors |-> RowOf(Opening[v].firm)]
        /\ sweep = [at |-> "idle", left |-> MaxRuns]
        /\ call = Idle
        /\ snapshots = {} /\ placements = <<>>
        /\ disputes = [v \in Vendors |-> None] /\ events = 0
        /\ asking = None /\ analyses = {}
        /\ corrections = 0

-------------------------------------------------------------------------------
(* A run of the monitor process, statement by statement. *)

SweepScore == \E v \in Swept, s \in Scores :
    /\ sweep.at = "idle" /\ sweep.left > 0
    /\ score' = [score EXCEPT ![v] = s]
    /\ sweep' = [at |-> "findings", vendor |-> v, left |-> sweep.left - 1]
    /\ UNCHANGED <<runs, rows, call, bench, asking, analyses, corrections>>

SweepFindings == \E found \in Evidence :
    /\ sweep.at = "findings"
    /\ runs' = [runs EXCEPT ![sweep.vendor] = Append(@, found)]
    /\ sweep' = [sweep EXCEPT !.at = "prior"]
    /\ UNCHANGED <<score, rows, call, bench, asking, analyses, corrections>>

\* _record_cohort_attributes reads what is carried forward: the buyer's side of the row.
SweepPrior ==
    /\ sweep.at = "prior"
    /\ sweep' = [at |-> "attributes", vendor |-> sweep.vendor, left |-> sweep.left,
                 prior |-> rows[sweep.vendor].firm]
    /\ UNCHANGED <<book, call, bench, asking, analyses, corrections>>

\* The rest is what the collectors observed, over whatever a client had submitted.
SweepAttributes ==
    LET seen == Opening[sweep.vendor].firm
    IN /\ sweep.at = "attributes"
       /\ rows' = [rows EXCEPT ![sweep.vendor] =
                     RowOf([seen EXCEPT !.delivery = sweep.prior.delivery, !.scope = sweep.prior.scope])]
       /\ sweep' = [at |-> "idle", left |-> sweep.left]
       /\ UNCHANGED <<score, runs, call, bench, asking, analyses, corrections>>

\* A killed process, and the swallowed failure of the attributes' statement.
SweepKilled ==
    /\ sweep.at # "idle"
    /\ sweep' = [at |-> "idle", left |-> sweep.left]
    /\ UNCHANGED <<book, call, bench, asking, analyses, corrections>>

-------------------------------------------------------------------------------
(* benchmark_supplier, with persist. *)

\* set_attributes: an append of everything the request says and nothing it leaves out.
SetAttributes == \E v \in Subjects, firm \in Corrections :
    /\ call = Idle /\ corrections < MaxCorrections
    /\ rows' = [rows EXCEPT ![v] = RowOf(firm)]
    /\ corrections' = corrections + 1
    /\ UNCHANGED <<score, runs, sweep, call, bench, asking, analyses>>

\* firmographics_of, which fixes the rungs; 409 without a row is not reached: the opening book has
\* one of every subject and rows are never deleted.
BenchmarkRow == \E v \in Subjects :
    /\ call = Idle /\ Cardinality(snapshots) < MaxPlacements
    /\ call' = [at |-> "score", vendor |-> v, firm |-> rows[v].firm]
    /\ UNCHANGED <<book, sweep, bench, asking, analyses, corrections>>

BenchmarkScore ==
    /\ call.at = "score"
    /\ call' = [at |-> "ladder", vendor |-> call.vendor, firm |-> call.firm,
                subject |-> score[call.vendor], counts |-> <<>>]
    /\ UNCHANGED <<book, sweep, bench, asking, analyses, corrections>>

\* assign_cohort: one lookup per rung, each its own statement.
BenchmarkRung ==
    LET rungs == Rungs(call.firm)
        cohort == CohortOn(rungs[Len(call.counts) + 1], call.firm)
    IN /\ call.at = "ladder" /\ ~WalkEnds(call.counts, rungs)
       /\ call' = [at |-> "ladder", vendor |-> call.vendor, firm |-> call.firm, subject |-> call.subject,
                   counts |-> Append(call.counts, Cardinality(Peers(call.vendor, cohort)))]
       /\ UNCHANGED <<book, sweep, bench, asking, analyses, corrections>>

\* Where the supplier's own domains and its peers' stand: the domains either was scored in.
DomainValues(peers, domain) == [p \in {q \in peers : domain \in DOMAIN score[q].domains} |->
                                  score[p].domains[domain]]
DomainsOf(subject, peers) ==
    [d \in DOMAIN subject.domains \cup UNION {DOMAIN score[p].domains : p \in peers} |->
       [values |-> DomainValues(peers, d),
        subject |-> IF d \in DOMAIN subject.domains THEN subject.domains[d] ELSE None]]

OpenStates == {"submitted", "under_review"}

\* Mutant of IsDisputed: a dispute is open only until somebody looks at it.
IsSubmitted(state) == state = "submitted"
IsDisputed(state) == state \in OpenStates

\* latest_placement of one supplier.
Previous(v) == LET own == {i \in DOMAIN placements : placements[i].vendor = v}
               IN IF own = {} THEN None ELSE placements[CHOOSE i \in own : \A j \in own : j <= i]

\* build_delta
Change(now, before) == IF now = None \/ before = None THEN None ELSE now - before
Moved(overall, median, before) ==
    IF before = None THEN None
    ELSE [since |-> before.snapshot, posture |-> Change(overall.subject, before.overall.subject),
          median |-> Change(median, before.median), quartile |-> Change(overall.quartile, before.overall.quartile)]

\* The assigned rung is looked up once more, and what that returns is frozen and placed.
BenchmarkFreeze ==
    LET v == call.vendor
        rungs == Rungs(call.firm)
        on == Assigned(call.counts)
        peers == IF on = None THEN {} ELSE Peers(v, CohortOn(rungs[on], call.firm))
        values == [p \in peers |-> score[p].posture]
        domains == DomainsOf(call.subject, peers)
        overall == Place(call.subject.posture, values, MinQuartile)
        id == Cardinality(snapshots) + 1
    IN /\ call.at = "ladder" /\ WalkEnds(call.counts, rungs)
       /\ call' = [at |-> "store",
                   frozen |-> [id |-> id, vendor |-> v, values |-> values,
                               domains |-> [d \in DOMAIN domains |-> domains[d].values]],
                   placement |->
                     [vendor |-> v, snapshot |-> id, cohort |-> IF on = None THEN {} ELSE rungs[on],
                      assigned |-> IF on = None THEN 0 ELSE call.counts[on],
                      overall |-> overall, median |-> Median(values),
                      domains |-> [d \in DOMAIN domains |->
                                     PlaceDomain(domains[d].subject, domains[d].values)],
                      disputed |-> IsDisputed(disputes[v]),
                      delta |-> Moved(overall, Median(values), Previous(v))]]
       /\ UNCHANGED <<book, sweep, bench, asking, analyses, corrections>>

\* Mutant of StoreSnapshot: nothing is frozen, only placed.
PlacementOnly(frozen) == UNCHANGED snapshots

\* put_cohort_snapshot, and only then put_placement.
StoreSnapshot(frozen) == snapshots' = snapshots \cup {frozen}
BenchmarkSnapshot ==
    /\ call.at = "store"
    /\ StoreSnapshot(call.frozen)
    /\ call' = [at |-> "place", placement |-> call.placement]
    /\ UNCHANGED <<book, sweep, placements, disputes, events, asking, analyses, corrections>>
BenchmarkPlacement ==
    /\ call.at = "place"
    /\ placements' = Append(placements, call.placement)
    /\ call' = Idle
    /\ UNCHANGED <<book, sweep, snapshots, disputes, events, asking, analyses, corrections>>

-------------------------------------------------------------------------------
(* Cohort disputes: one per vendor here. *)

\* raise_dispute and advance_dispute: a new event each time, to any state; upheld, partially upheld
\* and rejected are all "resolved".
Raise == \E v \in Subjects :
    /\ call = Idle /\ events < MaxEvents /\ disputes[v] = None
    /\ disputes' = [disputes EXCEPT ![v] = "submitted"]
    /\ events' = events + 1
    /\ UNCHANGED <<book, sweep, call, snapshots, placements, asking, analyses, corrections>>
Advance == \E v \in Subjects, state \in OpenStates \cup {"resolved"} :
    /\ call = Idle /\ events < MaxEvents /\ disputes[v] # None
    /\ disputes' = [disputes EXCEPT ![v] = state]
    /\ events' = events + 1
    /\ UNCHANGED <<book, sweep, call, snapshots, placements, asking, analyses, corrections>>

-------------------------------------------------------------------------------
(* The written analysis. *)

TierOf(v) == InherentTier(Declared[v].criticality, rows[v].firm.scope, None)

\* The gate reads the score and the declaration ...
AnalysisGate == \E v \in Subjects :
    /\ call = Idle /\ asking = None /\ Cardinality(analyses) < MaxAnalyses
    /\ AnalysisAllowed(score[v], TierOf(v))
    /\ call' = [at |-> "context", vendor |-> v]
    /\ UNCHANGED <<book, sweep, bench, asking, analyses, corrections>>

\* ... and the context the newest findings, charged ones only: then the first provider is asked.
AnalysisContext ==
    LET v == call.vendor
        run == Len(runs[v])
    IN /\ call.at = "context"
       /\ asking' = [vendor |-> v, run |-> run, left |-> Chain,
                     ids |-> Receipts(v, run, ChargedOf(Found(v)))]
       /\ call' = Idle
       /\ UNCHANGED <<book, sweep, bench, analyses, corrections>>

\* A transport error or any status but 200 goes to the next provider; after the last it is a 503.
ProviderFails ==
    /\ call = Idle /\ asking # None
    /\ asking' = IF asking.left > 1 THEN [asking EXCEPT !.left = @ - 1] ELSE None
    /\ UNCHANGED <<book, sweep, call, bench, analyses, corrections>>

\* Everything a model might cite: any receipt of any run, and one that never was.
Invented == <<"invented", 0, "none">>
Citable == UNION {UNION {Receipts(v, i, runs[v][i]) : i \in DOMAIN runs[v]} : v \in Subjects}
             \cup {Invented}

\* Mutant of Kept: the citations are taken as they come.
KeptAll(listed, cites, ids) == cites

\* _drop_invented_citations: a list loses what is not among the ids; what is no list (a bare id, a
\* dictionary, or an item that is not a dictionary) is passed over and stays as it was written.
Kept(listed, cites, ids) == IF listed THEN cites \cap ids ELSE cites

ProviderAnswers == \E listed \in BOOLEAN : \E cites \in Cites(listed, Citable) :
    /\ call = Idle /\ asking # None
    /\ analyses' = analyses \cup {[vendor |-> asking.vendor, listed |-> listed,
                                   cites |-> Kept(listed, cites, asking.ids)]}
    /\ asking' = None
    /\ UNCHANGED <<book, sweep, call, bench, corrections>>

\* The API process dies: its handlers and the analysis at the provider are gone.
ApiDies ==
    /\ call # Idle \/ asking # None
    /\ call' = Idle /\ asking' = None
    /\ UNCHANGED <<book, sweep, bench, analyses, corrections>>

Monitor == SweepScore \/ SweepFindings \/ SweepPrior \/ SweepAttributes \/ SweepKilled
Benchmark == BenchmarkRow \/ BenchmarkScore \/ BenchmarkRung \/ BenchmarkFreeze \/ BenchmarkSnapshot
               \/ BenchmarkPlacement
Analysis == AnalysisGate \/ AnalysisContext \/ ProviderFails \/ ProviderAnswers
Next == Monitor \/ SetAttributes \/ Benchmark \/ Raise \/ Advance \/ Analysis \/ ApiDies
Spec == Init /\ [][Next]_vars

-------------------------------------------------------------------------------
(* What the reports promise. *)

Placement == {placements[i] : i \in DOMAIN placements}
FrozenFor(p) == {s \in snapshots : s.id = p.snapshot}

\* benchmarking/placement.py: whatever is re-scored, corrected or killed afterwards, a stored
\* placement can be worked out again, figure by figure and domain by domain, from the one snapshot
\* it names.
Reproducible ==
    \A p \in Placement :
      \E s \in snapshots :
        /\ FrozenFor(p) = {s} /\ s.vendor = p.vendor
        /\ p.overall = Place(p.overall.subject, s.values, MinQuartile)
        /\ p.median = Median(s.values)
        /\ DOMAIN p.domains = DOMAIN s.domains
        /\ \A d \in DOMAIN p.domains : p.domains[d] = PlaceDomain(p.domains[d].placement.subject, s.domains[d])

\* benchmarking/api.py get_benchmark: a quartile or a percentile was earned by that many other
\* suppliers, although the count that chose the rung was taken before the members were read.
QuartileIsEarned ==
    \A p \in Placement : \A s \in FrozenFor(p) :
      LET others == DOMAIN s.values \ {p.vendor}
      IN /\ p.overall.quartile # None => Cardinality(others) >= MinQuartile
         /\ p.overall.percentile # None => Cardinality(others) >= MinPercentile
         /\ \A d \in DOMAIN p.domains :
              p.domains[d].placement.quartile # None
                => Cardinality(DOMAIN s.domains[d] \ {p.vendor}) >= MinDomain

\* benchmarking/placement.py: among the same population a higher posture never has a lower
\* quartile or percentile, nor a worse rank.
StrongerRanksNoLower ==
    \A p, q \in Placement : \A s \in FrozenFor(p), t \in FrozenFor(q) :
      (/\ s.values = t.values /\ p.overall.quartile # None /\ q.overall.quartile # None
       /\ p.overall.subject <= q.overall.subject)
        => /\ p.overall.quartile <= q.overall.quartile
           /\ p.overall.rank >= q.overall.rank
           /\ p.overall.percentile # None => p.overall.percentile <= q.overall.percentile

\* benchmarking/placement.py: a card's quartile does not contradict its distance from the median.  A
\* supplier below the median it is shown is not in the top half, one above it not in the bottom
\* quarter, and a low outlier is below the median.  Nothing is said of the percentile, whose rounding
\* can leave the quartile's quarter.
HalvesAgree ==
    \A p \in Placement : \A o \in {p.overall} \cup {p.domains[d].placement : d \in DOMAIN p.domains} :
      o.quartile # None =>
        /\ o.delta < 0 => o.quartile <= 2
        /\ o.delta > 0 => o.quartile >= 2
        /\ o.outlier => o.delta < 0

\* benchmarking/api.py raise_dispute: "disputed from this moment until it resolves": a placement
\* stored while a dispute of its inputs is open says so, and one stored otherwise does not.
OpenDisputeNoted ==
    [][Len(placements') > Len(placements) =>
         LET p == placements'[Len(placements')] IN p.disputed <=> disputes[p.vendor] \in {"submitted", "under_review"}]_vars

Cited(a) == \E i \in DOMAIN runs[a.vendor] :
              a.cites \subseteq Receipts(a.vendor, i, ChargedOf(runs[a.vendor][i]))

\* gap_analysis.py _drop_invented_citations: whichever ids the model listed, and whatever was re-scored
\* while it wrote, a stored list cites receipts of charged findings of one run of its own vendor.
AnalysisCitesCharged == \A a \in analyses : a.listed => Cited(a)

\* gap_analysis.py, _drop_invented_citations: "Strip any `evidence_finding_ids` the model invented",
\* in whatever form the model wrote them.
InventedIsDropped == \A a \in analyses : Cited(a)

\* expectation_gap_for: the peers of the rung that the ladder ends on, and everybody's bands.
Population(v) == LET rungs == Rungs(rows[v].firm)
                     among == [i \in DOMAIN rungs |-> Peers(v, CohortOn(rungs[i], rows[v].firm))]
                     on == Assigned([i \in DOMAIN rungs |-> Cardinality(among[i])])
                 IN IF on = None THEN {} ELSE among[on]
BandsIn(found) == [s \in {f[1] : f \in found} |-> (CHOOSE f \in found : f[1] = s)[2]]
DriversOf(v) == Drivers(v, BandsIn(Found(v)), {f[1] : f \in ChargedOf(Found(v))},
                        [p \in Population(v) |-> BandsIn(Found(p))])

\* The advice on a vendor as the assessment endpoint assembles it from its newest score and findings,
\* `expected' being its peers' median, None where no gap is published.
ExpectedOf(v) == LET among == Population(v)
                 IN IF Cardinality(among) < MinQuartile THEN None
                    ELSE Median([p \in among |-> score[p].posture])
AdviceOn(v, s, found, expected) ==
    [next |-> Recommend(s, Declared[v].criticality, SoonestRecheck({RecheckOf[f] : f \in ChargedOf(found)}),
                        Change(s.posture, expected)),
     residual |-> ResidualTier(s.standing, s.posture, Declared[v].criticality, rows[v].firm.scope,
                               Declared[v].substitutability, None),
     exit |-> ExitAlert(s, Declared[v].substitutability),
     points |-> FlowDowns(found, s, FALSE, Declared[v].substitutability),
     gaps |-> ComplianceGaps(found, rows[v].sector, DOMAIN Frameworks)]

Decisions == <<"approve", "approve_pending_questionnaire", "approve_with_conditions", "request_remediation",
               "full_due_diligence", "reject">>
ExitAlerts == <<"none", "elevated", "critical">>
NoSofter(after, before) ==
    /\ RankIn(Decisions, after.next.decision) >= RankIn(Decisions, before.next.decision)
    /\ RankIn(Rechecks, after.next.recheck) <= RankIn(Rechecks, before.next.recheck)
    /\ before.residual # None => RankIn(Ladder, after.residual) >= RankIn(Ladder, before.residual)
    /\ RankIn(ExitAlerts, after.exit) >= RankIn(ExitAlerts, before.exit)
    /\ before.points \subseteq after.points /\ before.gaps \subseteq after.gaps

\* A published vendor's next score is no better in anything, or its next run found no less.
NoBetter(s, t) == /\ s.standing = "published" /\ t.standing = "published" /\ t.posture <= s.posture
                  /\ (s.thin => t.thin) /\ (s.ceiling => t.ceiling)

\* recommend.py with residual_risk.py, exit_readiness.py, contract_flowdowns.py, compliance_gap.py:
\* when a vendor's next rows are no better in anything, no piece of advice on it is softer.
WorseNeverSofter ==
    [][\A v \in Subjects :
         (/\ score'[v] # score[v] \/ runs'[v] # runs[v]
          /\ NoBetter(score[v], score'[v])
          /\ Found(v) \subseteq runs'[v][Len(runs'[v])])
         => \A expected \in {ExpectedOf(v)} :
              \A before \in {AdviceOn(v, score[v], Found(v), expected)},
                 after \in {AdviceOn(v, score'[v], runs'[v][Len(runs'[v])], expected)} :
                NoSofter(after, before)]_vars

\* benchmarking/service.py: the stored placement publishes the `n' it was computed against.
OneN == \A p \in Placement : p.assigned = p.overall.n

\* expectation_gap.py: "A signal is only suppressed when the subject AND its peers all sit in the same
\* band": one that the supplier is charged for and none of its peers shares is among the drivers.
LoneFailureIsDriver ==
    \A v \in Subjects : \A f \in ChargedOf(Found(v)) :
      (/\ score[v].posture # None /\ Cardinality(Population(v)) >= MinQuartile
       /\ \A p \in Population(v) : f[1] \in DOMAIN BandsIn(Found(p)) /\ f \notin Found(p))
        => f[1] \in DriversOf(v)
===============================================================================
