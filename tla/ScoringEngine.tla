---------------------------- MODULE ScoringEngine -----------------------------
(***************************************************************************)
(* The penalty arithmetic of a vendor's posture (scoring/engine.py) and    *)
(* what it does from one assessment to the next.  A step changes one input *)
(* of score(): a collector comes back with another answer or with none, a  *)
(* refute is accepted, time passes, the entity is resolved.  The vendor is *)
(* then scored again and `card' is what the run publishes.                 *)
(*                                                                         *)
(* Two processes score: the API, whose run resolves the entity and knows   *)
(* no age, and the monitor's sweep, which takes both from what is stored.  *)
(*                                                                         *)
(* The scoring model (scoring.yaml) is a set of CONSTANTS; MCScoring gives *)
(* an excerpt of it.  The arithmetic is exact: a penalty is counted in units *)
(* which absorb half points, the decay in twentieths, the mitigation in    *)
(* fifths, the frequency in quarters and the powers of lambda in the unit of *)
(* the ladder that Discount gives.                                         *)
(***************************************************************************)
EXTENDS Confidence, Sequences

CONSTANTS Sources,     \* the collectors
          Replies,     \* Replies[s]: what collector s can find, newest events first seen at age 0
          CategoryOf,  \* signal -> category; a signal outside its domain is not scored
          SeverityOf,  \* signal -> band -> severity
          Points,      \* severity -> half points of penalty
          AutoSignals, \* signals whose critical band arms the ceiling
          Timeless,    \* never_decays: signals that age leaves alone
          Undated,     \* signals whose findings carry no event date
          LastAge,     \* signal -> the age after which its collector drops an event
          FreqExempt,  \* signals that recurrence does not amplify
          Precedence,  \* pairs <<dominant, suppressed>>
          SatisfiedBy, \* triples <<control, signal, band>>
          Gates,       \* pairs <<signal, band>> of the finding gates that are enabled
          Sanctions,   \* signals of the sanctions screen
          Planned,     \* the signals in any category of the model
          Discount,    \* Discount[rank] / Discount[1] is lambda^(rank - 1)
          Years,       \* the vendor's years of operation by its stored profile, or None
          MaxRefutes   \* bound: refutes accepted

VARIABLES evidence,  \* source -> the findings of its last answer, in order; <<>> is silence
          accepted,  \* accepted refutes: a function from (signal, band) to nullify or mitigate
          ambiguous, \* the entity match is below the resolution threshold
          scorer,    \* who made the last run: `api' or `sweep'
          card       \* what the last run published

vars == <<evidence, accepted, ambiguous, scorer, card>>

Scored == DOMAIN CategoryOf
Categories == {CategoryOf[sig] : sig \in Scored}

\* 0.5^(age / half-life) with its floor, in twentieths, at three ages: fresh, one half-life
\* old, and so old that the floor holds.
Decay == <<20, 10, 3>>
OldestAge == Len(Decay) - 1

FindingType == [signal : STRING, band : STRING, age : 0 .. OldestAge]

\* Every severity that a band of a scored signal has, or an unlisted one falls back to, has points;
\* the ladder has a rung for each signal of a category.
ASSUME ModelAssumption ==
    /\ MaxRefutes \in Nat
    /\ IsFiniteSet(Sources) /\ IsFiniteSet(Scored)
    /\ Scored \subseteq DOMAIN SeverityOf
    /\ Points \in [DOMAIN Points -> Nat] /\ "informational" \in DOMAIN Points
    /\ \A sig \in Scored : \A band \in DOMAIN SeverityOf[sig] : SeverityOf[sig][band] \in DOMAIN Points
    /\ Discount \in Seq(Nat) /\ Discount[1] \in Nat \ {0}
    /\ \A cat \in Categories : Cardinality({sig \in Scored : CategoryOf[sig] = cat}) <= Len(Discount)
    /\ \A s \in Sources : \A reply \in Replies[s] :
          reply \in Seq(FindingType) /\ \A i \in DOMAIN reply : reply[i].age = 0

-------------------------------------------------------------------------------
(* One finding. *)

Severity(f) == IF f.band \in DOMAIN SeverityOf[f.signal] THEN SeverityOf[f.signal][f.band]
                                                         ELSE "informational"

\* Half points of a finding before any modifier; the bands that do not charge are worth 0.
Base(f) == Points[Severity(f)]

\* satisfied_by fires when the superseding control is passing.
ASSUME PassingAssumption ==
    \A rule \in SatisfiedBy : rule[2] \in Scored => Base([signal |-> rule[2], band |-> rule[3]]) = 0

Dispute(f, refutes) == IF <<f.signal, f.band>> \in DOMAIN refutes /\ Base(f) > 0
                       THEN refutes[<<f.signal, f.band>>] ELSE "none"

\* Mutant of AgeFactor: what should not soften with age does.
AgeAlways(f) == Decay[f.age + 1]

AgeFactor(f) == IF f.signal \in Timeless \cup Undated THEN 20 ELSE Decay[f.age + 1]

\* One finding's penalty after refute, age and mitigation, in 1/200 points.
Charge(f, refutes) == CASE Dispute(f, refutes) = "nullify"  -> 0
                        [] Dispute(f, refutes) = "mitigate" -> Base(f) * AgeFactor(f) * 3
                        [] Dispute(f, refutes) = "none"     -> Base(f) * AgeFactor(f) * 5

IsCritical(f, refutes) == /\ f.signal \in AutoSignals /\ Severity(f) = "critical"
                          /\ Dispute(f, refutes) # "nullify"

-------------------------------------------------------------------------------
(* The findings of one signal make one row, whichever collectors they come *)
(* from; a row is what the engine collects per category and ranks.         *)

AllFindings(ev) == UNION {{<<s, i>> : i \in DOMAIN ev[s]} : s \in Sources}

Findings(ev) == {ev[p[1]][p[2]] : p \in AllFindings(ev)}

Answered(ev) == {f.signal : f \in Findings(ev)} \cap Scored

\* 1 + (n - 1) / 4, at most 2, in quarters.
Frequency(n) == IF n > 5 THEN 8 ELSE 4 + (n - 1)

\* One penalty for the group, in 1/800 points: its worst member, times the recurrence, in which
\* every finding counts, a clean or nullified one too.  `bands' are those of the worst members,
\* one of which represents the group.
Row(sig, ev, refutes) ==
    LET group == {p \in AllFindings(ev) : ev[p[1]][p[2]].signal = sig}
        charges == {<<ev[p[1]][p[2]].band, Charge(ev[p[1]][p[2]], refutes)>> : p \in group}
        worst == Max({c[2] : c \in charges})
    IN [signal  |-> sig,
        bands   |-> {c[1] : c \in {d \in charges : d[2] = worst}},
        penalty |-> worst * (IF sig \in FreqExempt THEN 4 ELSE Frequency(Cardinality(group)))]

Rows(ev, refutes) == {Row(sig, ev, refutes) : sig \in Answered(ev)}

\* The root-cause rules, inside a category: a dominant signal that charges, or a superseding
\* control that passes.
Waived(row, rows) ==
    /\ row.penalty > 0
    /\ \E other \in rows :
          /\ CategoryOf[other.signal] = CategoryOf[row.signal]
          /\ \/ <<other.signal, row.signal>> \in Precedence /\ other.penalty > 0
             \/ \E band \in other.bands : <<row.signal, other.signal, band>> \in SatisfiedBy

-------------------------------------------------------------------------------
(* One category, and the whole. *)

\* What the signals of a category charge after the root-cause rules.
ChargedRows(cat, rows) == {[row EXCEPT !.penalty = IF Waived(row, rows) THEN 0 ELSE @] :
                              row \in {r \in rows : CategoryOf[r.signal] = cat}}

\* The penalty at a rank of the descending order, equal ones side by side.
AtRank(rows, rank) ==
    Max({row.penalty : row \in {q \in rows : Cardinality({p \in rows : p.penalty >= q.penalty}) >= rank}})

\* Mutant of CategoryPenalty: what charges is ranked from the smallest penalty up.
CategoryAscending(cat, rows) ==
    LET charged == {row \in ChargedRows(cat, rows) : row.penalty > 0}
        n == Cardinality(charged)
    IN SumFunction([rank \in 1 .. n |-> AtRank(charged, n + 1 - rank) * Discount[rank]])

\* Diminishing returns: the sum of the penalties by rank.
CategoryPenalty(cat, rows) ==
    LET charged == ChargedRows(cat, rows)
    IN SumFunction([rank \in 1 .. Cardinality(charged) |-> AtRank(charged, rank) * Discount[rank]])

\* One point, in the units of the penalties.
Point == 800 * Discount[1]

\* Mutant of Damage: the mean over the categories that answered, as often as there are categories.
MeanDamage(rows) ==
    LET covered == {CategoryOf[row.signal] : row \in rows}
        Capped(cat) == Min({CategoryPenalty(cat, rows), 100 * Point})
    IN IF covered = {} THEN 0
       ELSE (Cardinality(Categories) * SumFunction([cat \in covered |-> Capped(cat)])) \div Cardinality(covered)

\* The penalties of all categories, each of at most 100 points.
Damage(rows) == SumFunction([cat \in Categories |-> Min({CategoryPenalty(cat, rows), 100 * Point})])

\* A point of posture, with the divisor 2.86 = 143/50 multiplied out.
Whole == 143 * Point

\* 100 less the damage over a divisor fixed by the model, never below 0.
RawPosture(damage) == LET charged == 50 * damage
                      IN IF charged > 100 * Whole THEN 0 ELSE 100 * Whole - charged

\* round(): to the nearest integer, halves to the even one.
Rounded(x) == LET q == x \div Whole
                  r == 2 * (x % Whole)
              IN IF r > Whole \/ (r = Whole /\ q % 2 = 1) THEN q + 1 ELSE q

-------------------------------------------------------------------------------
(* The confidence axis, and who asks. *)

\* The Vendor a process passes to score(): an API run has resolved the entity and leaves the years
\* None, which no collector fills; a sweep rebuilds it with the profile's years and confidence 1.
VendorOf(who, amb) == [doubtful |-> who = "api" /\ amb, years |-> IF who = "sweep" THEN Years ELSE None]

\* What was found, of the planned signals, for this vendor.
ConfidenceIn(rows, vendor) ==
    AgeBasedConfidence({row.signal : row \in rows}, VendorSubject(vendor.years), Planned)

\* What the reader of a card is told about its confidence: the deductions of the newest run's
\* findings, with what the calculator finds in the profile.
Itemised(rows) ==
    Deductions(AgeBasedConfidence({row.signal : row \in rows}, ProfileSubject("technology"), Planned))

\* The highest posture publishable on this much evidence; 100 is no cap.
ConfidenceCeiling(c) == CASE Attains(c, 90)                      -> 100
                          [] Attains(c, 75) /\ ~Attains(c, 90)   -> 97
                          [] Attains(c, 60) /\ ~Attains(c, 75)   -> 90
                          [] Attains(c, 40) /\ ~Attains(c, 60)   -> 80
                          [] ~Attains(c, 40)                     -> 100

-------------------------------------------------------------------------------
CriticalCeiling == 49

\* The gates: no score at all, for an ambiguous entity, a sanctions hit or a finding gate.
Gated(ev, vendor) ==
    vendor.doubtful \/ \E f \in Findings(ev) : f.signal \in Sanctions \/ <<f.signal, f.band>> \in Gates

\* Mutant of CriticalSeen: a critical that an accepted refute only mitigates no longer arms.
CriticalUndisputed(ev, refutes) ==
    \E f \in Findings(ev) : IsCritical(f, refutes) /\ Dispute(f, refutes) = "none"

CriticalSeen(ev, refutes) == \E f \in Findings(ev) : IsCritical(f, refutes)

\* What score() returns, with the damage and the waived signals its receipts show.  The critical
\* ceiling lowers a posture and never lifts one; thin coverage is refused unless it lowered.
Score(ev, refutes, vendor) ==
    LET rows == Rows(ev, refutes)
        damage == Damage(rows)
        raw == RawPosture(damage)
        armed == CriticalSeen(ev, refutes)
        lowered == armed /\ raw > CriticalCeiling * Whole
        posture == IF lowered THEN CriticalCeiling * Whole ELSE raw
        confidence == ConfidenceIn(rows, vendor)
        capped == posture > ConfidenceCeiling(confidence) * Whole
        refused == ~Attains(confidence, 40) /\ ~lowered
    IN IF Gated(ev, vendor)
       THEN [status |-> "blocked", posture |-> 0, capped |-> FALSE, damage |-> 0, waived |-> {}]
       ELSE [status  |-> IF refused THEN "refused" ELSE "published",
             posture |-> IF refused THEN 0
                         ELSE IF capped THEN ConfidenceCeiling(confidence) ELSE Rounded(posture),
             capped  |-> ~refused /\ capped,
             damage  |-> damage,
             waived  |-> {row.signal : row \in {r \in rows : Waived(r, rows)}}]

-------------------------------------------------------------------------------
\* A collector answers, changes its answer or falls silent, and the vendor is scored again.
Collect(s) == \E reply \in Replies[s] \cup {<<>>} :
    /\ reply # evidence[s]
    /\ evidence' = [evidence EXCEPT ![s] = reply]
    /\ card' = Score(evidence', accepted, VendorOf(scorer, ambiguous))
    /\ UNCHANGED <<accepted, ambiguous, scorer>>

\* What the stored findings of the card charge for, and so what can be disputed: a group's
\* representative, unless a root-cause rule waived it.
Disputable ==
    {f \in Findings(evidence) :
        /\ card.status # "blocked" /\ <<f.signal, f.band>> \notin DOMAIN accepted
        /\ \E row \in Rows(evidence, accepted) :
              row.signal = f.signal /\ row.penalty > 0 /\ f.band \in row.bands /\ f.signal \notin card.waived}

\* A refute of a charged observation is accepted, and the vendor is scored again.
Refute(f, kind) ==
    /\ Cardinality(DOMAIN accepted) < MaxRefutes
    /\ accepted' = [t \in DOMAIN accepted \cup {<<f.signal, f.band>>} |->
                       IF t = <<f.signal, f.band>> THEN kind ELSE accepted[t]]
    /\ card' = Score(evidence, accepted', VendorOf(scorer, ambiguous))
    /\ UNCHANGED <<evidence, ambiguous, scorer>>

\* A clean receipt carries no event date, or one that has not come yet.
Older(f) == IF f.signal \in Undated \/ Base(f) = 0 \/ f.age = OldestAge THEN f
                                                                     ELSE [f EXCEPT !.age = @ + 1]

\* Time passes before the next run, and no collector drops an event for its age.
Age ==
    /\ \A f \in Findings(evidence) : f.signal \in DOMAIN LastAge => f.age < LastAge[f.signal]
    /\ evidence' = [s \in Sources |-> [i \in DOMAIN evidence[s] |-> Older(evidence[s][i])]]
    /\ evidence' # evidence
    /\ card' = Score(evidence', accepted, VendorOf(scorer, ambiguous))
    /\ UNCHANGED <<accepted, ambiguous, scorer>>

\* The company is identified, and the vendor is scored again.
Resolve ==
    /\ ambiguous
    /\ ambiguous' = FALSE
    /\ card' = Score(evidence, accepted, VendorOf(scorer, FALSE))
    /\ UNCHANGED <<evidence, accepted, scorer>>

\* The other process scores the vendor, and every collector answers as it did.
Rescore(who) ==
    /\ who # scorer
    /\ scorer' = who
    /\ card' = Score(evidence, accepted, VendorOf(who, ambiguous))
    /\ UNCHANGED <<evidence, accepted, ambiguous>>

Silence == [s \in Sources |-> <<>>]
NoRefute == [t \in {} |-> "none"]

Init == /\ evidence = Silence
        /\ accepted = NoRefute
        /\ ambiguous \in BOOLEAN
        /\ scorer = "api"
        /\ card = Score(Silence, NoRefute, VendorOf("api", ambiguous))

Next == \/ \E s \in Sources : Collect(s)
        \/ \E f \in Disputable, kind \in {"nullify", "mitigate"} : Refute(f, kind)
        \/ Age
        \/ Resolve
        \/ \E who \in {"api", "sweep"} : Rescore(who)

Spec == Init /\ [][Next]_vars

-------------------------------------------------------------------------------
\* Type invariant; a posture is a number of points from 0 to 100.
TypeOK ==
    /\ DOMAIN evidence = Sources
    /\ \A f \in Findings(evidence) : f \in FindingType
    /\ Cardinality(DOMAIN accepted) <= MaxRefutes
    /\ \A t \in DOMAIN accepted : accepted[t] \in {"nullify", "mitigate"}
    /\ ambiguous \in BOOLEAN /\ scorer \in {"api", "sweep"}
    /\ card.status \in {"blocked", "refused", "published"} /\ card.posture \in 0 .. 100
    /\ card.capped \in BOOLEAN /\ card.damage \in Nat /\ card.waived \subseteq Scored

\* Neither the card before this step nor the one after it is a gate's.
BothScored == card.status # "blocked" /\ card'.status # "blocked"

\* A finding is no worse than another: it does not charge, or not more and for nothing fresher; and
\* no refute of the other was lost with its band.
NoWorse(f, g) == /\ f.signal = g.signal
                 /\ \/ Base(f) = 0
                    \/ /\ Base(f) <= Base(g) /\ f.age >= g.age
                       /\ f.band = g.band \/ <<g.signal, g.band>> \notin DOMAIN accepted

\* How often an answer has a signal.
Times(answer, sig) == Cardinality({i \in DOMAIN answer : answer[i].signal = sig})

\* The collector s came back with the same signals, and nothing worse or more frequent.
Fixed(s) ==
    /\ evidence'[s] # <<>> /\ evidence' = [evidence EXCEPT ![s] = evidence'[s]]
    /\ \A sig \in Scored : Times(evidence'[s], sig) <= Times(evidence[s], sig)
    /\ \A i \in DOMAIN evidence'[s] : \E j \in DOMAIN evidence[s] : NoWorse(evidence'[s][i], evidence[s][j])
    /\ \A j \in DOMAIN evidence[s] : \E i \in DOMAIN evidence'[s] : evidence'[s][i].signal = evidence[s][j].signal
    /\ accepted' = accepted

\* A signal whose penalty a root-cause rule waived is charged again.
WaiverLifted == \E row \in Rows(evidence, accepted)' : row.signal \in card.waived \ card'.waived
                                                       /\ row.penalty > 0

\* Only time has passed.
Aged == /\ evidence' # evidence /\ accepted' = accepted
        /\ evidence' = [s \in Sources |-> [i \in DOMAIN evidence[s] |-> Older(evidence[s][i])]]

\* A fix, an accepted refute or the passage of time never adds damage, although it re-ranks the
\* other penalties to a dearer rung of the ladder: unless it lifts a root-cause waiver.
FixIsRewarded ==
    [][card'.damage > card.damage /\ BothScored
          => ~(evidence' = evidence \/ Aged \/ \E s \in Sources : Fixed(s)) \/ WaiverLifted]_vars

\* Time softens what is dated and nothing else: the damage never grows, one step of age takes no
\* more of it than the steepest drop of Decay, and what is observed now keeps its full penalty.
AgeingSoftens ==
    [][BothScored /\ Aged
          => /\ card'.damage <= card.damage
             /\ 10 * card'.damage >= 3 * card.damage
             /\ (\A f \in Findings(evidence) : Base(f) > 0 => f.signal \in Timeless \cup Undated)
                   => card'.damage = card.damage]_vars

\* The collector s goes from silence to findings that do not charge.
Covers(s, before, after) ==
    /\ before[s] = <<>> /\ after[s] # <<>>
    /\ \A i \in DOMAIN after[s] : Base(after[s][i]) = 0
    /\ after = [before EXCEPT ![s] = after[s]]

\* More coverage publishes what less coverage does, or more where less was capped for it.
PublishesMore(more, less) ==
    less.status = "published"
    => /\ more.status = "published"
       /\ more.posture = less.posture \/ (less.capped /\ more.posture > less.posture)

\* Missing data costs confidence and never posture: whether a collector is silent or clean makes
\* no difference to the damage, nor to the posture but for the cap on thin evidence; and neither
\* does what the process that asks expects of the vendor, in whichever direction it differs.
CoverageOnlyLimits ==
    [][BothScored /\ accepted' = accepted
          => /\ (evidence' = evidence)
                  => card'.damage = card.damage /\ (PublishesMore(card', card) \/ PublishesMore(card, card'))
             /\ (\E s \in Sources : Covers(s, evidence, evidence'))
                  => card'.damage = card.damage /\ PublishesMore(card', card)
             /\ (\E s \in Sources : Covers(s, evidence', evidence))
                  => card'.damage = card.damage /\ PublishesMore(card, card')]_vars

\* The knockout: with a live critical on record that no refute nullified, nothing above the
\* ceiling is published, at any age, coverage or mitigation.
KnockoutHolds ==
    (card.status = "published" /\ \E f \in Findings(evidence) :
        f.signal \in AutoSignals /\ Severity(f) = "critical"
           /\ (<<f.signal, f.band>> \in DOMAIN accepted => accepted[<<f.signal, f.band>>] = "mitigate"))
    => card.posture <= CriticalCeiling

\* Claimed by test_profile.py:59 and models.py:352: what a profile knows of the company never changes
\* a posture.  The same evidence, refutes and entity come to one card, whichever process scores it.
ProfileNeverMovesPosture ==
    [][evidence' = evidence /\ accepted' = accepted /\ ~ambiguous /\ ~ambiguous'
          => card' = card]_vars

\* Claimed by models.py:48: an ambiguous entity blocks the whole assessment, whoever runs it.
AmbiguousBlocks == ambiguous => card.status = "blocked"

\* Claimed by api.py:1465: the deductions a reader is shown explain the confidence figure of the
\* card beside them.  Both are computed from the findings of the newest run.
ItemisedIsCharged ==
    card.status = "published" =>
        LET rows == Rows(evidence, accepted)
        IN Itemised(rows) = Deductions(ConfidenceIn(rows, VendorOf(scorer, ambiguous)))

\* Claimed by test_aggregation.py:156: a vendor who fixes something never sees the posture drop.
RemediationNeverCosts ==
    [][(\E s \in Sources : Fixed(s)) /\ card.status = "published" /\ card'.status = "published"
          => card'.posture >= card.posture]_vars

\* Claimed by engine.py:387 and test_scoring.py:382: an observed critical is published even on
\* thin coverage.
CertainCriticalPublished ==
    card.status # "blocked" /\ CriticalSeen(evidence, accepted) => card.status = "published"

===============================================================================
