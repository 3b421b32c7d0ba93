------------------------------ MODULE Stability -------------------------------
(***************************************************************************)
(* The Business Stability score (business_stability.py, longevity.py) and  *)
(* the two endpoints that read it from the stored findings (api.py).       *)
(* Scores are in tenths of a point; a company's age is in days.            *)
(***************************************************************************)
EXTENDS CollectorBase, Continuity, AgeRisk, SequencesExt

\* age_band_from_years.
AgeBand(days) == LET Under(years) == 100 * days < years * 36525
                 IN IF days = None THEN "unknown"
                    ELSE CASE Under(2)                -> "startup"
                           [] Under(5) /\ ~Under(2)   -> "young"
                           [] Under(10) /\ ~Under(5)  -> "established"
                           [] Under(20) /\ ~Under(10) -> "mature"
                           [] OTHER                   -> "veteran"

\* base_age_score over scoring.yaml, the adjustment of an age that is known, the multipliers of
\* penalties and of the survivorship bonus (tenths), and the bonus itself.
BaseScore == [startup |-> 700, young |-> 750, established |-> 800, mature |-> 850,
              veteran |-> 1000, unknown |-> 600]
BaseAdjustment == [startup |-> -300, young |-> -200, established |-> 0, mature |-> 0,
                   veteran |-> 0, unknown |-> 0]
PenaltyFactor == [startup |-> 15, young |-> 12, established |-> 10, mature |-> 9, veteran |-> 8, unknown |-> 10]
Survivorship == [startup |-> 0, young |-> 0, established |-> 0, mature |-> 5 * 12, veteran |-> 10 * 15,
                 unknown |-> 0]

\* confidence_adjustment, in hundredths, over the endpoint's base of 95.
ConfidenceAdjustment == [startup |-> -15, young |-> -10, established |-> 0, mature |-> 0,
                         veteran |-> 0, unknown |-> -5]
StabilityConfidence(age) == Max({0, Min({100, 95 + ConfidenceAdjustment[age]})})

\* contingency_plan_required.  The profile has no criticality, so the endpoint never says so.
ContingencyPlan(age, criticality) ==
    \/ criticality = "high" /\ age \in {"startup", "young"}
    \/ criticality = "medium" /\ age = "startup"

-------------------------------------------------------------------------------
(* A FinancialProfile: `records' are the proceedings, as `active', closed for three years or less *)
(* (`recent', also without a date) or longer (`old'); a period of `metrics' is its revenue, its   *)
(* net income and its debt as a multiple of equity, which is positive.                            *)

Declining(metrics) ==
    LET last == SubSeq(metrics, Max({1, Len(metrics) - 2}), Len(metrics))
    IN Len(last) >= 2 /\ \A i \in 2 .. Len(last) : last[i].revenue < last[i - 1].revenue
Losing(metrics) ==
    Len(metrics) >= 2 /\ \A i \in Len(metrics) - 1 .. Len(metrics) : metrics[i].income < 0
Leverage(metrics) == IF metrics = <<>> THEN 0 ELSE Last(metrics).leverage

\* _check_insolvency_gate.
Gated(p) == Contains(p.records, "active") \/ p.closed

\* The first closed proceeding in the list is the one that is charged, and the loop ends there.
FirstClosed(records) == SelectInSeq(records, LAMBDA r : r # "active")
PastCharge(records) == LET first == FirstClosed(records)
                       IN IF first = 0 THEN 0 ELSE [old |-> 5, recent |-> 20][records[first]]

\* _apply_financial_penalties, of which the multiplier leaves only the cash flow alone.
Penalties(p) ==
    LET x == PenaltyFactor[p.age]
    IN [going_concern |-> IF p.doubt THEN 25 * x ELSE 0,
        insolvency    |-> PastCharge(p.records) * x,
        revenue       |-> IF Declining(p.metrics) THEN 15 * x ELSE 0,
        debt          |-> CASE Leverage(p.metrics) > 3 -> 10 * x
                            [] Leverage(p.metrics) = 3 -> 5 * x
                            [] OTHER                   -> 0,
        cash_flow     |-> IF Losing(p.metrics) THEN 150 ELSE 0]

\* Mutant of Charged: one penalty is kept, and a later one replaces it.
ChargedLast(penalties) ==
    LET order == <<"going_concern", "insolvency", "revenue", "debt", "cash_flow">>
        last == SelectLastInSeq(order, LAMBDA k : penalties[k] > 0)
    IN IF last = 0 THEN 0 ELSE penalties[order[last]]

Charged(penalties) == penalties.going_concern + penalties.insolvency + penalties.revenue
                        + penalties.debt + penalties.cash_flow

\* BusinessStabilityScore.compute: None behind the gate.  The base of a known age is adjusted, never
\* below zero, and an unknown age returns before its own adjustment.
StabilityScore(p) ==
    IF Gated(p) THEN None
    ELSE Max({0, Min({1000, Max({0, BaseScore[p.age] + BaseAdjustment[p.age]})
                              - Charged(Penalties(p)) + Survivorship[p.age]})})

\* business_stability_standing.
StandingOf(score) == IF score = None THEN "ceased"
                     ELSE CASE score >= 800         -> "sound"
                            [] score \in 600 .. 799 -> "watch"
                            [] score \in 400 .. 599 -> "impaired"
                            [] OTHER                -> "ceased"

-------------------------------------------------------------------------------
(* The endpoints *)

\* Mutant of ProfileFails: the flags become records, as the comments intend, and nothing raises.
ProfileHolds(findings) == FALSE

\* _build_financial_profile: a flag that says ceased or impaired becomes an insolvency record whose
\* status is read from InsolvencyStatus, a Literal without attributes: AttributeError.
ProfileFails(findings) == \E flag \in Flagged(findings) : flag[3] \in {"ceased", "impaired"}

\* What the profile holds otherwise: the age, of the entity if known, else of the domain, and the
\* auditor's doubt.  A ceased entity would be a closed proceeding, an impaired one an active one.
FinancialProfile(findings, days) ==
    LET worst == {flag[3] : flag \in Flagged(findings)}
    IN [age |-> AgeBand(days), doubt |-> GoingConcern(findings), closed |-> FALSE, metrics |-> <<>>,
        records |-> (IF "ceased" \in worst THEN <<"recent">> ELSE <<>>)
                      \o (IF "impaired" \in worst THEN <<"active">> ELSE <<>>)]

\* GET /stability: nothing guards the profile.
StabilityView(findings, days) ==
    IF ProfileFails(findings) THEN [answered |-> FALSE]
    ELSE LET p == FinancialProfile(findings, days)
         IN [answered |-> TRUE, score |-> StabilityScore(p), standing |-> StandingOf(StabilityScore(p)),
             confidence |-> StabilityConfidence(p.age), contingency |-> ContingencyPlan(p.age, None),
             age_risk |-> IF days = None THEN None ELSE OverallAgeRisk(Placeholder(days), p.age)]

\* GET /continuity: whatever the profile raises is swallowed, and a score replaces the standing.
ContinuityView(findings, days) ==
    LET view == StabilityView(findings, days)
    IN IF view.answered /\ view.score # None THEN view.standing ELSE Standing(findings)

\* get_procurement_advice.
Blocking(standing) == standing \in {"ceased", "impaired"}

-------------------------------------------------------------------------------
(* More against a vendor, less *)

\* BOUND: the profiles at an age, with as many as two proceedings and two periods.
Proceedings == {"old", "recent", "active"}
Periods == [revenue : {1, 2}, income : {-1, 1}, leverage : {3}]
Profiles(age) ==
    [age : {age}, doubt : BOOLEAN, closed : BOOLEAN,
     metrics : {<<>>} \cup {<<x, y>> : x \in Periods, y \in Periods},
     records : SeqOf(Proceedings, 2)]

\* Where a proceeding may be listed so as to weigh against the vendor: anywhere, but for an old one
\* before the recent one that is charged, which it would replace (see RecentIsCharged).
Listings(records) ==
    LET first == FirstClosed(records)
    IN {l \in (1 .. Len(records) + 1) \X Proceedings :
          l[2] = "old" /\ first # 0 => records[first] = "old" \/ l[1] > first}

\* One fact more against a vendor: the auditor's doubt, the register's status, another proceeding,
\* or a worse last period.
Worse(p) ==
    LET n == Len(p.metrics)
    IN {[p EXCEPT !.doubt = TRUE], [p EXCEPT !.closed = TRUE]}
         \cup {[p EXCEPT !.records = InsertAt(@, l[1], l[2])] : l \in Listings(p.records)}
         \cup (IF n = 0 THEN {}
               ELSE {[p EXCEPT !.metrics[n].revenue = @ - 1], [p EXCEPT !.metrics[n].income = -1],
                     [p EXCEPT !.metrics[n].leverage = @ + 1]})

\* At this age, one adverse fact more never raises the stability score, lifts its gate, or lowers
\* the age risk, whatever else is known.
AdverseAt(days) ==
    LET age == AgeBand(days)
        facts == Placeholder(IF days = None THEN -1 ELSE days)
    IN /\ \A p \in Profiles(age) : \A q \in Worse(p) :
            StabilityScore(q) # None => StabilityScore(p) # None /\ StabilityScore(q) <= StabilityScore(p)
       /\ \A f \in {facts} \cup Adverse(facts) :
            \A g \in Adverse(f) : OverallAgeRisk(f, age) <= OverallAgeRisk(g, age)
===============================================================================
