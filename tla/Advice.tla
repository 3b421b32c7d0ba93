-------------------------------- MODULE Advice --------------------------------
(***************************************************************************)
(* What the product tells a buyer to do about a scored vendor: the grade's *)
(* recommendation (scoring/recommend.py), the exit alert                   *)
(* (exit_readiness.py), the drafting points (contract_flowdowns.py), the   *)
(* compliance gaps (compliance_gap.py) and the assurity they lower         *)
(* (assurity.py), and the gate of the written analysis (gap_analysis.py).  *)
(* All are lookups over the newest score, the newest run's findings and    *)
(* what the buyer declared; nothing here is stored.                        *)
(*                                                                         *)
(* A score is [standing, posture, thin, ceiling]: `thin' is a Ghost or the *)
(* Low confidence band, `ceiling' the critical ceiling.  Findings are a    *)
(* set of <<signal, band>> pairs with one band of each signal.             *)
(***************************************************************************)
EXTENDS AssessmentDepth, Continuity

CONSTANTS Frameworks,     \* compliance_frameworks that are enabled: name ->
                          \*   [sectors, asserted: set of pairs, controls: set of pairs]
          Credit,         \* assurity.credit in hundredths: signal -> band -> credit
          Gamma,          \* assurity.gamma in hundredths
          MinAssurity     \* assurity.min_observed_signals

MaterialGap == -15                                      \* _MATERIAL_GAP

\* grade_for
Grade(posture) == CASE posture >= 85        -> "A"
                    [] posture \in 70 .. 84 -> "B"
                    [] posture \in 50 .. 69 -> "C"
                    [] posture \in 30 .. 49 -> "D"
                    [] OTHER                -> "F"

Advised(decision, urgency, recheck) == [decision |-> decision, urgency |-> urgency, recheck |-> recheck]

\* Mutant of GradeRow: thin evidence is looked at first, whatever the grade.
ThinFirst(grade, thin, highStakes) ==
    CASE thin                               -> Advised("approve_pending_questionnaire", "assess", "30d")
      [] ~thin /\ grade \in {"A", "B"}      -> Advised("approve", "routine", "90d")
      [] ~thin /\ grade = "C" /\ highStakes -> Advised("request_remediation", "act", "7d")
      [] ~thin /\ grade = "C" /\ ~highStakes -> Advised("approve_with_conditions", "act", "30d")
      [] ~thin /\ grade = "D"               -> Advised("full_due_diligence", "act", "7d")
      [] OTHER                              -> Advised("reject", "stop", "7d")

\* The row of the recommendation's table.
GradeRow(grade, thin, highStakes) ==
    CASE grade \in {"A", "B"} /\ thin     -> Advised("approve_pending_questionnaire", "assess", "30d")
      [] grade \in {"A", "B"} /\ ~thin    -> Advised("approve", "routine", "90d")
      [] grade = "C" /\ highStakes        -> Advised("request_remediation", "act", "7d")
      [] grade = "C" /\ ~highStakes       -> Advised("approve_with_conditions", "act", "30d")
      [] grade = "D"                      -> Advised("full_due_diligence", "act", "7d")
      [] OTHER                            -> Advised("reject", "stop", "7d")

\* recommend: `soonest' is the soonest re-check of a charged finding, `gap' the expectation gap if
\* one was published.  A finding or a gap moves the clock, never the decision.
Recommend(score, criticality, soonest, gap) ==
    LET row == GradeRow(Grade(score.posture), score.thin, criticality = "high")
        clocks == {row.recheck, soonest}
                    \cup {r \in {"7d"} : score.ceiling}
                    \cup {IF criticality = "high" THEN "14d" ELSE "30d" :
                            g \in {x \in {gap} : x # None /\ x <= MaterialGap}}
        recheck == SoonestRecheck(clocks)
    IN CASE score.standing = "blocked" -> Advised("blocked", "stop", None)
         [] score.standing = "refused" -> Advised("insufficient_evidence", "assess", "30d")
         [] OTHER -> [row EXCEPT !.recheck = recheck,
                                 !.urgency = IF recheck = "7d" /\ @ = "routine" THEN "act" ELSE @]

\* exit_readiness: of a published posture only.
ExitAlert(score, substitutability) ==
    LET band == IF score.standing = "published" THEN PostureBand(score.posture) ELSE None
    IN CASE substitutability = "sole_source" /\ band = "poor" -> "critical"
         [] substitutability = "sole_source" /\ band = "weak" -> "elevated"
         [] OTHER                                             -> "none"

-------------------------------------------------------------------------------
(* contract_flowdowns *)

IncidentPathBands == {<<"vd_program", "none">>, <<"vd_program", "security_txt_only">>}
AuditEvidenceBands == {<<"cert_posture", "claimed_unverified">>, <<"cert_posture", "claimed_expired">>}

\* The families that fire; `shared' is a single point of failure of the book behind this vendor.
FlowDowns(findings, score, shared, substitutability) ==
    {"no_incident_response_path" : x \in findings \cap IncidentPathBands}
      \cup {"no_independent_audit_evidence" : x \in findings \cap AuditEvidenceBands}
      \cup {"concentrated_fourth_party_dependency" : x \in {shared} \cap {TRUE}}
      \cup {"going_concern_flag" : x \in {f \in Flagged(findings) : f[3] # "sound"}}
      \cup {"thin_coverage_or_ghost" : x \in {score.thin} \cap {TRUE}}
      \cup {"kev_listed" : x \in findings \cap {<<"kev_listed_cve", "listed">>}}
      \cup {"sole_source_exit_rights" : x \in {substitutability} \cap {"sole_source"}}
      \cup {"low_substitutability_exit_assistance" : x \in {substitutability} \cap {"low"}}

-------------------------------------------------------------------------------
(* compliance_gap and assurity *)

\* A framework binds a sector by law, or a vendor that claims it; `claims' are the frameworks
\* whose patterns its trust page's text contains.
Applies(framework, findings, sector, claims) ==
    \/ sector \in Frameworks[framework].sectors
    \/ framework \in claims /\ findings \cap Frameworks[framework].asserted # {}

ComplianceGaps(findings, sector, claims) ==
    {gap \in (DOMAIN Frameworks) \X findings :
       Applies(gap[1], findings, sector, claims) /\ gap[2] \in Frameworks[gap[1]].controls}

\* distinct_observations: one signal that fails five frameworks is one gap.
DistinctObservations(gaps) == Cardinality({g[2][1] : g \in gaps})

\* assurity_report up to the sigmoid: what was credited, less gamma for each observation that
\* contradicts a framework; nothing is published of too few signals.
Assurity(findings, sector, claims) ==
    LET seen == {f \in findings : f[1] \in DOMAIN Credit}
        credited == {f \in seen : f[2] \in DOMAIN Credit[f[1]]}
    IN IF Cardinality(seen) < MinAssurity THEN None
       ELSE MapThenSumSet(LAMBDA f : Credit[f[1]][f[2]], credited)
              - Gamma * DistinctObservations(ComplianceGaps(findings, sector, claims))

-------------------------------------------------------------------------------
(* gap_analysis.gate: a published posture on more than thin evidence, and a declared tier. *)

AnalysisAllowed(score, tier) ==
    score # None /\ score.standing = "published" /\ ~score.thin /\ tier # None
===============================================================================
