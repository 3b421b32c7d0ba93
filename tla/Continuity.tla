------------------------------ MODULE Continuity ------------------------------
(***************************************************************************)
(* What the stored findings say about whether the company will last        *)
(* (continuity.py): a standing per registry fact, the worst of which is    *)
(* the headline.  A finding is a pair       *)
(* <<signal, band>>; only one whose signal the model knows is stored.      *)
(***************************************************************************)
EXTENDS Integers, FiniteSets

Standings == <<"ceased", "impaired", "watch", "unknown", "sound">>     \* _ORDER, worst first
Order(standing) == CHOOSE i \in DOMAIN Standings : Standings[i] = standing

\* The registers that publish a filing or a notice, in the bands of a register's status.
Notices == {"sec_filing", "insolvency_notice", "bankruptcy_petition"}
FiledAs == {<<"entity_inactive", "ceased">>, <<"registration_lapsed", "watch">>}

\* _FLAGS: (signal, band) -> standing, as a set of <<signal, band, standing>>.
Flags == {<<"entity_status", "entity_inactive", "ceased">>, <<"entity_status", "registration_retired", "ceased">>,
          <<"entity_status", "registration_lapsed", "watch">>, <<"entity_status", "active_good_standing", "sound">>,
          <<"entity_existence", "entity_dissolved", "ceased">>,
          <<"entity_existence", "entity_active_confirmed", "sound">>,
          <<"domain_registration", "domain_suspended", "impaired">>,
          <<"domain_registration", "domain_expiring", "watch">>,
          <<"domain_registration", "domain_established", "sound">>,
          <<"sec_going_concern", "audit_qualification", "watch">>}
           \cup {<<n, f[1], f[2]>> : n \in Notices, f \in FiledAs}

\* The flags of the findings; a pair outside the table is passed over.
Flagged(findings) == {flag \in Flags : <<flag[1], flag[2]>> \in findings}

\* Mutant of Standing: a company nothing is known against is sound.
SoundByDefault(findings) ==
    LET bad == {f \in Flagged(findings) : f[3] # "sound"}
    IN IF bad = {} THEN "sound" ELSE "watch"

\* continuity_report: the worst flag decides, and no flag is `unknown', not `sound'.
Standing(findings) ==
    LET flags == Flagged(findings)
    IN IF flags = {} THEN "unknown"
       ELSE (CHOOSE f \in flags : \A g \in flags : Order(f[3]) <= Order(g[3]))[3]

\* The endpoint's going-concern flag: the auditor's own words, from either EDGAR signal.
GoingConcern(findings) ==
    \E flag \in Flagged(findings) :
      \/ flag[1] = "sec_going_concern" /\ flag[2] = "audit_qualification"
      \/ flag[1] = "sec_filing" /\ flag[2] = "registration_lapsed"

\* business_stability_coverage: the checks answered, of four.
StabilitySignals == Notices \cup {"sec_going_concern"}
StabilityCoverage(findings) == Cardinality({f[1] : f \in findings} \cap StabilitySignals)
===============================================================================
