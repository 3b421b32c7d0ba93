------------------------------- MODULE MCScoring ------------------------------
(***************************************************************************)
(* An excerpt of scoring.yaml: two categories that charge and one of       *)
(* context, eight signals of seven collectors, of which the registry and   *)
(* the sanctions screen answer as one, since each of them blocks alone.    *)
(* The DNS collector, whose caa is always expected, never answers; nor     *)
(* does the Gazette, whose notice is expected of a company from its first  *)
(* year on.                                                                *)
(***************************************************************************)
EXTENDS ScoringEngine, TLC

MCSources == {"hibp", "kev", "nvd", "tls", "headers", "registers"}

Fresh(sig, b) == [signal |-> sig, band |-> b, age |-> 0]
Breach(b) == Fresh("breach_by_data_class", b)

MCReplies ==
    [hibp     |-> {<<Breach("no_known_breach")>>,
                   <<Breach("passwords_or_cards"), Breach("email_only"), Breach("email_only")>>},
     kev      |-> {<<Fresh("kev_listed_cve", b)>> : b \in {"no_kev_match", "listed"}},
     nvd      |-> {<<Fresh("nvd_cve", "cvss_critical")>>},
     tls      |-> {<<Fresh("cert_validity", b)>> : b \in {"valid", "expired_serving_prod"}},
     headers  |-> {<<Fresh("csp", c), Fresh("x_frame_opts", "absent")>> : c \in {"present", "absent"}},
     registers |-> {<<Fresh("entity_existence", "entity_active_confirmed")>>,
                    <<Fresh("entity_existence", "entity_dissolved")>>, <<Fresh("sanction", "hit")>>}]

MCCategoryOf ==
    [breach_by_data_class |-> "history", kev_listed_cve |-> "history", nvd_cve |-> "history",
     cert_validity |-> "surface", csp |-> "surface", x_frame_opts |-> "surface",
     entity_existence |-> "context"]

Header == [present |-> "pass", absent |-> "low"]
MCSeverityOf ==
    [breach_by_data_class |-> [no_known_breach |-> "pass", email_only |-> "medium", passwords_or_cards |-> "critical"],
     kev_listed_cve       |-> [no_kev_match |-> "pass", listed |-> "critical"],
     nvd_cve              |-> [no_critical_cve |-> "pass", cvss_critical |-> "critical"],
     cert_validity        |-> [valid |-> "pass", expired_serving_prod |-> "critical"],
     csp                  |-> Header,
     x_frame_opts         |-> Header,
     entity_existence     |-> [entity_active_confirmed |-> "pass", entity_dissolved |-> "informational"],
     sanction             |-> [none |-> "pass"]]

MCPoints == [critical |-> 100, high |-> 40, medium |-> 12, low |-> 3, informational |-> 0, pass |-> 0]

MCAutoSignals == {"cert_validity"}
MCUndated == {"csp", "x_frame_opts", "entity_existence", "sanction"}
MCLastAge == [nvd_cve |-> 1]
MCFreqExempt == {"kev_listed_cve", "nvd_cve"}
MCPrecedence == {<<"kev_listed_cve", "nvd_cve">>}
MCSatisfiedBy == {<<"x_frame_opts", "csp", "present">>}
MCGates == {<<"entity_existence", "entity_dissolved">>}
MCSanctions == {"sanction"}
\* lambda = 0.7 at the three ranks of the larger category.
MCDiscount == <<100, 70, 49>>
MCPlanned == DOMAIN MCCategoryOf \cup {"caa", "insolvency_notice"}
===============================================================================
