-------------------------------- MODULE MCBook ---------------------------------
(* A book of four suppliers for Reports, with the quartile floor scaled to two peers. *)
EXTENDS Reports, TLC

Firm(sector, delivery, heads, revenue) ==
    [sector |-> sector, delivery |-> delivery, scope |-> "medium", employees |-> heads,
     revenue |-> revenue, currency |-> "USD"]
Scored(posture, thin, ceiling, email) ==
    [standing |-> "published", posture |-> posture, thin |-> thin, ceiling |-> ceiling,
     domains |-> [d \in {"email"} |-> email]]
Withheld(standing) == [standing |-> standing, posture |-> None, thin |-> TRUE, ceiling |-> FALSE,
                       domains |-> [d \in {} |-> 0]]

MCVendors == {"acme", "bolt", "crux", "dune"}
MCOpening ==
    [acme |-> [score |-> Scored(62, FALSE, FALSE, 70), found |-> {<<"vd_program", "none">>},
               firm |-> Firm("software", "saas", 40, 3)],
     bolt |-> [score |-> Scored(62, FALSE, FALSE, 40), found |-> {<<"dmarc", "absent">>},
               firm |-> [Firm("software", "saas", 30, None) EXCEPT !.scope = None]],
     crux |-> [score |-> Scored(88, FALSE, FALSE, 70), found |-> {<<"dmarc", "reject">>},
               firm |-> Firm("software", "on_prem", None, 4)],
     dune |-> [score |-> Scored(45, TRUE, FALSE, 20), found |-> {},
               firm |-> Firm("telecom", "saas", 900, 800)]]

\* A cohort of nineteen that all publish DMARC, and one more supplier.
MCCrowdPeers == {"p1", "p2", "p3", "p4", "p5", "p6", "p7", "p8", "p9", "p10", "p11", "p12", "p13", "p14", "p15",
                 "p16", "p17", "p18", "p19"}
MCCrowd == MCCrowdPeers \cup {"acme"}
MCCrowdOpening == [v \in MCCrowd |->
                     [score |-> Scored(88, FALSE, FALSE, 70), found |-> {<<"dmarc", "reject">>},
                      firm |-> Firm("software", "saas", 40, 3)]]
MCCrowdEvidence == {{<<"dmarc", "absent">>}}
MCCrowdDeclared == [v \in MCCrowd |-> [criticality |-> "high", substitutability |-> "low"]]

MCScores == {Scored(90, FALSE, FALSE, 70), Scored(52, TRUE, FALSE, 20), Scored(35, TRUE, TRUE, 20),
             Withheld("blocked")}
MCEvidence == {{}, {<<"vd_program", "none">>},
               {<<"vd_program", "none">>, <<"kev_listed_cve", "listed">>, <<"cert_posture", "claimed_expired">>}}
MCCorrections == {[Firm("telecom", "saas", 30, None) EXCEPT !.scope = None], Firm(None, None, 12, 900)}
MCDeclared == [v \in MCVendors |-> [criticality |-> IF v = "acme" THEN "high" ELSE None,
                                    substitutability |-> IF v = "acme" THEN "sole_source" ELSE "low"]]
MCSourceOf == [vd_program |-> "trust", cert_posture |-> "trust", dmarc |-> "dns", kev_listed_cve |-> "nvd"]
MCCostly == {<<"vd_program", "none">>, <<"dmarc", "absent">>, <<"kev_listed_cve", "listed">>}
MCRecheckOf == (<<"vd_program", "none">> :> "90d") @@ (<<"dmarc", "absent">> :> "30d")
                 @@ (<<"kev_listed_cve", "listed">> :> "7d")

\* The most a list can name, which any other names a part of, and an id that stands alone.
MCCites(listed, citable) == IF listed THEN {citable} ELSE {{Invented}}

MCLadder == <<{"sector", "size_band", "delivery_model"}, {"sector", "size_band"}, {"sector"}, {"sector_group"}>>
MCFloor == {"sector", "size_band"}
MCSizeOrder == <<"micro", "small", "large">>
MCHeadBounds == [micro |-> 20, small |-> 50]
MCRevenueBounds == [micro |-> 2, small |-> 10]
MCRates == [USD |-> 150, EUR |-> 165]
MCGroups == [tech |-> {"software", "telecom"}, care |-> {"health"}]

MCCadenceDays == [quarterly |-> 90, semi_annual |-> 180, annual |-> 365]
MCRecheckDays == ("7d" :> 7) @@ ("14d" :> 14) @@ ("30d" :> 30) @@ ("90d" :> 90)
MCFrameworks ==
    [e8 |-> [sectors |-> {"telecom"}, asserted |-> {<<"trust_page", "found">>},
             controls |-> {<<"kev_listed_cve", "listed">>, <<"dmarc", "absent">>}],
     iso |-> [sectors |-> {}, asserted |-> {<<"cert_posture", "claimed_expired">>},
              controls |-> {<<"vd_program", "none">>}]]
MCCredit == [cert_posture |-> [claimed_expired |-> 0], vd_program |-> [none |-> 0, full |-> 100]]
===============================================================================
