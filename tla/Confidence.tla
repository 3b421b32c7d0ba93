------------------------------ MODULE Confidence ------------------------------
(***************************************************************************)
(* The confidence axis (confidence_config.py, confidence_calculator.py):   *)
(* which signals a vendor's age, size and jurisdiction make one expect,    *)
(* and the share of their weight that was found.  A result is a pair of    *)
(* weights, found and total, with the signals behind their difference.     *)
(*                                                                         *)
(* Who calls decides what is known of the vendor: the engine passes a      *)
(* Vendor, the read endpoints a VendorProfile, and neither has all three   *)
(* of the attributes that the calculator looks for.                        *)
(***************************************************************************)
EXTENDS Absent, Naturals, FiniteSets, FiniteSetsExt

-------------------------------------------------------------------------------
(* The table SIGNAL_CATEGORIES, in its two sections. *)

\* Expected from the first day: the weight of each signal.
AlwaysExpected ==
    [domain_registration |-> 15, tls_version |-> 10, cert_validity |-> 12, hsts |-> 5, csp |-> 5,
     x_frame_opts |-> 3, dnssec |-> 5, caa |-> 3, dmarc |-> 12, spf |-> 8, dkim |-> 5,
     entity_status |-> 15, entity_existence |-> 10]

\* A weight, and what must hold of a company before the signal is expected of it.
Later(weight, years, size) == [weight |-> weight, years |-> years, size |-> size, us |-> FALSE]

ExpectedLater ==
    [sec_filing |-> [Later(20, 2, "medium") EXCEPT !.us = TRUE],
     insolvency_notice |-> Later(15, 1, None),      bankruptcy_petition |-> Later(15, 1, None),
     cert_posture |-> Later(15, 3, "small"),        regulator_action |-> Later(20, 2, None),
     vd_program |-> Later(12, 2, "small"),          security_txt |-> Later(5, 1, None),
     program_disclosure |-> Later(10, 2, "small"),  contactability |-> Later(8, 1, None),
     reporting_posture |-> Later(8, 2, "small"),    subdomain_estate |-> Later(8, None, "medium"),
     stale_hosts |-> Later(10, None, "medium"),     weak_issuance |-> Later(8, None, "small"),
     estate_tls_legacy |-> Later(10, None, "medium"),
     estate_cert_expired |-> Later(10, None, "medium"),
     breach_by_data_class |-> Later(15, 2, None),   kev_listed_cve |-> Later(15, 1, None),
     nvd_cve |-> Later(10, 1, None)]

Known == DOMAIN AlwaysExpected \cup DOMAIN ExpectedLater

SignalWeight(sig) == IF sig \in DOMAIN AlwaysExpected THEN AlwaysExpected[sig] ELSE ExpectedLater[sig].weight

AgeThresholds == [startup |-> 0, young |-> 2, established |-> 5, mature |-> 10, veteran |-> 20, unknown |-> 0]

\* size_order; a size outside it counts as the smallest.
SizeOrder == [micro |-> 0, small |-> 1, medium |-> 2, large |-> 3, enterprise |-> 4]
SizeIndex(size) == IF size \in DOMAIN SizeOrder THEN SizeOrder[size] ELSE 0

UsJurisdictions == {"US", "USA", "United States"}

\* The age is of use if it is known in years, else by its band.
OldEnough(min, p) == IF p.years # None THEN p.years >= min ELSE AgeThresholds[p.band] >= min

IsSignalExpected(sig, p) ==
    \/ sig \in DOMAIN AlwaysExpected
    \/ /\ sig \in DOMAIN ExpectedLater
       /\ LET c == ExpectedLater[sig]
          IN /\ c.years # None => OldEnough(c.years, p)
             /\ c.size # None => SizeIndex(p.size) >= SizeIndex(c.size)
             /\ c.us /\ p.jurisdiction # None => p.jurisdiction \in UsJurisdictions

-------------------------------------------------------------------------------
(* The calculation. *)

WeightOf(sigs) == MapThenSumSet(SignalWeight, sigs)

\* Expected signals alone are weighed, of those found or searched for: a search that failed, was
\* not made or does not apply is on neither side.
Calculate(statuses, p) ==
    LET known == DOMAIN statuses \cap Known
        expected == {sig \in known : IsSignalExpected(sig, p)}
        With(sigs, status) == {sig \in sigs : statuses[sig] = status}
    IN [found   |-> WeightOf(With(expected, "found")),
        total   |-> WeightOf(With(expected, "found") \cup With(expected, "not_found")),
        gaps    |-> With(expected, "not_found"),
        bonuses |-> With(known \ expected, "found"),
        failed  |-> With(known, "search_failed")]

\* A finding is a signal found, whether it charges or not.  A planned signal without one is not
\* found: the vendor lacks it, or its collector failed.
Statuses(found, planned) ==
    [sig \in found \cup planned |-> IF sig \in found THEN "found" ELSE "not_found"]

AgeBandFromYears(years) == IF years = None THEN "unknown"
                           ELSE CASE years < 2 -> "startup"
                                  [] years \in 2 .. 4 -> "young"
                                  [] years \in 5 .. 9 -> "established"
                                  [] years \in 10 .. 19 -> "mature"
                                  [] years >= 20 -> "veteran"

\* calculate_from_profile: an age of nought is an unknown band, and the sector passes for the
\* jurisdiction.
CompanyOf(subject) ==
    [years |-> subject.years, band |-> IF subject.years = 0 THEN "unknown" ELSE AgeBandFromYears(subject.years),
     size |-> subject.size, jurisdiction |-> subject.sector]

AgeBasedConfidence(found, subject, planned) == Calculate(Statuses(found, planned), CompanyOf(subject))

\* Confidence is at least so many hundredths; where nothing was expected it is 1.
Attains(c, hundredths) == 100 * c.found >= hundredths * c.total

-------------------------------------------------------------------------------
(* What the callers pass. *)

\* A Vendor has years of operation, perhaps, and neither a size nor a sector.
VendorSubject(years) == [years |-> years, size |-> "unknown", sector |-> None]

\* A VendorProfile has a sector, and no attribute of the names of the other two.
ProfileSubject(sector) == [years |-> None, size |-> "unknown", sector |-> sector]

Impact(weight) == CASE weight >= 15 -> "high" [] weight >= 8 /\ weight < 15 -> "medium" [] weight < 8 -> "low"

\* The deductions the read endpoints list beside the confidence of the card.
Deductions(c) == {[signal |-> sig, weight |-> SignalWeight(sig), impact |-> Impact(SignalWeight(sig))] : sig \in c.gaps}
===============================================================================
