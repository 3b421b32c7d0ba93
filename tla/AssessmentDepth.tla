--------------------------- MODULE AssessmentDepth ----------------------------
(***************************************************************************)
(* How deep a relationship is assessed and how often (assessment_depth.py, *)
(* scoring/recommend.soonest_recheck): the published plan of each inherent *)
(* tier, the age adjustment of its cadence, and the two clocks of which    *)
(* the sooner decides when a vendor is due.                                *)
(***************************************************************************)
EXTENDS ResidualRisk

CONSTANTS CadenceDays,  \* _CADENCE_DAYS: cadence -> days; passive has none
          RecheckDays   \* _RECHECK_DAYS: a finding's re-check label -> days

Cadences == {"quarterly", "semi_annual", "annual", "passive"}
Rechecks == <<"7d", "14d", "30d", "90d">>               \* most urgent first

ASSUME ClocksAssumption ==
    /\ CadenceDays \in [Cadences \ {"passive"} -> Nat]
    /\ RecheckDays \in [{Rechecks[i] : i \in 1 .. 4} -> Nat]
    /\ CadenceDays.quarterly <= CadenceDays.semi_annual
    /\ CadenceDays.semi_annual <= CadenceDays.annual
    /\ \A i, j \in 1 .. 4 : i <= j => RecheckDays[Rechecks[i]] <= RecheckDays[Rechecks[j]]

\* _DEPTH_SOURCES: what each depth collects from.  Full is no restriction at all.
ScreeningSources == {"ita", "gleif", "wikidata", "abn", "companies_house", "rdap", "regulatory"}
CoreSources == ScreeningSources \cup {"dns", "tls", "headers", "trust"}
Depths == {"screening", "core", "full"}
Reached(depth, source) == CASE depth = "screening" -> source \in ScreeningSources
                            [] depth = "core"      -> source \in CoreSources
                            [] depth = "full"      -> TRUE

\* _PLAN and _UNDECLARED: the row of nobody's declaration is not the bottom one.
PlanRow(tier) == CASE tier = "critical" -> [depth |-> "full", cadence |-> "quarterly"]
                   [] tier = "high"     -> [depth |-> "full", cadence |-> "semi_annual"]
                   [] tier = "medium"   -> [depth |-> "core", cadence |-> "annual"]
                   [] tier = "low"      -> [depth |-> "screening", cadence |-> "passive"]
                   [] OTHER             -> [depth |-> "full", cadence |-> "semi_annual"]

\* _AGE_CADENCE_ADJUSTMENTS: only a vendor under five years old is watched more closely.
AgeCadence(cadence, age) ==
    CASE age = "startup" -> "quarterly"
      [] age = "young"   -> [quarterly |-> "quarterly", semi_annual |-> "quarterly",
                             annual |-> "semi_annual", passive |-> "annual"][cadence]
      [] OTHER           -> cadence

PlanFor(tier, age) ==
    [PlanRow(tier) EXCEPT !.cadence = IF age = None THEN @ ELSE AgeCadence(@, age)]

PublishesPosture(plan) == plan.depth # "screening"

\* soonest_recheck folded over the labels the charged findings ask for.
SoonestRecheck(labels) ==
    LET known == {i \in 1 .. 4 : Rechecks[i] \in labels}
    IN IF known = {} THEN None ELSE Rechecks[Min(known)]

\* Mutant of NextActionIn: a passive relationship has no clock, its findings or not.
PassiveIsNever(plan, recheck) ==
    IF plan.cadence = "passive" THEN None
    ELSE Min({CadenceDays[plan.cadence]} \cup {RecheckDays[r] : r \in {recheck} \ {None}})

\* next_action_in: the sooner of the review cadence and the soonest finding re-check.
NextActionIn(plan, recheck) ==
    LET clocks == {CadenceDays[c] : c \in {plan.cadence} \ {"passive"}}
                    \cup {RecheckDays[r] : r \in {recheck} \ {None}}
    IN IF clocks = {} THEN None ELSE Min(clocks)

\* is_due for a vendor scored `days` ago (never scored: None).
IsDue(plan, days, recheck) ==
    LET interval == NextActionIn(plan, recheck)
    IN days = None \/ (interval # None /\ days >= interval)
===============================================================================
