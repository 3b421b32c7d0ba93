----------------------------- MODULE ResidualRisk -----------------------------
(***************************************************************************)
(* What a buyer's declared exposure and a vendor's posture say together    *)
(* (residual_risk.py): the inherent tier, the posture band, the published  *)
(* matrix with its age-adjusted twin, and the sole-source escalation.      *)
(* Everything here is a lookup: nothing is stored.                         *)
(***************************************************************************)
EXTENDS Integers, Sequences, FiniteSetsExt, Absent

Tiers == <<"low", "medium", "high", "critical">>
Ladder == <<"low", "low_medium", "medium", "medium_high", "high", "critical">>
AgeBands == {"startup", "young", "established", "mature", "veteran", "unknown"}

ASSUME NoneAssumption == \A i \in 1 .. 6 : None # Ladder[i]

RankIn(ladder, x) == CHOOSE i \in DOMAIN ladder : ladder[i] = x

CriticalityRank == [low |-> 0, medium |-> 1, high |-> 2]
ScopeRank == [low |-> 0, medium |-> 1, high |-> 2, critical |-> 3]

\* _AGE_ADJUSTMENTS: tiers added for the vendor's age.  Only a known age adjusts anything.
AgeAdjustment(age) == CASE age \in {"startup", "young"}  -> 1
                        [] age \in {"mature", "veteran"} -> -1
                        [] OTHER                         -> 0

\* The two declared inputs on one scale; an undeclared or unknown one is on it nowhere.
ExposureRanks(criticality, scope) ==
    {CriticalityRank[c] : c \in {criticality} \cap DOMAIN CriticalityRank}
      \cup {ScopeRank[s] : s \in {scope} \cap DOMAIN ScopeRank}

Clamped(i) == Max({0, Min({Len(Tiers) - 1, i})})

\* Mutant of InherentTier: nothing declared is the bottom row of the table.
UndeclaredIsLow(criticality, scope, age) ==
    Tiers[1 + Clamped(Max(ExposureRanks(criticality, scope) \cup {0}) + AgeAdjustment(age))]

\* inherent_tier: the worse of the declared inputs, moved by age inside the ladder; None when
\* nothing is declared.
InherentTier(criticality, scope, age) ==
    LET ranks == ExposureRanks(criticality, scope)
    IN IF ranks = {} THEN None ELSE Tiers[1 + Clamped(Max(ranks) + AgeAdjustment(age))]

PostureBand(posture) == CASE posture >= 80        -> "strong"
                          [] posture \in 60 .. 79 -> "moderate"
                          [] posture \in 40 .. 59 -> "weak"
                          [] OTHER                -> "poor"

\* _RESIDUAL and _RESIDUAL_YOUNG, one row per posture band, one column per inherent tier.
Residual ==
    [strong   |-> <<"low", "low_medium", "medium", "medium_high">>,
     moderate |-> <<"low_medium", "medium", "high", "high">>,
     weak     |-> <<"medium", "high", "high", "critical">>,
     poor     |-> <<"medium_high", "high", "critical", "critical">>]
ResidualYoung ==
    [strong   |-> <<"low_medium", "medium", "medium_high", "high">>,
     moderate |-> <<"medium", "medium_high", "high", "high">>,
     weak     |-> <<"medium_high", "high", "critical", "critical">>,
     poor     |-> <<"high", "high", "critical", "critical">>]

Matrix(age) == IF age \in {"startup", "young"} THEN ResidualYoung ELSE Residual

\* One band up for a sole source; there is nothing above critical.
Escalated(tier, substitutability) ==
    IF substitutability = "sole_source" /\ tier # "critical"
      THEN Ladder[RankIn(Ladder, tier) + 1] ELSE tier

\* residual_risk: the published tier of a vendor, or None with a refusal.  `standing` is the
\* score's: blocked, refused or published.
ResidualTier(standing, posture, criticality, scope, substitutability, age) ==
    LET tier == InherentTier(criticality, scope, age)
    IN IF standing # "published" \/ posture = None \/ tier = None THEN None
       ELSE Escalated(Matrix(age)[PostureBand(posture)][RankIn(Tiers, tier)], substitutability)
===============================================================================
