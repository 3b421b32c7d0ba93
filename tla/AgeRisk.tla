------------------------------- MODULE AgeRisk --------------------------------
(***************************************************************************)
(* How a vendor's age colours the same facts (age_risk_factors.py): six    *)
(* sub-scores in thousandths, each from a table of weights per age band,   *)
(* and the overall age risk, their weighted sum.  Weights are hundredths.  *)
(***************************************************************************)
EXTENDS Integers, FiniteSetsExt

AgeBands == <<"startup", "young", "established", "mature", "veteran", "unknown">>
Row(table, age) == table[CHOOSE i \in 1 .. 6 : AgeBands[i] = age]

Unit(n) == Max({0, Min({1000, n})})                 \* a score between 0 and 1

\* _HISTORICAL_DEPTH_THRESHOLDS: findings for limited, moderate, rich, extensive.
Thresholds == <<<<1, 3, 6, 10>>, <<2, 5, 10, 20>>, <<5, 15, 30, 50>>,
                <<10, 30, 60, 100>>, <<15, 50, 100, 200>>, <<5, 15, 30, 50>>>>

\* historical_depth_score: a thin corpus counts for less when the vendor should have a long one.
HistoricalDepth(count, age) ==
    LET t == Row(Thresholds, age)
        share == IF age \notin {"mature", "veteran"} THEN 1000
                 ELSE CASE count < t[1]               -> 500
                        [] count \in t[1] .. t[2] - 1 -> 700
                        [] OTHER                      -> 1000
    IN (share * Min({count, t[4]})) \div t[4]

\* _FINANCIAL_TRANSPARENCY_WEIGHTS: no data, rapid growth, some data.
Transparency == <<<<0, 30, 20>>, <<10, 20, 15>>, <<20, 10, 10>>, <<40, 5, 5>>, <<50, 0, 0>>, <<20, 10, 10>>>>

\* financial_transparency_score.  A growth of over 200% is suspect, the more so at an older vendor.
FinancialTransparency(f, age) ==
    LET w == Row(Transparency, age)
        data == IF f.data THEN 10 * w[3] ELSE -10 * w[1]
        growth == IF ~f.rapid THEN 0
                  ELSE IF age \in {"established", "mature", "veteran"} THEN 15 * w[2] ELSE 10 * w[2]
        plausible == [yes |-> 100, no |-> -300, unknown |-> 0][f.plausible]
    IN Unit(1000 + data - growth + plausible)

\* _LEADERSHIP_RISK_WEIGHTS: the founder's history, turnover, succession.
Leadership == <<<<80, 30, 10>>, <<60, 20, 20>>, <<30, 15, 40>>, <<10, 10, 60>>, <<0, 5, 70>>, <<40, 15, 30>>>>

\* leadership_risk_score.
LeadershipRisk(f, age) ==
    LET w == Row(Leadership, age)
    IN Unit([no |-> 10 * w[1], yes |-> -5 * w[1], unknown |-> 0][f.founder]
            + (IF f.turnover THEN 10 * w[2] ELSE 0)
            + (IF f.succession THEN -3 * w[3] ELSE 10 * w[3]))

\* _OPERATIONAL_MATURITY_WEIGHTS: scaling, infrastructure, process.
Operations == <<<<50, 20, 10>>, <<30, 30, 20>>, <<15, 40, 40>>, <<5, 30, 60>>, <<0, 20, 70>>, <<20, 30, 30>>>>

\* operational_maturity_score.  `infrastructure` is its age in years, -1 where it is unknown.
OperationalMaturity(f, age) ==
    LET w == Row(Operations, age)
    IN Unit(500 + (CASE f.infrastructure >= 5     -> 10 * w[2]
                     [] f.infrastructure \in 2 .. 4 -> 5 * w[2]
                     [] OTHER                     -> 0)
                + (IF f.process THEN 10 * w[3] ELSE 0)
                - f.scaling * 10 * w[1])

\* _MEDIA_VELOCITY_WEIGHTS: a single finding, the trend, no history.
Media == <<<<80, 20, 30>>, <<60, 30, 20>>, <<40, 50, 10>>, <<20, 70, 0>>, <<10, 80, 0>>, <<40, 40, 20>>>>

\* Mutant of MediaVelocity: several articles are read as a trend, not as findings.
MediaTrendOnly(f, age) ==
    LET w == Row(Media, age)
    IN Unit((IF f.articles = 1 THEN 10 * w[1] ELSE 0)
            + [declining |-> 10 * w[2], improving |-> -3 * w[2], stable |-> 0][f.trend]
            + (IF f.spike THEN 300 ELSE 0)
            + (IF 100 * f.days < 36525 THEN 10 * w[3] ELSE 0))

\* media_velocity_score.  `days` is how long the vendor has operated, -1 where that is unknown.
MediaVelocity(f, age) ==
    LET w == Row(Media, age)
    IN Unit((CASE f.articles = 0 -> 0 [] f.articles = 1 -> 10 * w[1] [] OTHER -> 15 * w[1])
            + [declining |-> 10 * w[2], improving |-> -3 * w[2], stable |-> 0][f.trend]
            + (IF f.spike THEN 300 ELSE 0)
            + (IF 100 * f.days < 36525 THEN 10 * w[3] ELSE 0))

\* _STRUCTURAL_CHANGE_WEIGHTS: changes of name, address and owner, an acquisition.
Structure == <<<<70, 60, 50, 20>>, <<50, 40, 30, 30>>, <<30, 25, 20, 50>>,
               <<15, 15, 15, 70>>, <<10, 10, 10, 80>>, <<30, 25, 25, 40>>>>

\* structural_change_score: half as much again when the company changes more than once a year.
StructuralChange(f, age) ==
    LET w == Row(Structure, age)
        changes == f.names + f.addresses + f.owners
        suspicion == 10 * (f.names * w[1] + f.addresses * w[2] + f.owners * w[3]
                             + (IF f.acquired THEN w[4] ELSE 0))
    IN Unit(IF f.days > 0 /\ 36525 * changes > 100 * f.days THEN (suspicion * 3) \div 2 ELSE suspicion)

\* compute_age_differentiation_profile: the overall age risk, in hundred-thousandths.
OverallAgeRisk(f, age) ==
    15 * (1000 - HistoricalDepth(f.findings, age)) + 20 * (1000 - FinancialTransparency(f, age))
      + 15 * LeadershipRisk(f, age) + 15 * (1000 - OperationalMaturity(f, age))
      + 20 * MediaVelocity(f, age) + 15 * StructuralChange(f, age)

\* What business_stability passes: nothing but the age is collected, the rest are its defaults.
Placeholder(days) ==
    [findings |-> 0, data |-> FALSE, rapid |-> FALSE, plausible |-> "unknown", founder |-> "unknown",
     turnover |-> FALSE, succession |-> FALSE, infrastructure |-> -1, process |-> FALSE, scaling |-> 0,
     articles |-> 0, trend |-> "stable", spike |-> FALSE, days |-> days,
     names |-> 0, addresses |-> 0, owners |-> 0, acquired |-> FALSE]

\* One adverse fact more, each of which a vendor of any age can come to have.
Adverse(f) ==
    {[f EXCEPT !.articles = @ + 1], [f EXCEPT !.spike = TRUE], [f EXCEPT !.trend = "declining"],
     [f EXCEPT !.names = @ + 1], [f EXCEPT !.addresses = @ + 1], [f EXCEPT !.owners = @ + 1],
     [f EXCEPT !.acquired = TRUE], [f EXCEPT !.turnover = TRUE], [f EXCEPT !.founder = "no"],
     [f EXCEPT !.plausible = "no"], [f EXCEPT !.rapid = TRUE], [f EXCEPT !.scaling = @ + 1]}
===============================================================================
