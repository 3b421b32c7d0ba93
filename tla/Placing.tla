------------------------------- MODULE Placing --------------------------------
(***************************************************************************)
(* Where one number stands among others (benchmarking/placement.py,        *)
(* snapshot.py, discrimination.py, expectation_gap.py).                    *)
(*                                                                         *)
(* The others are a function from members to integers, so a median or a    *)
(* rank is a matter of counting members and nothing is ever sorted.  The   *)
(* fractions of the code are compared by multiplying out.                  *)
(***************************************************************************)
EXTENDS Integers, FiniteSets, Absent
LOCAL INSTANCE FiniteSetsExt

CONSTANTS MinQuartile,      \* cohort.min_quartile_n
          MinPercentile,    \* cohort.min_percentile_n
          MinDomain,        \* cohort.min_domain_n
          MinObservations   \* discrimination.min_observations

\* _validate_thresholds.  The code's own floors are 8 and 30: nothing below depends on them.
ValidThresholds == /\ MinQuartile \in Nat \ {0}
                   /\ MinPercentile \in Nat /\ MinPercentile >= MinQuartile
                   /\ MinDomain \in Nat \ {0}
                   /\ MinObservations \in Nat \ {0}
ASSUME ThresholdAssumption == ValidThresholds

-------------------------------------------------------------------------------
(* Counting. *)

Count(values) == Cardinality(DOMAIN values)
Below(values, x) == Cardinality({m \in DOMAIN values : values[m] < x})
Equal(values, x) == Cardinality({m \in DOMAIN values : values[m] = x})
Above(values, x) == Cardinality({m \in DOMAIN values : values[m] > x})

\* Python's round of a / b, a half going to the even neighbour.
Rounded(a, b) == LET q == a \div b
                     r == 2 * (a % b)
                 IN IF r < b \/ (r = b /\ q % 2 = 0) THEN q ELSE q + 1

\* _percentile_value: the nearest rank, never between two members.
NearestRank(values, percent) ==
    LET k == Rounded(percent * (Count(values) - 1), 100)
    IN IF Count(values) = 0 THEN None
       ELSE CHOOSE x \in {values[m] : m \in DOMAIN values} :
              Below(values, x) <= k /\ k < Below(values, x) + Equal(values, x)

Median(values) == NearestRank(values, 50)
Spread(values) == NearestRank(values, 75) - NearestRank(values, 25)

-------------------------------------------------------------------------------
(* One subject among the members. *)

\* Mutant of TwiceMidrank: counted from the top.
TwiceFromTop(values, x) == 2 * Above(values, x) + Equal(values, x)

\* Twice the midrank: a tie is worth half a member.
TwiceMidrank(values, x) == 2 * Below(values, x) + Equal(values, x)

\* quartile_of, of a percentile t / 4n: 1 is the lowest quarter.
Quarter(t, n) == CASE t <= n                  -> 1
                   [] t > n /\ t <= 2 * n     -> 2
                   [] t > 2 * n /\ t <= 3 * n -> 3
                   [] OTHER                   -> 4

\* Mutant of Quartile: from the rank, which puts the best supplier at 1.
QuartileOfRank(values, x) == Quarter(4 * (Above(values, x) + 1), Count(values))

Quartile(values, x) == Quarter(2 * TwiceMidrank(values, x), Count(values))

\* The finest step the sample can express, and the percentile on that step.
Resolution(values) == (99 + Count(values)) \div Count(values)
Percentile(values, x) ==
    LET r == Resolution(values)
        p == r * Rounded(50 * TwiceMidrank(values, x), Count(values) * r)
    IN IF p < 100 THEN p ELSE 100

\* Below the lower fence of 1.5 interquartile ranges.
OutlierLow(values, x) == /\ Count(values) >= 4
                         /\ 2 * x < 2 * NearestRank(values, 25) - 3 * Spread(values)

Unplaced(x, values) ==
    [subject |-> x, n |-> Count(values), quartile |-> None, percentile |-> None, rank |-> None,
     delta |-> None, outlier |-> FALSE]

\* The figures themselves: a percentile only among MinPercentile.
Placed(x, values) ==
    [subject |-> x, n |-> Count(values), quartile |-> Quartile(values, x),
     percentile |-> IF Count(values) >= MinPercentile THEN Percentile(values, x) ELSE None,
     rank |-> Above(values, x) + 1, delta |-> x - Median(values), outlier |-> OutlierLow(values, x)]

\* Mutant of Place: a placement whenever there is anybody to compare with.
PlaceAnyway(x, values, least) ==
    IF x = None \/ Count(values) = 0 THEN Unplaced(x, values) ELSE Placed(x, values)

\* place: nothing is published of an unscored subject or among fewer than `least' members.
Place(x, values, least) ==
    IF x = None \/ Count(values) < least THEN Unplaced(x, values) ELSE Placed(x, values)

-------------------------------------------------------------------------------
(* What a cohort cannot tell apart. *)

\* domain_discrimination: no spread between the quartiles, a zero mean, or a coefficient of
\* variation under 2 %.
FlatDomain(values) ==
    LET n == Count(values)
        Sum == MapThenSumSet(LAMBDA m : values[m], DOMAIN values)
        Squares == MapThenSumSet(LAMBDA m : values[m] * values[m], DOMAIN values)
    IN /\ n >= MinObservations
       /\ Spread(values) = 0 \/ Sum = 0 \/ 2500 * (n * Squares - Sum * Sum) < Sum * Sum

\* signal_discrimination: 95 % of the members checked are in one band.
FlatSignal(bands) ==
    /\ Count(bands) >= MinObservations
    /\ \E m \in DOMAIN bands : 20 * Equal(bands, bands[m]) >= 19 * Count(bands)

\* _place_domains: a domain's population is the members that were scored in it; a flat one is
\* shown but not ranked.
PlaceDomain(x, values) == [placement |-> Place(x, values, MinDomain), suppressed |-> FlatDomain(values)]

-------------------------------------------------------------------------------
(* Why a supplier is off its peers' median. *)

\* The members' bands of one signal, given each member's findings by signal.
BandsOf(signal, findings) ==
    LET seen == {m \in DOMAIN findings : signal \in DOMAIN findings[m]}
    IN [m \in seen |-> findings[m][signal]]

\* expectation_gap: a signal drives the gap when it cost something, peers were checked for it, it
\* varies over the cohort with the subject in it, and some peer is in another band.
Drivers(subject, own, charged, findings) ==
    {s \in charged \cap DOMAIN own :
       LET peers == BandsOf(s, findings)
           all == BandsOf(s, [m \in DOMAIN findings \cup {subject} |->
                                IF m = subject THEN own ELSE findings[m]])
       IN Count(peers) > 0 /\ ~FlatSignal(all) /\ Equal(peers, own[s]) < Count(peers)}

ExpectationGap(x, values) ==
    IF x = None \/ Count(values) < MinQuartile THEN None ELSE x - Median(values)
===============================================================================
