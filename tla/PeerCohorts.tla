------------------------------ MODULE PeerCohorts ------------------------------
(***************************************************************************)
(* Who a supplier is compared with (benchmarking/cohorts.py, config.py and *)
(* the store's bm_cohort_peers): the size band derived from headcount and  *)
(* revenue, the ladder of ever wider peer groups, and the rung on which a  *)
(* supplier lands.                                                         *)
(*                                                                         *)
(* A firmographics record is [sector, delivery, scope, employees, revenue, *)
(* currency]; a cohort is a function from dimensions to their values.      *)
(***************************************************************************)
EXTENDS Placing, Sequences
LOCAL INSTANCE FiniteSetsExt
LOCAL INSTANCE SequencesExt

CONSTANTS CohortLadder,         \* cohort.ladder: a sequence of sets of dimensions
          CohortFloor,          \* cohort.floor: the rung at which a comparison is still exact
          SizeOrder,      \* size_band.order: the bands, smallest first
          HeadBounds,     \* size_band.employees: band -> exclusive upper bound
          RevenueBounds,  \* size_band.revenue_aud
          SizeRule,       \* size_band.resolve
          Rates,          \* fx_to_aud: currency -> AUD of a hundred
          Groups          \* sector_groups: group -> set of sectors

Dimensions == {"sector", "sector_group", "size_band", "delivery_model"}
SizeBands == {SizeOrder[i] : i \in DOMAIN SizeOrder}

-------------------------------------------------------------------------------
(* BenchmarkingConfig._validate: a file that breaks one of these is refused at load. *)

\* _validate_ladder: anchored on one of sector and its group, most specific first.
ValidLadder ==
    /\ CohortLadder \in Seq(SUBSET Dimensions) \ {<<>>}
    /\ \A i \in DOMAIN CohortLadder : /\ Cardinality(CohortLadder[i] \cap {"sector", "sector_group"}) = 1
                                /\ \A j \in DOMAIN CohortLadder :
                                     i < j => Cardinality(CohortLadder[i]) >= Cardinality(CohortLadder[j])
    /\ CohortFloor = {} \/ \E i \in DOMAIN CohortLadder : CohortLadder[i] = CohortFloor

\* _validate_size_band: bounds for known bands only, strictly ascending, the top band open.
ValidBounds(bounds) ==
    /\ DOMAIN bounds \subseteq SizeBands \ {SizeOrder[Len(SizeOrder)]}
    /\ \A i, j \in DOMAIN SizeOrder :
         i < j /\ {SizeOrder[i], SizeOrder[j]} \subseteq DOMAIN bounds
           => bounds[SizeOrder[i]] < bounds[SizeOrder[j]]
ValidSizeBand == /\ SizeRule \in {"max", "headcount", "revenue"}
                 /\ Len(SizeOrder) >= 2
                 /\ ValidBounds(HeadBounds) /\ ValidBounds(RevenueBounds)

\* _validate_sector_groups: no sector in two groups.
ValidGroups == \A g, h \in DOMAIN Groups : g # h => Groups[g] \cap Groups[h] = {}

ASSUME ConfigAssumption == ValidLadder /\ ValidSizeBand /\ ValidGroups

-------------------------------------------------------------------------------
(* derive_size_band *)

\* _band_of: the first band with a bound above the value, else the open one.
BandOf(value, bounds) ==
    LET under == {i \in DOMAIN SizeOrder : SizeOrder[i] \in DOMAIN bounds
                                             /\ value < bounds[SizeOrder[i]]}
    IN IF value = None \/ value < 0 THEN None
       ELSE IF under = {} THEN SizeOrder[Len(SizeOrder)] ELSE SizeOrder[Min(under)]

\* _to_aud: no currency is taken as AUD, one without a rate makes the revenue unknown.
ToAud(revenue, currency) == IF revenue = None \/ currency = None THEN revenue
                            ELSE IF currency \in DOMAIN Rates THEN (revenue * Rates[currency]) \div 100
                            ELSE None

\* _resolve: the one input there is, or the rule's choice between the two.
SizeBand(firm) ==
    LET head == BandOf(firm.employees, HeadBounds)
        revenue == BandOf(ToAud(firm.revenue, firm.currency), RevenueBounds)
        known == {head, revenue} \ {None}
    IN CASE known = {}                                 -> None
         [] head \in known /\ (revenue = None \/ SizeRule = "headcount") -> head
         [] revenue \in known /\ (head = None \/ SizeRule = "revenue")   -> revenue
         [] OTHER -> SizeOrder[Max({i \in DOMAIN SizeOrder : SizeOrder[i] \in known})]

-------------------------------------------------------------------------------
(* assign_cohort *)

\* sector_group_of
GroupOf(sector) == LET of == {g \in DOMAIN Groups : sector \in Groups[g]}
                   IN IF of = {} THEN None ELSE CHOOSE g \in of : TRUE

\* _available_dimensions, without the ones that are not there.
Available(firm) ==
    LET value == [sector |-> firm.sector, sector_group |-> GroupOf(firm.sector),
                  size_band |-> SizeBand(firm), delivery_model |-> firm.delivery]
        there == {d \in Dimensions : value[d] # None}
    IN [d \in there |-> value[d]]

\* The rungs a supplier can stand on, in the ladder's order: one that needs a dimension it does
\* not have is skipped.
Rungs(firm) ==
    LET usable == {i \in DOMAIN CohortLadder : CohortLadder[i] \subseteq DOMAIN Available(firm)}
    IN [n \in 1 .. Cardinality(usable) |->
          CohortLadder[CHOOSE i \in usable : Cardinality({j \in usable : j < i}) = n - 1]]
CohortOn(rung, firm) == [d \in rung |-> Available(firm)[d]]

\* bm_cohort_peers: the vendors whose newest attributes match every dimension and whose newest
\* score is published; a NULL matches nothing, and a group is its member sectors.
Matches(row, cohort) ==
    /\ row # None
    /\ "sector" \in DOMAIN cohort => row.sector = cohort.sector
    /\ "sector_group" \in DOMAIN cohort =>
         cohort.sector_group \in DOMAIN Groups /\ row.sector \in Groups[cohort.sector_group]
    /\ "size_band" \in DOMAIN cohort => row.size = cohort.size_band
    /\ "delivery_model" \in DOMAIN cohort => row.delivery = cohort.delivery_model

\* Mutant of PeersOf: the supplier among its own peers.
PeersAndSelf(ref, cohort, rows, scores) ==
    {v \in DOMAIN rows : /\ Matches(rows[v], cohort)
                         /\ scores[v] # None /\ scores[v].standing = "published"}

PeersOf(ref, cohort, rows, scores) ==
    {v \in DOMAIN rows : /\ v # ref /\ Matches(rows[v], cohort)
                         /\ scores[v] # None /\ scores[v].standing = "published"}

\* Where the walk down the ladder ends, given what each rung's lookup counted: the first rung with
\* enough peers, else the fullest, the more specific of two as full, else none.
Assigned(counts) ==
    LET enough == {i \in DOMAIN counts : counts[i] >= MinQuartile}
        fullest == {i \in DOMAIN counts : \A j \in DOMAIN counts : counts[j] <= counts[i]}
        First(S) == CHOOSE i \in S : \A j \in S : i <= j
    IN IF counts = <<>> THEN None ELSE First(IF enough # {} THEN enough ELSE fullest)

\* The walk stops at the first rung that is satisfied.
WalkEnds(counts, rungs) ==
    \/ Len(counts) = Len(rungs)
    \/ counts # <<>> /\ counts[Len(counts)] >= MinQuartile

Widened(rung) == Cardinality(rung) < Cardinality(CohortFloor)
===============================================================================
