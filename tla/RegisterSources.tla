--------------------------- MODULE RegisterSources ----------------------------
(***************************************************************************)
(* The registers: who the company is (GLEIF, Wikidata, RDAP, the ABN and   *)
(* Companies House) and whether it is failing (EDGAR, the Gazette,         *)
(* CourtListener, the insolvency registers, XBRL).  One operator per       *)
(* collector takes the replies `a' of its queries to what the run returns; *)
(* a query that the code did not send is not in the domain of `a'.         *)
(*                                                                         *)
(* How alike two names are is a number: 3 the same, 2 one leads or holds   *)
(* the other, 1 a word in common, 0 nothing.                               *)
(***************************************************************************)
EXTENDS CollectorBase

\* max(records, key): of the records at these places the first of the best, by every one's rank.
Best(records, places, rank) ==
    records[CHOOSE i \in places : \A j \in places : rank[j] <= rank[i] /\ (j < i => rank[j] < rank[i])]

\* A search finds a list, and how alike a record's name is to the vendor's is graded.
Matched(found) == found \in Seq({found[i] : i \in DOMAIN found}) /\ \A i \in DOMAIN found : found[i].name \in 0 .. 3

-------------------------------------------------------------------------------
(* GLEIF: the best record whatever its name. *)

GleifBand(rec) == CASE rec.entity = "INACTIVE" -> "entity_inactive"
                    [] rec.entity # "INACTIVE" /\ rec.reg = "RETIRED" -> "registration_retired"
                    [] rec.entity # "INACTIVE" /\ rec.reg = "LAPSED" -> "registration_lapsed"
                    [] OTHER -> "active_good_standing"

GleifRank(rec) == 4 * rec.name + (IF rec.reg = "ISSUED" THEN 2 ELSE 0)
                               + (IF rec.entity = "ACTIVE" THEN 1 ELSE 0)

Gleif(a) ==
    Read(a.records, {},
         LET found == a.records.body
             rank == [i \in DOMAIN found |-> GleifRank(found[i])]
         IN IF found = <<>> THEN Empty
            ELSE Result("ok", {<<"entity_status", GleifBand(Best(found, DOMAIN found, rank))>>}))

-------------------------------------------------------------------------------
(* Wikidata: the first name hit whose website is the vendor's domain. *)

Inspected == <<"first", "second">>
Verified(a, q) == q \in DOMAIN a /\ Answered(a[q]) /\ a[q].body.ours

\* Whether the i-th hit's entity is fetched: no earlier one was verified.
WikidataWants(a, i) == Answered(a.search) /\ i <= a.search.body
                         /\ \A j \in 1 .. i - 1 : ~Verified(a, Inspected[j])

MatchedEntity(a) == {a[Inspected[i]].body : i \in {j \in DOMAIN Inspected : Verified(a, Inspected[j])}}

Wikidata(a) ==
    IF ~Answered(a.search) THEN Error
    ELSE IF MatchedEntity(a) = {} THEN Empty
    ELSE LET ent == CHOOSE e \in MatchedEntity(a) : TRUE
         IN Result("ok", {<<"entity_existence", IF ent.dissolved THEN "entity_dissolved"
                                                ELSE "entity_active_confirmed">>}
                           \cup Maturity(ent.inception))

\* Firmographics resolves the entity the same way and finds nothing by design.
Firmographics(a) ==
    IF ~Answered(a.search) THEN Error
    ELSE IF MatchedEntity(a) = {} THEN Empty ELSE Result("ok", {})

-------------------------------------------------------------------------------
(* RDAP: the domain's own standing. *)

RdapBand(b) == CASE b.suspended -> "domain_suspended"
                 [] ~b.suspended /\ b.expires # None /\ b.expires < 30 -> "domain_expiring"
                 [] OTHER -> CASE b.age = None \/ b.age >= 730 -> "domain_established"
                               [] b.age # None /\ b.age < 180 -> "domain_new"
                               [] OTHER -> "domain_recent"

Rdap(a) == Read(a.domain, {"missing"},
                Result("ok", {<<"domain_registration", RdapBand(a.domain.body)>>} \cup Maturity(a.domain.body.age)))

-------------------------------------------------------------------------------
(* The Australian and the British register: only a strong, and in Australia current, name. *)

AbnStrong(m) == m.name >= 2 /\ m.current

AbnBand(status) == CASE status = "active" -> "active_good_standing"
                     [] status = "cancelled" -> "entity_inactive"
                     [] OTHER -> "registration_lapsed"

AbnWantsDetail(a) == Answered(a.names) /\ \E i \in DOMAIN a.names.body : AbnStrong(a.names.body[i])

\* Every failure of either query is an error; _parse does not tell them apart.
Abn(a) == IF ~Answered(a.names) THEN Error
          ELSE IF ~AbnWantsDetail(a) THEN Empty
          ELSE IF ~Answered(a.detail) THEN Error
          ELSE Result("ok", {<<"entity_status", AbnBand(a.detail.body)>>})

Ceased == {"dissolved", "liquidation", "receivership", "administration",
           "insolvency-proceedings", "converted-closed", "closed"}

CompanyBand(status) == CASE status = "active" -> "active_good_standing"
                         [] status \in Ceased -> "entity_inactive"
                         [] OTHER -> "registration_lapsed"

CompanyStrong(m) == m.name >= 2
CompanyRank(m) == 2 * m.name + (IF m.status = "active" THEN 1 ELSE 0)

CompaniesHouse(a) ==
    Read(a.items, {},
         LET found == a.items.body
             strong == {i \in DOMAIN found : CompanyStrong(found[i])}
             rank == [i \in strong |-> CompanyRank(found[i])]
         IN IF strong = {} THEN Empty
            ELSE Result("ok", {<<"entity_status", CompanyBand(Best(found, strong, rank).status)>>}))

-------------------------------------------------------------------------------
(* Filings and notices of failure. *)

\* EDGAR asks for bankruptcies, and only without one for going-concern doubts; what the second
\* query came to does not matter unless it found something.
EdgarWantsDoubts(a) == Answered(a.bankruptcies) /\ a.bankruptcies.body = 0

Doubted(a) == "doubts" \in DOMAIN a /\ Answered(a.doubts) /\ a.doubts.body > 0

Edgar(a) ==
    Read(a.bankruptcies, {},
         CASE a.bankruptcies.body > 0 -> Result("ok", {<<"sec_filing", "entity_inactive">>})
           [] a.bankruptcies.body = 0 /\ Doubted(a) ->
                Result("ok", {<<"sec_going_concern", "registration_lapsed">>})
           [] OTHER -> Receipt("sec_filing", "no_adverse_filings"))

\* XBRL: a filing's metrics have no revenue, and formatting None as an amount raises.
SecXbrl(a) == Read(a.filings, {}, IF a.filings.body > 0 THEN Error ELSE Empty)

\* The Gazette's notice codes; personal insolvency lies above the range.
Corporate(code) == code \in 2401 .. 2465
NoticeBand(code) == IF code >= 2431 THEN "entity_inactive" ELSE "registration_lapsed"

Gazette(a) ==
    Read(a.notices, {},
         LET corporate == {c \in a.notices.body : Corporate(c)}
         IN IF corporate = {} THEN Receipt("insolvency_notice", "no_adverse_filings")
            ELSE Result("ok", {<<"insolvency_notice", NoticeBand(c)>> : c \in corporate}))

Chapters == {"7", "9", "11", "12", "13"}
ChapterBand(chapter) == IF chapter \in {"7", "9"} THEN "entity_inactive" ELSE "registration_lapsed"

CourtListener(a) ==
    Read(a.dockets, {},
         LET cases == a.dockets.body \cap Chapters
         IN IF cases = {} THEN Receipt("bankruptcy_petition", "no_adverse_filings")
            ELSE Result("ok", {<<"bankruptcy_petition", ChapterBand(c)>> : c \in cases}))

-------------------------------------------------------------------------------
(* The insolvency registers of the EU, Germany and Australia search a page for words. *)

PageBand(page) == IF "active" \in page THEN "insolvency_active" ELSE "insolvency_unknown"

InsolvencyPage(a, signal) ==
    Read(a.page, {"limited"},
         IF {"term", "name"} \subseteq a.page.body
         THEN Result("ok", {<<signal, PageBand(a.page.body)>>})
         ELSE Receipt(signal, "no_insolvency"))

EuInsolvency(a) == InsolvencyPage(a, "eu_insolvency")
GermanInsolvency(a) == InsolvencyPage(a, "german_insolvency")
AsicInsolvency(a) == InsolvencyPage(a, "asic_insolvency")

RecordBand(status) == CASE status \in {"active", "open"} -> "insolvency_active"
                        [] status \in {"discharged", "closed", "completed"} -> "insolvency_historical"
                        [] OTHER -> "insolvency_unknown"

CanadaBankruptcy(a) ==
    Read(a.records, {"limited"},
         IF a.records.body = {} THEN Receipt("canada_bankruptcy", "no_insolvency")
         ELSE Result("ok", {<<"canada_bankruptcy", RecordBand(s)>> : s \in a.records.body}))
===============================================================================
