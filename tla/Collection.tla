------------------------------ MODULE Collection ------------------------------
(***************************************************************************)
(* A collector's run (Collector.collect): its queries with their retries,  *)
(* the deadline, the exception that becomes an error, and the screening    *)
(* list's cache file, which outlives a run and is shared by processes.     *)
(* Collectors share nothing else, so a behaviour follows one source; ITA's *)
(* runs come in pairs because they meet at the cache.                      *)
(***************************************************************************)
EXTENDS RegisterSources, PerimeterSources, Stability, Functions

CONSTANTS Replies,      \* source -> query -> what it may come to
          Paths,        \* _TRUST_PATHS, as many as matter
          Feeds,        \* _FEEDS, as many as matter
          ProbeCap,     \* estate_probe_cap
          Hours,        \* _CACHE_MAX_AGE_H in steps of the clock
          MaxKills      \* BOUND on the processes that die in mid-run

VARIABLES source, run, cache, list, kills

vars == <<source, run, cache, list, kills>>

Sources == DOMAIN Replies
Procs == IF source = "ita" THEN {"api", "monitor"} ELSE {"api"}

\* http_attempts, and the direct requests of those that do without _get_with_retry.
Once == {"gleif", "status_page", "hibp", "kev", "nvd", "regulatory", "gdelt", "pdl", "estate"}
Attempts(s) == IF s \in Once THEN 1 ELSE 2

\* What is tried again: a resolver or a handshake that failed, crt.sh whatever it said, else
\* _RETRY_STATUS.
Retried(s, q) == CASE s = "dns" \/ q = "handshake"     -> {"none"}
                   [] q = "legacy"                    -> {}
                   [] s = "ct" /\ q = "crtsh"         -> Failures
                   [] s = "ct" /\ q = "certspotter"   -> {}
                   [] OTHER                           -> Transient

Singles == [gleif |-> "records", companies_house |-> "items", sec_xbrl |-> "filings", rdap |-> "domain",
            gazette |-> "notices", courtlistener |-> "dockets", eu_insolvency |-> "page",
            german_insolvency |-> "page", asic_insolvency |-> "page", canada_bankruptcy |-> "records",
            otx |-> "passive", hibp |-> "breaches", kev |-> "catalogue", pdl |-> "row",
            gdelt |-> "articles", estate |-> "hosts"]

Collectors == DOMAIN Singles \cup {"dns", "tls", "headers", "trust", "status_page", "ct", "nvd", "edgar", "abn",
                                   "wikidata", "firmographics", "regulatory", "ita"}

\* The sources are collectors, robots.txt is none of the trust paths, a cache lives for a while, an
\* age or a term that RDAP gives is a difference of dates (rdap_collector._classify), and a search of
\* GLEIF or Companies House finds a list of records whose names are graded as RegisterSources says.
ASSUME CollectionAssumption == /\ None \notin Int
                               /\ Sources \subseteq Collectors
                               /\ "rdap" \in Sources => \A r \in Replies.rdap.domain :
                                    Answered(r) => {r.body.age, r.body.expires} \subseteq Int \cup {None}
                               /\ "gleif" \in Sources => \A r \in Replies.gleif.records :
                                                            Answered(r) => Matched(r.body)
                               /\ "companies_house" \in Sources => \A r \in Replies.companies_house.items :
                                                                     Answered(r) => Matched(r.body)
                               /\ Paths \in Seq(STRING) /\ "robots" \notin Range(Paths)
                               /\ Feeds \in Seq(STRING)
                               /\ Hours \in Nat \ {0}

\* The queries in the order they are sent, and whether the answers so far call for one.
Queries(s) ==
    CASE s \in DOMAIN Singles -> <<Singles[s]>>
      [] s = "dns"            -> <<"dmarc", "spf", "dkim", "dnskey", "caa">>
      [] s = "tls"            -> <<"handshake", "legacy">>
      [] s = "headers"        -> <<"page", "well_known", "root">>
      [] s = "trust"          -> <<"robots">> \o Paths
      [] s = "status_page"    -> <<"summary", "status">>
      [] s = "ct"             -> <<"crtsh", "certspotter">>
      [] s = "nvd"            -> <<"cves", "epss">>
      [] s = "edgar"          -> <<"bankruptcies", "doubts">>
      [] s = "abn"            -> <<"names", "detail">>
      [] s \in {"wikidata", "firmographics"} -> <<"search", "first", "second">>
      [] s = "regulatory"     -> Feeds
      [] OTHER                -> <<>>

Wants(s, a, i) ==
    LET q == Queries(s)[i]
    IN i = 1 \/ CASE s = "tls"         -> TlsWantsLegacy(a)
                  [] s = "headers"     -> HeadersWants(a, q)
                  [] s = "trust"       -> TrustWants(a, q)
                  [] s = "status_page" -> StatusWants(a)
                  [] s = "ct"          -> CtWantsFallback(a)
                  [] s = "nvd"         -> NvdWantsEpss(a)
                  [] s = "edgar"       -> EdgarWantsDoubts(a)
                  [] s = "abn"         -> AbnWantsDetail(a)
                  [] s \in {"wikidata", "firmographics"} -> WikidataWants(a, i - 1)
                  [] OTHER             -> TRUE

Outcome(s, a) ==
    CASE s = "gleif" -> Gleif(a)                 [] s = "wikidata" -> Wikidata(a)
      [] s = "firmographics" -> Firmographics(a) [] s = "rdap" -> Rdap(a)
      [] s = "abn" -> Abn(a)                     [] s = "companies_house" -> CompaniesHouse(a)
      [] s = "edgar" -> Edgar(a)                 [] s = "sec_xbrl" -> SecXbrl(a)
      [] s = "gazette" -> Gazette(a)             [] s = "courtlistener" -> CourtListener(a)
      [] s = "eu_insolvency" -> EuInsolvency(a)  [] s = "german_insolvency" -> GermanInsolvency(a)
      [] s = "asic_insolvency" -> AsicInsolvency(a)
      [] s = "canada_bankruptcy" -> CanadaBankruptcy(a)
      [] s = "dns" -> Dns(a)                     [] s = "tls" -> Tls(a)
      [] s = "headers" -> Headers(a)             [] s = "trust" -> Trust(a, Range(Paths))
      [] s = "status_page" -> StatusPage(a)      [] s = "ct" -> Ct(a)
      [] s = "otx" -> Otx(a)                     [] s = "hibp" -> Hibp(a)
      [] s = "kev" -> Kev(a)                     [] s = "nvd" -> Nvd(a)
      [] s = "pdl" -> Pdl(a)                     [] s = "regulatory" -> Regulatory(a)
      [] s = "gdelt" -> Gdelt(a)                 [] s = "estate" -> Estate(a, ProbeCap)

-------------------------------------------------------------------------------
(* A run is idle, asking, done with its result, or on ITA's way to a list: downloading it, with  *)
(* the list fetched, writing the cache.                                                         *)

NoReplies == [q \in {} |-> None]
Phases == {"idle", "asking", "downloading", "fetched", "writing", "done"}
Idle == [phase |-> "idle", a |-> NoReplies, at |-> 1, tries |-> 1, read |-> None, result |-> None]
Asking(p) == run[p].phase = "asking"
Done(p, result) == [run[p] EXCEPT !.phase = "done", !.result = result]

\* Mutant of Position: an answer that failed is asked for again, whatever the attempts.
PositionStays(s, a, i) == IF Answered(a[Queries(s)[i]]) THEN i + 1 ELSE i

\* A run's position after the query at `i' came to what `a' says: the next one that is wanted.
Position(s, a, i) == CHOOSE j \in i + 1 .. Len(Queries(s)) + 1 :
                       /\ j <= Len(Queries(s)) => Wants(s, a, j)
                       /\ \A k \in i + 1 .. j - 1 : ~Wants(s, a, k)

Fetched(p) == run[p].at > Len(Queries(source))

Init == /\ source \in Sources
        /\ run = [p \in {"api", "monitor"} |-> Idle]
        /\ cache = [content |-> "none", age |-> 0, list |-> None, crossed |-> FALSE]
        /\ list \in IF source = "ita" THEN Replies.ita.list ELSE {None}
        /\ kills = 0

\* Collector.collect: _run under a deadline.
Begin(p) == /\ run[p].phase = "idle"
            /\ run' = [run EXCEPT ![p] = [Idle EXCEPT !.phase = "asking"]]
            /\ UNCHANGED <<source, cache, list, kills>>

\* _get_with_retry: one attempt at the query; a transient failure with attempts left is tried again.
Ask(p) ==
    /\ Asking(p) /\ source # "ita" /\ ~Fetched(p)
    /\ LET q == Queries(source)[run[p].at]
       IN \E r \in Replies[source][q] :
            IF r.kind \in Retried(source, q) /\ run[p].tries < Attempts(source)
            THEN run' = [run EXCEPT ![p].tries = @ + 1]
            ELSE LET a == [x \in DOMAIN run[p].a \cup {q} |-> IF x = q THEN r ELSE run[p].a[x]]
                 IN run' = [run EXCEPT ![p].a = a, ![p].tries = 1,
                                       ![p].at = Position(source, a, @)]
    /\ UNCHANGED <<source, cache, list, kills>>

\* What the replies come to; an exception on the way is an error, which Outcome says where it can be.
Conclude(p) == /\ Asking(p) /\ source # "ita" /\ Fetched(p)
               /\ run' = [run EXCEPT ![p] = Done(p, Outcome(source, run[p].a))]
               /\ UNCHANGED <<source, cache, list, kills>>

\* wait_for gives up at an await: whatever was found so far is lost.  ITA awaits its download only.
Deadline(p) == /\ IF source = "ita" THEN run[p].phase = "downloading" ELSE Asking(p)
               /\ run' = [run EXCEPT ![p] = Done(p, Timeout)]
               /\ UNCHANGED <<source, cache, list, kills>>

-------------------------------------------------------------------------------
(* ITA: the list is read from a cache younger than a day, else downloaded and written. *)

Fresh == cache.content # "none" /\ cache.age < Hours

\* Mutant of Screen: a cache that does not parse is an empty list.
ScreenTorn(p, content, entries) ==
    IF content = "torn" THEN Empty ELSE Ita(entries, entries.distinctive)

\* The list that was read decides; one that does not parse raises.
Screen(p, content, entries) == IF content = "torn" THEN Error ELSE Ita(entries, entries.distinctive)

ReadCache(p) ==
    /\ Asking(p) /\ source = "ita" /\ Fresh
    /\ run' = [run EXCEPT ![p] = [Done(p, Screen(p, cache.content, cache.list)) EXCEPT !.read = cache]]
    /\ UNCHANGED <<source, cache, list, kills>>

\* The list is missing or a day old: the run awaits a turn of the limiter and the download.
FindStale(p) ==
    /\ Asking(p) /\ source = "ita" /\ ~Fresh
    /\ run' = [run EXCEPT ![p].phase = "downloading"]
    /\ UNCHANGED <<source, cache, list, kills>>

\* The list arrives as it is published then, or the request fails.
Download(p) ==
    /\ run[p].phase = "downloading"
    /\ \E r \in Replies.ita.download :
         run' = IF Answered(r)
                THEN [run EXCEPT ![p].phase = "fetched",
                                 ![p].read = [content |-> "whole", age |-> 0, list |-> list]]
                ELSE [run EXCEPT ![p] = Done(p, Error)]
    /\ UNCHANGED <<source, cache, list, kills>>

\* write_text opens the file, which empties it, whether or not the other process is writing it.
Truncate(p) ==
    /\ run[p].phase = "fetched"
    /\ run' = [run EXCEPT ![p].phase = "writing"]
    /\ cache' = [content |-> "torn", age |-> 0, list |-> None,
                 crossed |-> \E other \in Procs \ {p} : run[other].phase = "writing"]
    /\ UNCHANGED <<source, list, kills>>

\* The file is filled, and what was downloaded is screened.  Of two writes that crossed, the later
\* one may leave the rest of the other, longer list behind its own.
Written(p) ==
    /\ run[p].phase = "writing"
    /\ \/ cache' = [cache EXCEPT !.content = "whole", !.age = 0, !.list = run[p].read.list]
       \/ /\ cache.crossed /\ cache.list # run[p].read.list
          /\ cache' = [cache EXCEPT !.content = "torn", !.age = 0, !.list = None]
    /\ run' = [run EXCEPT ![p] = Done(p, Screen(p, "whole", run[p].read.list))]
    /\ UNCHANGED <<source, list, kills>>

\* The disk is full, or the file is not to be written: an OSError that only `collect' catches.
WriteFails(p) ==
    /\ run[p].phase \in {"fetched", "writing"}
    /\ run' = [run EXCEPT ![p] = Done(p, Error)]
    /\ UNCHANGED <<source, cache, list, kills>>

\* The run is over: its result is the pipeline's.
Return(p) == /\ run[p].phase = "done"
             /\ run' = [run EXCEPT ![p] = Idle]
             /\ UNCHANGED <<source, cache, list, kills>>

\* The process dies, in mid-write perhaps; the file stays as it is.
Kill(p) == /\ kills < MaxKills /\ run[p].phase \notin {"idle", "done"} /\ source = "ita"
           /\ run' = [run EXCEPT ![p] = Idle]
           /\ kills' = kills + 1
           /\ UNCHANGED <<source, cache, list>>

\* The list is published anew, and the cache file ages.
Publish == /\ source = "ita"
           /\ list' \in Replies.ita.list /\ list' # list
           /\ UNCHANGED <<source, run, cache, kills>>

Tick == /\ source = "ita" /\ cache.content # "none" /\ cache.age < Hours
        /\ \A p \in Procs : run[p].phase # "writing"         \* an hour is longer than a write
        /\ cache' = [cache EXCEPT !.age = @ + 1]
        /\ UNCHANGED <<source, run, list, kills>>

Step(p) == \/ Begin(p) \/ Ask(p) \/ Conclude(p) \/ Return(p)
           \/ ReadCache(p) \/ FindStale(p) \/ Download(p) \/ Truncate(p) \/ Written(p) \/ WriteFails(p)

Next == \/ \E p \in Procs : Step(p) \/ Deadline(p) \/ Kill(p)
        \/ Publish \/ Tick

Spec == Init /\ [][Next]_vars

\* The event loop runs every collector's next step, and a file's age is the clock's.
Fairness == (\A p \in {"api", "monitor"} : WF_vars(p \in Procs /\ Step(p))) /\ WF_vars(Tick)
FairSpec == Spec /\ Fairness

-------------------------------------------------------------------------------
\* scoring.yaml, the categories: signal -> the bands that its severities or its context map.
Graded == {"none", "negligible", "some", "many"}
Filed == {"no_adverse_filings", "registration_lapsed", "entity_inactive"}
Presence == {"present", "absent"}
BandsOf ==
  [breach_by_data_class |-> {"no_known_breach", "email_only", "personal_info", "passwords_or_cards"},
   kev_listed_cve |-> {"no_kev_match", "listed"},
   nvd_cve |-> {"no_critical_cve", "cvss_medium_or_low", "cvss_high", "cvss_critical", "probable_exploit"},
   tls_version |-> {"tls_13", "only_tls_12", "weak_ciphers", "tls_10_or_11"},
   cert_validity |-> {"valid", "expiring_lt_30d", "expiring_lt_14d", "expired_serving_prod"},
   hsts |-> Presence, csp |-> Presence, x_frame_opts |-> Presence, caa |-> Presence,
   security_txt |-> Presence, dkim |-> Presence,
   dnssec |-> {"valid", "absent", "misconfigured"},
   subdomain_estate |-> {"small", "medium", "large"},
   stale_hosts |-> Graded, estate_tls_legacy |-> Graded, estate_cert_expired |-> Graded,
   weak_issuance |-> {"none", "wildcard_sprawl", "deprecated_ca_or_key"},
   dmarc |-> {"p_reject", "p_quarantine", "p_none", "absent"},
   spf |-> {"hardfail_all", "softfail_all", "absent"},
   vd_program |-> {"bug_bounty", "security_txt_only", "none"},
   cert_posture |-> {"registry_corroborated", "claimed_unverified", "claimed_expired", "none_claimed"},
   regulator_action |-> {"no_action_found", "formal_investigation", "enforcement_action"},
   entity_status |-> {"active_good_standing", "registration_lapsed", "registration_retired", "entity_inactive"},
   entity_existence |-> {"entity_active_confirmed", "entity_dissolved"},
   entity_maturity |-> {"mature_gt_10", "established_5_10", "young_2_5", "startup_lt_2", "new_lt_1"},
   domain_registration |-> {"domain_established", "domain_recent", "domain_new", "domain_expiring", "domain_suspended"},
   sec_filing |-> Filed, insolvency_notice |-> Filed, bankruptcy_petition |-> Filed,
   sec_going_concern |-> {"no_adverse_filings", "audit_qualification"},
   program_disclosure |-> {"detailed_policies", "marketing_only", "none"},
   contactability |-> {"dpo_and_security_contact", "partial", "none_published"},
   reporting_posture |-> {"substantive", "partial", "none"}]

\* Counts are banded by the normaliser, and these signals are in no scored category.
Unscored == {"sanctions_screen_hit", "eu_insolvency", "german_insolvency", "asic_insolvency",
             "canada_bankruptcy"}

Finished(p) == run[p].phase = "done"

\* A source that never answered says nothing about the vendor: a run in which every query that was
\* sent went unheard brings no finding (base.py's error isolation; the DNS records alone are read
\* as absent, dns_collector._records).
SilenceIsNotEvidence ==
    \A p \in Procs : Finished(p) /\ source \notin {"dns", "ita"}
                       /\ (\A q \in DOMAIN run[p].a : run[p].a[q].kind = "none")
                     => run[p].result.findings = {}

\* What must have been answered before `nothing was found' is evidence: every query, of the
\* regulators' feeds one, and EDGAR's first.  For HIBP, 404 is an answer.
Searched(a) ==
    CASE source = "regulatory" -> \E q \in DOMAIN a : Answered(a[q])
      [] source = "edgar"      -> Answered(a.bankruptcies)
      [] source = "hibp"       -> Answered(a.breaches) \/ a.breaches.kind = "missing"
      [] OTHER                 -> \A q \in DOMAIN a : Answered(a[q])

\* A clean receipt, which counts as evidence of absence in the confidence, comes only from a search
\* that was answered, whatever attempts failed before (clean_reliability, the _clean results).
ReceiptIsAnswered ==
    \A p \in Procs : Finished(p) /\ run[p].result.clean => Searched(run[p].a)

\* Whatever a collector observes, the model has a severity or a context label for: a band that
\* scoring.yaml does not know would weigh nothing and raise no flag (normalize_one).  EDGAR's
\* going-concern flag is such a band: see DoubtIsHeard.
BandsAreMapped ==
    \A p \in Procs : Finished(p) =>
      \A f \in run[p].result.findings :
        \/ f[1] \in Unscored \cup {"sec_going_concern"} \/ f[2] = "counted"
        \/ f[2] \in BandsOf[f[1]]

\* A screening that returned, clean or with a hit, read a list that was whole and younger than a
\* day, and says what that list says: the file is shared with another process that may be writing
\* it at the same time, may have left it torn or may have died writing it, and a download is
\* awaited between the check of the file and the write (ItaCollector._list).
ScreenedAgainstTheList ==
    \A p \in Procs : Finished(p) /\ source = "ita" /\ run[p].result.status \in {"ok", "empty"} =>
      /\ run[p].read.content = "whole" /\ run[p].read.age < Hours
      /\ run[p].result.status = "ok" <=> run[p].read.list.matched /\ run[p].read.list.distinctive

\* Every run ends by its own budget of attempts, even if no deadline ever falls.
Collected == \A p \in {"api", "monitor"} : Asking(p) ~> run[p].phase \in {"idle", "done"}

\* What is stored of a run: the findings whose signal is in some category (normalize_one).
Stored(p) == {f \in run[p].result.findings : f[1] \in DOMAIN BandsOf}

\* The days of operation an entity_maturity finding carries: of the entity, or of its domain.
Days(p) == IF ~\E f \in run[p].result.findings : f[1] = "entity_maturity" THEN None
           ELSE IF source = "rdap" THEN run[p].a.domain.body.age
           ELSE (CHOOSE e \in MatchedEntity(run[p].a) : TRUE).inception

\* What a register or a domain's registry says of a company that is gone or going.
Distressed(findings) == \E flag \in Flagged(findings) : flag[3] \in {"ceased", "impaired"}

\* A vendor that a register or its domain's registry says is gone or going never reads as one to
\* sign with: the continuity endpoint's advice blocks, although its standing comes from the
\* stability score wherever there is one (get_vendor_continuity).
DistressBlocks ==
    \A p \in Procs : Finished(p) /\ Distressed(Stored(p))
                     => Blocking(ContinuityView(Stored(p), Days(p)))

\* Whatever age a register gives a vendor, none included, one adverse fact more never raises its
\* stability score, lifts its gate or lowers its age risk (BusinessStabilityScore.compute,
\* compute_age_differentiation_profile).  A proceeding may be listed anywhere among the others, but
\* an old one not before the recent one that is charged.
AdverseNeverHelps ==
    \A p \in Procs : Finished(p) /\ source = "rdap" => AdverseAt(Days(p))

\* A recent insolvency is charged as one, whatever other proceedings are listed with it and in what
\* order (_apply_financial_penalties, `Recent insolvency, significant penalty').
RecentIsCharged ==
    \A p \in Procs : Finished(p) /\ source = "rdap" =>
      \A x \in Profiles(AgeBand(Days(p))) : Contains(x.records, "recent") => PastCharge(x.records) = 20

\* Insolvency is a gate of the stability score, and past insolvency a penalty: the endpoint answers
\* for a vendor whatever its registers say of it (models.InsolvencyRecord, get_vendor_stability).
StabilityAnswers ==
    \A p \in Procs : Finished(p) /\ Stored(p) # {} => StabilityView(Stored(p), Days(p)).answered

\* The auditor's doubt that EDGAR found in the vendor's own filing reaches the going-concern flag of
\* the vendor's stability view, which api.py calls critical for it.
DoubtIsHeard ==
    \A p \in Procs : Finished(p) /\ source = "edgar" /\ run[p].result.status = "ok" /\ Doubted(run[p].a)
                     => GoingConcern(Stored(p))

\* The reply that says a company is there: of GLEIF and Companies House the record whose name is
\* closest, of the Australian register the detail of a strong match, of Wikidata the entity whose
\* website is the vendor's, and of the domain's registry a domain that is in order and is no longer
\* young, if it says how old it is.
Attested(s, a) ==
    CASE s = "gleif" ->
           \E rec \in Range(a.records.body) :
             /\ rec.entity # "INACTIVE" /\ rec.reg \notin {"RETIRED", "LAPSED"}
             /\ \A other \in Range(a.records.body) : other.name <= rec.name
      [] s = "companies_house" ->
           \E item \in Range(a.items.body) :
             /\ item.name >= 2 /\ item.status = "active"
             /\ \A other \in Range(a.items.body) : other.name <= item.name
      [] s = "abn" ->
           /\ \E match \in Range(a.names.body) : match.name >= 2 /\ match.current
           /\ Answered(a.detail) /\ a.detail.body = "active"
      [] s = "wikidata" ->
           \E q \in {"first", "second"} \cap DOMAIN a :
             Answered(a[q]) /\ a[q].body.ours /\ ~a[q].body.dissolved
      [] s = "rdap" ->
           LET domain == a.domain.body
           IN /\ ~domain.suspended /\ (domain.expires # None => domain.expires >= 30)
              /\ domain.age # None => domain.age >= 730
      [] OTHER -> FALSE

\* No news is not good news: a company is `sound' only where the reply that a register or the
\* domain's registry gave says so, and not by default; a search that found nothing, or found a
\* stranger, leaves its standing unknown (continuity.py and the five collectors).
SoundIsAttested ==
    \A p \in Procs : Finished(p) /\ Standing(Stored(p)) = "sound" => Attested(source, run[p].a)

\* What is published as a long-established domain registration is one whose age the registry gave
\* (continuity.py, `Every entry is a fact a registry published').
EstablishedIsDated ==
    \A p \in Procs : Finished(p) /\ <<"domain_registration", "domain_established">> \in Stored(p)
                     => run[p].a.domain.body.age # None

\* The severest thing the model knows of a host is reported when the host serves it: an expired
\* certificate on the apex is the observation that caps a grade (scoring.yaml, `expired_serving_prod').
ExpiredIsSeen ==
    \A p \in Procs : Finished(p) /\ source = "tls" /\ run[p].result.status # "timeout" =>
      LET served == run[p].a.handshake.body
      IN served # None /\ served.days # None /\ served.days < 0
           => <<"cert_validity", "expired_serving_prod">> \in run[p].result.findings
===============================================================================
