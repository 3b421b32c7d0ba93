--------------------------- MODULE PerimeterSources ---------------------------
(***************************************************************************)
(* The sources that look at the vendor from outside: its own hosts (DNS,   *)
(* TLS, headers, trust and status pages, the estate), what others saw of   *)
(* it (CT logs, OTX, HIBP, KEV, NVD, PDL) and what is published about it   *)
(* (the screening list, the regulators' feeds, GDELT).  One operator per   *)
(* collector takes the replies `a' of its queries to what the run returns; *)
(* a query that the code did not send is not in the domain of `a'.         *)
(***************************************************************************)
EXTENDS CollectorBase

YesNo(b, yes, no) == IF b THEN yes ELSE no

\* Whether some sent query of the set was answered with something in `good'.
Found(a, queries, good) == \E q \in queries \cap DOMAIN a : Answered(a[q]) /\ a[q].body \in good

-------------------------------------------------------------------------------
(* DNS: a query that never resolved reads as a record that is not there. *)

DmarcBand(a) == CASE Found(a, {"dmarc"}, {"reject"})             -> "p_reject"
                  [] Found(a, {"dmarc"}, {"quarantine"})         -> "p_quarantine"
                  [] Found(a, {"dmarc"}, {"none", "misspelt"})   -> "p_none"
                  [] OTHER                                       -> "absent"

\* Mutant of SpfBand: a record that allows everyone has a band of its own.
SpfAllows(a) == IF Found(a, {"spf"}, {"+all"}) THEN "allow_all" ELSE "absent"

SpfBand(a) == CASE Found(a, {"spf"}, {"-all"})          -> "hardfail_all"
                [] Found(a, {"spf"}, {"~all", "+all"})  -> "softfail_all"
                [] OTHER                                -> "absent"

Dns(a) == Result("ok", {<<"dmarc", DmarcBand(a)>>, <<"spf", SpfBand(a)>>,
                        <<"dnssec", YesNo(Answered(a.dnskey), "valid", "absent")>>,
                        <<"caa", YesNo(Answered(a.caa), "present", "absent")>>}
                         \cup IF Answered(a.dkim) THEN {<<"dkim", "present">>} ELSE {})

-------------------------------------------------------------------------------
(* TLS: the handshake verifies the certificate, so one that does not verify ends the run. *)

CertBand(days) == CASE days = None                  -> "valid"
                    [] days # None /\ days < 0      -> "expired_serving_prod"
                    [] days # None /\ days \in 0 .. 13  -> "expiring_lt_14d"
                    [] days # None /\ days \in 14 .. 29 -> "expiring_lt_30d"
                    [] OTHER                        -> "valid"

VersionBand(a) == CASE Answered(a.legacy)                       -> "tls_10_or_11"
                    [] ~Answered(a.legacy) /\ a.handshake.body.version = "1.2" -> "only_tls_12"
                    [] OTHER                                    -> "tls_13"

TlsWantsLegacy(a) == Answered(a.handshake)

Tls(a) == Read(a.handshake, {},
               Result("ok", {<<"tls_version", VersionBand(a)>>,
                             <<"cert_validity", CertBand(a.handshake.body.days)>>}))

-------------------------------------------------------------------------------
(* Headers: any page that came back is read, an error page as well. *)

Hardening == {"hsts", "csp", "x_frame_opts"}
Published(a) == Found(a, {"well_known", "root"}, {"contact"})

\* The second location is asked only when the first had none.
HeadersWants(a, q) == a.page.kind # "none" /\ (q = "root" => ~Found(a, {"well_known"}, {"contact"}))

\* Mutant of Headers: no page at all reads like a page without headers.
HeadersOfSilence(a) ==
    Result("ok", {<<h, YesNo(a.page.body # None /\ h \in a.page.body, "present", "absent")>> : h \in Hardening})

Headers(a) ==
    IF a.page.kind = "none" THEN Error
    ELSE Result("ok", {<<h, YesNo(h \in a.page.body, "present", "absent")>> : h \in Hardening}
                        \cup {<<"security_txt", YesNo(Published(a), "present", "absent")>>,
                              <<"vd_program", YesNo(Published(a), "security_txt_only", "none")>>})

-------------------------------------------------------------------------------
(* The trust page and the status page: whatever could not be fetched is not there. *)

\* Paths that robots.txt does not forbid; a page is [certs, contacts, long].
Pages(a, paths) == {a[p].body : p \in {q \in paths \cap DOMAIN a : Answered(a[q])}}

TrustWants(a, path) == Answered(a.robots) => path \notin a.robots.body

Trust(a, paths) ==
    LET pages == Pages(a, paths)
        certs == \E p \in pages : p.certs
        contacts == \E p \in pages : p.contacts
        long == \E p \in pages : p.long
    IN IF pages = {} THEN Empty
       ELSE Result("ok", {<<"cert_posture", YesNo(certs, "claimed_unverified", "none_claimed")>>,
                          <<"program_disclosure", YesNo(long, "detailed_policies", "marketing_only")>>,
                          <<"contactability", YesNo(contacts, "dpo_and_security_contact", "none_published")>>,
                          <<"reporting_posture", YesNo(long, "substantive", "partial")>>})

StatusWants(a) == ~Found(a, {"summary"}, {"statuspage"})
StatusPage(a) == IF Found(a, {"summary", "status"}, {"statuspage"}) THEN Result("ok", {}) ELSE Empty

-------------------------------------------------------------------------------
(* Names seen elsewhere: CT logs with their fallback, and passive DNS.  A finding that is a *)
(* count has the band `counted': the normaliser, not the collector, bands it.               *)

CtWantsFallback(a) == ~Answered(a.crtsh)

CtFindings(wildcard) == {<<"subdomain_estate", "counted">>, <<"stale_hosts", "counted">>,
                         <<"weak_issuance", YesNo(wildcard, "wildcard_sprawl", "none")>>}

Ct(a) == IF Answered(a.crtsh) THEN Result("ok", CtFindings(a.crtsh.body))
         ELSE Read(a.certspotter, {}, Result("ok", CtFindings(a.certspotter.body)))

Otx(a) == Read(a.passive, {"missing"},
               IF a.passive.body = 0 THEN Empty
               ELSE Result("ok", {<<"subdomain_estate", "counted">>}))

-------------------------------------------------------------------------------
(* Breaches and vulnerabilities.  HIBP says 404 for a domain in no breach. *)

Severe == {"passwords", "cards", "bank", "historical"}
Personal == {"phones", "addresses", "births", "ids"}
BreachBand(classes) == CASE classes \cap Severe # {} -> "passwords_or_cards"
                         [] classes \cap Severe = {} /\ classes \cap Personal # {} -> "personal_info"
                         [] OTHER -> "email_only"

\* Mutant of Hibp: a rate-limited lookup is a domain without a breach.
HibpShrugs(a) == IF Answered(a.breaches) /\ a.breaches.body # {}
                 THEN Result("ok", {<<"breach_by_data_class", BreachBand(c)>> : c \in a.breaches.body})
                 ELSE Receipt("breach_by_data_class", "no_known_breach")

Hibp(a) ==
    IF a.breaches.kind = "missing" \/ (Answered(a.breaches) /\ a.breaches.body = {})
    THEN Receipt("breach_by_data_class", "no_known_breach")
    ELSE Read(a.breaches, {}, Result("ok", {<<"breach_by_data_class", BreachBand(c)>> : c \in a.breaches.body}))

\* KEV: how many entries name the vendor.
Kev(a) == Read(a.catalogue, {}, IF a.catalogue.body = 0 THEN Receipt("kev_listed_cve", "no_kev_match")
                                ELSE Result("ok", {<<"kev_listed_cve", "listed">>}))

\* NVD: the scored, recent CVEs by severity; a failed EPSS lookup changes nothing.
CveBand(severity) == CASE severity = "critical" -> "cvss_critical"
                       [] severity = "high"     -> "cvss_high"
                       [] OTHER                 -> "cvss_medium_or_low"

NvdWantsEpss(a) == Answered(a.cves) /\ a.cves.body # {}

\* `epss' answers with the severities of which some CVE is likely to be exploited.
Probable(a) == IF "epss" \in DOMAIN a /\ Answered(a.epss) THEN a.epss.body ELSE {}

Nvd(a) ==
    Read(a.cves, {},
         IF a.cves.body = {} THEN Receipt("nvd_cve", "no_critical_cve")
         ELSE Result("ok", {<<"nvd_cve", YesNo(s \in Probable(a), "probable_exploit", CveBand(s))>> : s \in a.cves.body}))

Pdl(a) == IF Answered(a.row) THEN Result("ok", {}) ELSE Empty

-------------------------------------------------------------------------------
(* What is published about the vendor. *)

\* The screening list, once it was read; a name of generic words alone is not screened, and says so.
Ita(list, distinctive) ==
    IF ~distinctive \/ ~list.matched THEN Empty ELSE Result("ok", {<<"sanctions_screen_hit", "possible">>})

\* The regulators' feeds, each with what its matching entries are.
ActionBand(entry) == IF entry = "order" THEN "enforcement_action" ELSE "formal_investigation"
Reached(a) == {f \in DOMAIN a : Answered(a[f])}

Regulatory(a) ==
    LET entries == UNION {a[f].body : f \in Reached(a)}
    IN IF Reached(a) = {} THEN Error
       ELSE IF entries = {} THEN Receipt("regulator_action", "no_action_found")
       ELSE Result("ok", {<<"regulator_action", ActionBand(e)>> : e \in entries})

\* GDELT gathers candidates for a reader and never a finding.
Gdelt(a) == Read(a.articles, {"garbled"}, IF a.articles.body = 0 THEN Empty ELSE Result("ok", {}))

-------------------------------------------------------------------------------
(* The estate (collectors/estate.py): the hosts of a vendor that are probed. *)

\* Survivors other than the apex in the order of their rank, cut to the cap; the apex first.
EstateSample(apex, ranked, excluded, cap) ==
    LET rest == SelectSeq(ranked, LAMBDA n : n # apex /\ n \notin excluded)
        most == IF cap < 1 THEN 0 ELSE cap - 1
    IN <<apex>> \o SubSeq(rest, 1, IF Len(rest) < most THEN Len(rest) ELSE most)

\* EstateCollector asks the sample for a field that it lacks: a sample of more than the apex raises.
Estate(a, cap) ==
    IF Len(EstateSample("apex", a.hosts.body.ranked, a.hosts.body.excluded, cap)) <= 1 THEN Empty ELSE Error
===============================================================================
