---------------------------- MODULE MCCollection ----------------------------
EXTENDS Collection

Page(headers) == {Ok(headers), [kind |-> "denied", body |-> {}], Failure("none")}
Down == {Failure("none"), Failure("failing"), Failure("denied")}
Broken == Down \cup {Failure("limited"), Failure("missing"), Failure("garbled")}
Oks(bodies) == {Ok(b) : b \in bodies}

TrustPages == [certs : BOOLEAN, contacts : BOOLEAN, long : BOOLEAN]
Entity(ours) == [ours : {ours}, dissolved : BOOLEAN, inception : {None, 100, 5000}]
Records == {[name |-> n, reg |-> r, entity |-> e] :
              n \in {1, 3}, r \in {"ISSUED", "LAPSED", "RETIRED"}, e \in {"ACTIVE", "INACTIVE"}}
Matches == [name : {1, 2}, current : BOOLEAN]
Items == [name : {1, 2}, status : {"active", "dissolved", "voluntary"}]
Seqs(S) == {<<>>} \cup {<<x>> : x \in S} \cup (S \X S)
Domains == {[suspended |-> s, expires |-> x, age |-> g] :
              s \in BOOLEAN, x \in {None, 10, 90}, g \in {None, 100, 1000, 2000, 4000, 8000}}
Words == SUBSET {"term", "name", "active"}
Certs == {[version |-> v, days |-> d] : v \in {"1.2", "1.3"}, d \in {None, 5, 20, 90}}
Expired == [version |-> "1.3", days |-> -3]

MCPaths == <<"security", "trust">>
MCFeeds == <<"FTC", "UK-ICO", "CNIL">>

MCReplies ==
  [dns |-> [dmarc |-> Oks({"reject", "quarantine", "none", "misspelt", "unrelated"}) \cup {Failure("none"), Failure("missing")},
            spf |-> Oks({"-all", "~all", "+all", "unrelated"}) \cup {Failure("none")},
            dkim |-> {Ok("key"), Failure("none")},
            dnskey |-> {Ok("key"), Failure("none")},
            caa |-> {Ok("record"), Failure("missing")}],
   tls |-> [handshake |-> Oks(Certs) \cup {Failure("none"), Failure("refused"),
                                           [kind |-> "refused", body |-> Expired]},
            legacy |-> {Ok("TLSv1"), Failure("none"), Failure("refused")}],
   headers |-> [page |-> Oks(SUBSET Hardening) \cup Page({}),
                well_known |-> Oks({"contact", "other"}) \cup {Failure("none"), Failure("missing")},
                root |-> Oks({"contact", "other"}) \cup {Failure("none")}],
   trust |-> [robots |-> Oks({{}, {"trust"}}) \cup {Failure("none")},
              security |-> Oks(TrustPages) \cup {Failure("none"), Failure("missing")},
              trust |-> Oks(TrustPages) \cup {Failure("none")}],
   status_page |-> [summary |-> Oks({"statuspage", "other"}) \cup Down,
                    status |-> Oks({"statuspage", "other"}) \cup Down],
   ct |-> [crtsh |-> Oks(BOOLEAN) \cup Broken, certspotter |-> Oks(BOOLEAN) \cup Broken],
   otx |-> [passive |-> Oks({0, 3}) \cup Broken],
   hibp |-> [breaches |-> Oks(SUBSET (SUBSET {"passwords", "phones", "emails"})) \cup Broken],
   kev |-> [catalogue |-> Oks({0, 2}) \cup Broken],
   nvd |-> [cves |-> Oks(SUBSET {"critical", "high", "medium"}) \cup Broken,
            epss |-> Oks(SUBSET {"critical", "medium"}) \cup Broken],
   pdl |-> [row |-> {Ok("row"), Failure("missing")}],
   regulatory |-> [f \in Range(MCFeeds) |-> Oks(SUBSET {"order", "probe"}) \cup {Failure("none"), Failure("garbled")}],
   gdelt |-> [articles |-> Oks({0, 2}) \cup Broken],
   estate |-> [hosts |-> Oks([ranked : {<<>>, <<"www">>, <<"www", "apex", "dev">>}, excluded : {{}, {"www"}}])],
   gleif |-> [records |-> Oks(Seqs(Records)) \cup Broken],
   wikidata |-> [search |-> Oks(0 .. 2) \cup Broken,
                 first |-> Oks(Entity(TRUE) \cup Entity(FALSE)) \cup Down,
                 second |-> Oks(Entity(TRUE) \cup Entity(FALSE)) \cup Down],
   firmographics |-> [search |-> Oks(0 .. 2) \cup Broken,
                      first |-> Oks(Entity(TRUE)) \cup Down,
                      second |-> Oks(Entity(FALSE)) \cup Down],
   rdap |-> [domain |-> Oks(Domains) \cup Broken],
   abn |-> [names |-> Oks(Seqs(Matches)) \cup Broken, detail |-> Oks({"active", "cancelled", "other"}) \cup Broken],
   companies_house |-> [items |-> Oks(Seqs(Items)) \cup Broken],
   edgar |-> [bankruptcies |-> Oks(0 .. 1) \cup Broken, doubts |-> Oks(0 .. 1) \cup Broken],
   sec_xbrl |-> [filings |-> Oks(0 .. 1) \cup Broken],
   gazette |-> [notices |-> Oks(SUBSET {2410, 2440, 2500}) \cup Broken],
   courtlistener |-> [dockets |-> Oks(SUBSET {"7", "11", "341"}) \cup Broken],
   eu_insolvency |-> [page |-> Oks(Words) \cup Broken],
   german_insolvency |-> [page |-> Oks(Words) \cup Broken],
   asic_insolvency |-> [page |-> Oks(Words) \cup Broken],
   canada_bankruptcy |-> [records |-> Oks(SUBSET {"active", "closed", "odd"}) \cup Broken],
   ita |-> [download |-> {Ok("list"), Failure("none"), Failure("failing")},
            list |-> [matched : BOOLEAN, distinctive : BOOLEAN]]]
=============================================================================
