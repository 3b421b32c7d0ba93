--------------------------- MODULE CollectionProofs ---------------------------
(***************************************************************************)
(* Proofs about the collectors' runs, for any replies, trust paths, feeds, *)
(* lifetime of the cache and number of processes that die.                 *)
(***************************************************************************)
EXTENDS Collection, SequenceTheorems, TLAPS
WF == INSTANCE WellFoundedInduction

-------------------------------------------------------------------------------
(* The inductive invariant. *)

Both == {"api", "monitor"}

Fields == {"phase", "a", "at", "tries", "read", "result"}
IsRun(r) == r = [x \in Fields |-> r[x]] /\ r.phase \in Phases

\* A run of source s stands at a query that is wanted, or behind the last; it has sent the first query
\* and none that comes later; and whether the one fallback and the one follow-up that the properties
\* are about were sent is what the answer to the first says.
AskedOK(s, r) ==
    s # "ita" /\ r.phase \in {"asking", "done"} =>
      /\ r.at \in 1 .. Len(Queries(s)) + 1
      /\ r.at <= Len(Queries(s)) => Wants(s, r.a, r.at)
      /\ DOMAIN r.a \subseteq {Queries(s)[k] : k \in 1 .. r.at - 1}
      /\ r.at > 1 => Queries(s)[1] \in DOMAIN r.a
      /\ s = "ct" /\ r.at = 3 /\ CtWantsFallback(r.a) => "certspotter" \in DOMAIN r.a
      /\ s = "nvd" /\ "epss" \in DOMAIN r.a => NvdWantsEpss(r.a)

\* The result is the deadline's, or what the answers come to when all were had.
ResultOK(s, r) ==
    s # "ita" /\ r.phase = "done" =>
      \/ r.result = Timeout
      \/ r.at = Len(Queries(s)) + 1 /\ r.result = Outcome(s, r.a)

\* Only ITA downloads; a process that has a list to write holds a whole one, and one that is done has
\* screened against a whole list that was young, unless it has no verdict.
ScreenOK(s, r) ==
    /\ r.phase \in {"downloading", "fetched", "writing"} => s = "ita"
    /\ r.phase \in {"fetched", "writing"} => r.read = [content |-> "whole", age |-> 0, list |-> r.read.list]
    /\ s = "ita" /\ r.phase = "done" =>
         /\ ~r.result.clean
         /\ r.result.findings \subseteq {<<"sanctions_screen_hit", "possible">>}
         /\ r.result.status \in {"ok", "empty"} =>
              /\ r.read.content = "whole" /\ r.read.age < Hours
              /\ r.result.status = "ok" <=> r.read.list.matched /\ r.read.list.distinctive

RunOK(s, r) == IsRun(r) /\ AskedOK(s, r) /\ ResultOK(s, r) /\ ScreenOK(s, r)
RunsOK == run = [p \in Both |-> run[p]] /\ \A p \in Both : RunOK(source, run[p])
CacheOK == /\ cache = [x \in {"content", "age", "list", "crossed"} |-> cache[x]]
           /\ cache.content \in {"none", "torn", "whole"}
CollectInv == source \in Sources /\ RunsOK /\ CacheOK

-------------------------------------------------------------------------------
(* Where a run goes next. *)

LEMMA LessIsWellFounded ==
    \E R : WF!IsWellFoundedOn(R, Nat) /\ \A x, y \in Nat : x < y => <<x, y>> \in R
<1>1. \A x, y \in Nat : x < y => <<x, y>> \in WF!OpToRel(<, Nat)
  BY DEF WF!OpToRel
<1> QED BY <1>1, WF!NatLessThanWellFounded, Zenon

\* A part of the naturals that an order is well founded on has a minimal member.
LEMMA MinimalNatural ==
    ASSUME NEW R, WF!IsWellFoundedOn(R, Nat), NEW T, T \subseteq Nat, T # {}
    PROVE  \E x \in T : \A y \in T : ~(<<y, x>> \in R)
BY WF!WFMin, Zenon

\* A set of naturals with a member has a least one.
LEMMA LeastNatural ==
    ASSUME NEW T, T \subseteq Nat, T # {}
    PROVE  \E x \in T : \A y \in T : x <= y
<1>1. PICK R : WF!IsWellFoundedOn(R, Nat) /\ \A x, y \in Nat : x < y => <<x, y>> \in R
  BY LessIsWellFounded
<1>2. PICK x \in T : \A y \in T : ~(<<y, x>> \in R)
  BY <1>1, MinimalNatural, Zenon
<1>3. ASSUME NEW y \in T PROVE x <= y
  <2>1. x \in Nat /\ y \in Nat
    OBVIOUS
  <2>2. ~(y < x)
    BY <1>1, <1>2, <2>1
  <2> QED BY <2>1, <2>2
<1> QED BY <1>3

Multi == {"dns", "tls", "headers", "trust", "status_page", "ct", "nvd", "edgar", "abn", "wikidata",
          "firmographics", "regulatory"}

LEMMA SinglesAre ==
    /\ \A s \in Multi \cup {"ita"} : s \notin DOMAIN Singles
    /\ \A s \in Sources : s \in DOMAIN Singles \/ s \in Multi \/ s = "ita"
<1>1. DOMAIN Singles = {"gleif", "companies_house", "sec_xbrl", "rdap", "gazette", "courtlistener",
                        "eu_insolvency", "german_insolvency", "asic_insolvency", "canada_bankruptcy",
                        "otx", "hibp", "kev", "pdl", "gdelt", "estate"}
  BY DEF Singles
<1>2. \A s \in Multi \cup {"ita"} : s \notin DOMAIN Singles
  BY <1>1 DEF Multi
<1>3. \A s \in Sources : s \in DOMAIN Singles \/ s \in Multi \/ s = "ita"
  BY CollectionAssumption DEF Collectors, Multi
<1> QED BY <1>2, <1>3

\* The queries of every collector, case by case.
LEMMA QueriesAre ==
    /\ \A s \in DOMAIN Singles : Queries(s) = <<Singles[s]>>
    /\ Queries("dns") = <<"dmarc", "spf", "dkim", "dnskey", "caa">>
    /\ Queries("tls") = <<"handshake", "legacy">>
    /\ Queries("headers") = <<"page", "well_known", "root">>
    /\ Queries("trust") = <<"robots">> \o Paths
    /\ Queries("status_page") = <<"summary", "status">>
    /\ Queries("ct") = <<"crtsh", "certspotter">>
    /\ Queries("nvd") = <<"cves", "epss">>
    /\ Queries("edgar") = <<"bankruptcies", "doubts">>
    /\ Queries("abn") = <<"names", "detail">>
    /\ Queries("wikidata") = <<"search", "first", "second">>
    /\ Queries("firmographics") = <<"search", "first", "second">>
    /\ Queries("regulatory") = Feeds
<1>1. ASSUME NEW s \in DOMAIN Singles PROVE Queries(s) = <<Singles[s]>>
  <2>1. s \notin Multi
    BY SinglesAre
  <2> QED BY <2>1 DEF Queries, Multi
<1>2. \A s \in Multi : s \notin DOMAIN Singles
  BY SinglesAre
<1> HIDE DEF Singles
<1>3. Queries("dns") = <<"dmarc", "spf", "dkim", "dnskey", "caa">>
  BY <1>2 DEF Queries, Multi
<1>4. Queries("tls") = <<"handshake", "legacy">> /\ Queries("headers") = <<"page", "well_known", "root">>
  BY <1>2 DEF Queries, Multi
<1>5. Queries("trust") = <<"robots">> \o Paths
  BY <1>2 DEF Queries, Multi
<1>6. Queries("status_page") = <<"summary", "status">> /\ Queries("ct") = <<"crtsh", "certspotter">>
  BY <1>2 DEF Queries, Multi
<1>7. Queries("nvd") = <<"cves", "epss">> /\ Queries("edgar") = <<"bankruptcies", "doubts">>
  BY <1>2 DEF Queries, Multi
<1>8. Queries("abn") = <<"names", "detail">> /\ Queries("regulatory") = Feeds
  BY <1>2 DEF Queries, Multi
<1>9. /\ Queries("wikidata") = <<"search", "first", "second">>
      /\ Queries("firmographics") = <<"search", "first", "second">>
  BY <1>2 DEF Queries, Multi
<1> QED BY <1>1, <1>3, <1>4, <1>5, <1>6, <1>7, <1>8, <1>9

\* The trust collector's first query is robots.txt, and no later one is.
LEMMA TrustQueries ==
    /\ Len(Queries("trust")) \in Nat
    /\ Queries("trust")[1] = "robots"
    /\ \A k \in 2 .. Len(Queries("trust")) : Queries("trust")[k] # "robots"
    /\ Len(Queries("trust")) >= 1
<1> DEFINE S == STRING \cup {"robots"}
<1>1. Paths \in Seq(S)
  <2>1. Len(Paths) \in Nat /\ Paths \in [1 .. Len(Paths) -> STRING]
    BY CollectionAssumption, LenProperties
  <2>2. Paths \in [1 .. Len(Paths) -> S]
    BY <2>1
  <2> QED BY <2>1, <2>2, SeqDef
<1>0. <<"robots">> \in Seq(S) /\ Len(<<"robots">>) = 1 /\ <<"robots">>[1] = "robots"
  OBVIOUS
<1>2. Len(Paths) \in Nat /\ DOMAIN Paths = 1 .. Len(Paths)
  BY <1>1, LenProperties
<1>3. \A k \in 1 .. Len(Paths) : Paths[k] # "robots"
  BY <1>2, CollectionAssumption DEF Range
<1>4. /\ Len(<<"robots">> \o Paths) = 1 + Len(Paths)
      /\ \A k \in 1 .. 1 + Len(Paths) :
            (<<"robots">> \o Paths)[k] = IF k <= 1 THEN <<"robots">>[k] ELSE Paths[k - 1]
  BY <1>0, <1>1, ConcatProperties
<1>5. \A k \in 2 .. 1 + Len(Paths) : k - 1 \in 1 .. Len(Paths) /\ (<<"robots">> \o Paths)[k] = Paths[k - 1]
  BY <1>2, <1>4
<1>6. (<<"robots">> \o Paths)[1] = "robots"
  BY <1>0, <1>2, <1>4
<1> QED BY <1>2, <1>3, <1>4, <1>5, <1>6, QueriesAre

\* How many there are: regulators' feeds there may be none.
LEMMA QueriesHaveLength ==
    ASSUME NEW s \in Sources, s # "ita"
    PROVE  /\ Len(Queries(s)) \in Nat
           /\ s # "regulatory" => Len(Queries(s)) >= 1
           /\ s \in DOMAIN Singles => Len(Queries(s)) = 1
           /\ s \in {"ct", "nvd"} => Len(Queries(s)) = 2
<1>1. CASE s \in DOMAIN Singles
  <2>1. Len(<<Singles[s]>>) = 1
    OBVIOUS
  <2>2. Len(Queries(s)) = 1
    BY <1>1, <2>1, QueriesAre
  <2> QED BY <1>1, <2>2, SinglesAre DEF Multi
<1>2. CASE s = "trust"
  BY <1>2, TrustQueries, SinglesAre DEF Multi
<1>3. CASE s = "regulatory"
  BY <1>3, CollectionAssumption, QueriesAre, LenProperties, SinglesAre DEF Multi
<1>4. CASE s = "dns"
  <2>1. Len(<<"dmarc", "spf", "dkim", "dnskey", "caa">>) = 5
    OBVIOUS
  <2> QED BY <1>4, <2>1, QueriesAre, SinglesAre DEF Multi
<1>5. CASE s \in {"headers", "wikidata", "firmographics"}
  <2>1. Len(<<"page", "well_known", "root">>) = 3 /\ Len(<<"search", "first", "second">>) = 3
    OBVIOUS
  <2>2. Len(Queries(s)) = 3
    BY <1>5, <2>1, QueriesAre
  <2> QED BY <1>5, <2>2, SinglesAre DEF Multi
<1>6. CASE s \in {"tls", "status_page", "ct", "nvd", "edgar", "abn"}
  <2>1. \A x, y : Len(<<x, y>>) = 2
    OBVIOUS
  <2>2. \E x, y : Queries(s) = <<x, y>>
    BY <1>6, QueriesAre, Zenon
  <2>3. Len(Queries(s)) = 2
    BY <2>1, <2>2
  <2> QED BY <1>6, <2>3, SinglesAre DEF Multi
<1> QED BY <1>1, <1>2, <1>3, <1>4, <1>5, <1>6, SinglesAre DEF Multi

\* The next position is the first that is wanted, or the one behind the last.
LEMMA PositionIsNext ==
    ASSUME NEW s \in Sources, s # "ita", NEW a, NEW i \in 1 .. Len(Queries(s))
    PROVE  LET j == Position(s, a, i)
           IN /\ j \in i + 1 .. Len(Queries(s)) + 1
              /\ j <= Len(Queries(s)) => Wants(s, a, j)
              /\ \A k \in i + 1 .. j - 1 : ~Wants(s, a, k)
<1> DEFINE n == Len(Queries(s))
           T == {j \in i + 1 .. n + 1 : j <= n => Wants(s, a, j)}
           Next1(j) == /\ j <= n => Wants(s, a, j)
                       /\ \A k \in i + 1 .. j - 1 : ~Wants(s, a, k)
<1>1. n \in Nat
  BY QueriesHaveLength
<1>2. n + 1 \in T /\ T \subseteq Nat
  BY <1>1
<1>3. PICK j \in T : \A y \in T : j <= y
  BY <1>2, LeastNatural
<1>4. ASSUME NEW k \in i + 1 .. j - 1 PROVE ~Wants(s, a, k)
  <2>1. k \in i + 1 .. n + 1 /\ k \notin T /\ k <= n
    BY <1>1, <1>3
  <2> QED BY <2>1
<1>5. j \in i + 1 .. n + 1 /\ Next1(j)
  BY <1>3, <1>4
<1>6. Position(s, a, i) = CHOOSE x \in i + 1 .. n + 1 : Next1(x)
  BY DEF Position
<1> HIDE DEF Next1, n
<1>7. Position(s, a, i) \in i + 1 .. n + 1 /\ Next1(Position(s, a, i))
  BY <1>5, <1>6
<1> QED BY <1>7 DEF Next1, n

-------------------------------------------------------------------------------
(* The initial state and the steps. *)

LEMMA IdleIsOK == ASSUME NEW s PROVE RunOK(s, Idle)
BY DEF RunOK, IsRun, Fields, Phases, AskedOK, ResultOK, ScreenOK, Idle

LEMMA InitOK == Init => CollectInv
<1> SUFFICES ASSUME Init PROVE CollectInv
  OBVIOUS
<1>1. RunsOK
  BY IdleIsOK DEF Init, RunsOK, Both
<1> QED BY <1>1 DEF Init, CollectInv, CacheOK

\* A step that changes one run keeps the invariant if the run is in order afterwards.
LEMMA Changed ==
    ASSUME CollectInv, NEW p \in Both, NEW r, RunOK(source, r),
           run' = [run EXCEPT ![p] = r], source' = source, CacheOK'
    PROVE  CollectInv'
<1>1. \A q \in Both : run'[q] = IF q = p THEN r ELSE run[q]
  BY DEF CollectInv, RunsOK
<1>2. \A q \in Both : RunOK(source', run'[q])
  BY <1>1 DEF CollectInv, RunsOK
<1>3. run' = [q \in Both |-> run'[q]]
  BY DEF CollectInv, RunsOK
<1> QED BY <1>2, <1>3 DEF CollectInv, RunsOK

LEMMA BeginOK == ASSUME CollectInv, NEW p \in Both, Begin(p) PROVE CollectInv'
<1> DEFINE r == [Idle EXCEPT !.phase = "asking"]
<1>1. r = [phase |-> "asking", a |-> NoReplies, at |-> 1, tries |-> 1, read |-> None, result |-> None]
  BY DEF Idle
<1>2. DOMAIN r.a = {}
  BY <1>1 DEF NoReplies
<1>3. ASSUME source # "ita" PROVE AskedOK(source, r)
  <2>1. Len(Queries(source)) \in Nat
    BY <1>3, QueriesHaveLength DEF CollectInv
  <2>2. Wants(source, r.a, r.at)
    BY <1>1 DEF Wants
  <2> HIDE DEF r
  <2>3. r.at = 1
    BY <1>1
  <2> QED BY <1>2, <2>1, <2>2, <2>3 DEF AskedOK
<1>4. RunOK(source, r)
  BY <1>1, <1>3 DEF RunOK, IsRun, Fields, Phases, AskedOK, ResultOK, ScreenOK
<1>5. source' = source /\ CacheOK' /\ run' = [run EXCEPT ![p] = r]
  BY DEF Begin, CollectInv, CacheOK
<1> QED BY <1>4, <1>5, Changed

LEMMA DoneIs ==
    ASSUME NEW p, NEW result, IsRun(run[p])
    PROVE  LET r == Done(p, result)
           IN /\ IsRun(r) /\ r.phase = "done" /\ r.result = result
              /\ r.a = run[p].a /\ r.at = run[p].at /\ r.read = run[p].read
BY DEF Done, IsRun, Fields, Phases

LEMMA DeadlineOK == ASSUME CollectInv, NEW p \in Both, Deadline(p) PROVE CollectInv'
<1> DEFINE r == Done(p, Timeout)
<1>1. IsRun(run[p]) /\ AskedOK(source, run[p]) /\ (source # "ita" => run[p].phase = "asking")
  BY DEF CollectInv, RunsOK, RunOK, Deadline, Asking
<1>2. /\ IsRun(r) /\ r.phase = "done" /\ r.result = Timeout
      /\ r.a = run[p].a /\ r.at = run[p].at /\ r.read = run[p].read
  BY <1>1, DoneIs
<1> HIDE DEF r
<1>3. AskedOK(source, r)
  BY <1>1, <1>2 DEF AskedOK
<1>4. ~Timeout.clean /\ Timeout.status = "timeout" /\ Timeout.findings = {}
  BY DEF Timeout, Result
<1>5. RunOK(source, r)
  BY <1>2, <1>3, <1>4 DEF RunOK, ResultOK, ScreenOK
<1>6. source' = source /\ CacheOK' /\ run' = [run EXCEPT ![p] = r]
  BY DEF Deadline, CollectInv, CacheOK, r
<1> QED BY <1>5, <1>6, Changed

LEMMA ConcludeOK == ASSUME CollectInv, NEW p \in Both, Conclude(p) PROVE CollectInv'
<1> DEFINE r == Done(p, Outcome(source, run[p].a))
<1>1. IsRun(run[p]) /\ AskedOK(source, run[p]) /\ run[p].phase = "asking" /\ source # "ita"
  BY DEF CollectInv, RunsOK, RunOK, Conclude, Asking
<1>2. /\ IsRun(r) /\ r.phase = "done" /\ r.result = Outcome(source, run[p].a)
      /\ r.a = run[p].a /\ r.at = run[p].at /\ r.read = run[p].read
  BY <1>1, DoneIs
<1> HIDE DEF r
<1>3. AskedOK(source, r)
  BY <1>1, <1>2 DEF AskedOK
<1>4. run[p].at = Len(Queries(source)) + 1
  <2>1. Len(Queries(source)) \in Nat
    BY <1>1, QueriesHaveLength DEF CollectInv
  <2> QED BY <1>1, <2>1 DEF AskedOK, Conclude, Fetched
<1>5. RunOK(source, r)
  BY <1>1, <1>2, <1>3, <1>4 DEF RunOK, ResultOK, ScreenOK
<1>6. source' = source /\ CacheOK' /\ run' = [run EXCEPT ![p] = r]
  BY DEF Conclude, CollectInv, CacheOK, r
<1> QED BY <1>5, <1>6, Changed

\* What was answered so far, with the answer to one query more.
Heard(a, q, x) == [y \in DOMAIN a \cup {q} |-> IF y = q THEN x ELSE a[y]]

LEMMA AnswerIsOK ==
    ASSUME NEW s \in Sources, s # "ita", NEW r, IsRun(r), AskedOK(s, r), r.phase = "asking",
           r.at <= Len(Queries(s)), NEW x
    PROVE  LET b == Heard(r.a, Queries(s)[r.at], x)
           IN AskedOK(s, [r EXCEPT !.a = b, !.tries = 1, !.at = Position(s, b, r.at)])
<1> DEFINE n == Len(Queries(s))
           q == Queries(s)[r.at]
           b == Heard(r.a, q, x)
           j == Position(s, b, r.at)
           t == [r EXCEPT !.a = b, !.tries = 1, !.at = j]
<1>1. n \in Nat /\ r.at \in 1 .. n
  BY QueriesHaveLength DEF AskedOK
<1>2. /\ j \in r.at + 1 .. n + 1
      /\ j <= n => Wants(s, b, j)
      /\ \A k \in r.at + 1 .. j - 1 : ~Wants(s, b, k)
  BY <1>1, PositionIsNext
<1>3. t.a = b /\ t.at = j
  BY DEF IsRun, Fields
<1>4. DOMAIN b = DOMAIN r.a \cup {q} /\ \A y \in DOMAIN r.a : y # q => b[y] = r.a[y]
  BY DEF Heard
<1>5. DOMAIN r.a \subseteq {Queries(s)[k] : k \in 1 .. r.at - 1} /\ (r.at > 1 => Queries(s)[1] \in DOMAIN r.a)
  BY DEF AskedOK
<1> HIDE DEF t, j, b
<1>6. t.at \in 1 .. n + 1 /\ (t.at <= n => Wants(s, t.a, t.at))
  BY <1>1, <1>2, <1>3
<1>7. DOMAIN t.a \subseteq {Queries(s)[k] : k \in 1 .. t.at - 1}
  <2>1. \A k \in 1 .. r.at : k \in 1 .. t.at - 1
    BY <1>1, <1>2, <1>3
  <2>2. r.at \in 1 .. r.at /\ \A k \in 1 .. r.at - 1 : k \in 1 .. r.at
    BY <1>1
  <2> HIDE DEF n
  <2> QED BY <1>3, <1>4, <1>5, <2>1, <2>2
<1>8. t.at > 1 => Queries(s)[1] \in DOMAIN t.a
  BY <1>1, <1>3, <1>4, <1>5
<1>9. ASSUME s = "ct", t.at = 3, CtWantsFallback(t.a) PROVE "certspotter" \in DOMAIN t.a
  <2>1. Queries(s) = <<"crtsh", "certspotter">>
    BY <1>9, QueriesAre
  <2>2. CASE r.at = 1
    <3>1. 2 \in r.at + 1 .. j - 1 /\ ~Wants(s, b, 2)
      BY <1>2, <1>3, <1>9, <2>2
    <3> QED BY <1>3, <1>9, <3>1 DEF Wants
  <2>3. CASE r.at # 1
    <3>1. r.at = 2 /\ q = "certspotter"
      BY <1>1, <2>1, <2>3
    <3> QED BY <1>3, <1>4, <3>1
  <2> QED BY <2>2, <2>3
<1>10. ASSUME s = "nvd", "epss" \in DOMAIN t.a PROVE NvdWantsEpss(t.a)
  <2>1. Queries(s) = <<"cves", "epss">> /\ n = 2
    BY <1>10, QueriesAre
  <2>2. CASE r.at = 1
    <3>1. DOMAIN r.a = {} /\ q = "cves"
      BY <1>5, <2>1, <2>2
    <3> QED BY <1>3, <1>4, <1>10, <3>1
  <2>3. CASE r.at # 1
    <3>1. r.at = 2 /\ q = "epss"
      BY <1>1, <2>1, <2>3
    <3>2. NvdWantsEpss(r.a)
      BY <1>10, <3>1, <2>1 DEF AskedOK, Wants
    <3>3. "cves" \in DOMAIN r.a
      BY <1>5, <2>1, <3>1
    <3>4. b["cves"] = r.a["cves"]
      BY <1>4, <3>1, <3>3
    <3> QED BY <1>3, <3>2, <3>4 DEF NvdWantsEpss
  <2> QED BY <2>2, <2>3
<1>11. AskedOK(s, t)
  BY <1>6, <1>7, <1>8, <1>9, <1>10 DEF AskedOK
<1> QED BY <1>11 DEF t, b, j

LEMMA AskOK == ASSUME CollectInv, NEW p \in Both, Ask(p) PROVE CollectInv'
<1> DEFINE q == Queries(source)[run[p].at]
           n == Len(Queries(source))
<1>1. IsRun(run[p]) /\ AskedOK(source, run[p]) /\ run[p].phase = "asking" /\ source # "ita" /\ source \in Sources
  BY DEF CollectInv, RunsOK, RunOK, Ask, Asking
<1>2. run[p].at <= n
  <2>1. n \in Nat
    BY <1>1, QueriesHaveLength
  <2>2. ~(run[p].at > n)
    BY DEF Ask, Fetched
  <2>3. run[p].at \in 1 .. n + 1
    BY <1>1 DEF AskedOK
  <2> QED BY <2>1, <2>2, <2>3
<1>3. source' = source /\ CacheOK'
  BY DEF Ask, CollectInv, CacheOK
<1>4. PICK x \in Replies[source][q] :
         IF x.kind \in Retried(source, q) /\ run[p].tries < Attempts(source)
         THEN run' = [run EXCEPT ![p].tries = @ + 1]
         ELSE LET b == Heard(run[p].a, q, x)
              IN run' = [run EXCEPT ![p].a = b, ![p].tries = 1, ![p].at = Position(source, b, @)]
  BY DEF Ask, Heard
<1>5. CASE run' = [run EXCEPT ![p].tries = @ + 1]
  <2> DEFINE r == [run[p] EXCEPT !.tries = @ + 1]
  <2>1. IsRun(r) /\ r.phase = "asking" /\ r.a = run[p].a /\ r.at = run[p].at
    BY <1>1 DEF IsRun, Fields
  <2>2. run' = [run EXCEPT ![p] = r]
    BY <1>5
  <2> HIDE DEF r
  <2>3. RunOK(source, r)
    BY <1>1, <2>1 DEF RunOK, AskedOK, ResultOK, ScreenOK
  <2> QED BY <1>3, <2>2, <2>3, Changed
<1>6. CASE LET b == Heard(run[p].a, q, x)
           IN run' = [run EXCEPT ![p].a = b, ![p].tries = 1, ![p].at = Position(source, b, @)]
  <2> DEFINE b == Heard(run[p].a, q, x)
             r == [run[p] EXCEPT !.a = b, !.tries = 1, !.at = Position(source, b, run[p].at)]
  <2>1. AskedOK(source, r)
    BY <1>1, <1>2, AnswerIsOK
  <2> HIDE DEF b, q
  <2>2. IsRun(r) /\ r.phase = "asking"
    BY <1>1 DEF IsRun, Fields
  <2>3. run' = [run EXCEPT ![p] = r]
    BY <1>1, <1>6 DEF b, IsRun, Fields, CollectInv, RunsOK
  <2> HIDE DEF r
  <2>4. RunOK(source, r)
    BY <1>1, <2>1, <2>2 DEF RunOK, ResultOK, ScreenOK
  <2> QED BY <1>3, <2>3, <2>4, Changed
<1> QED BY <1>4, <1>5, <1>6

\* What the screening of a list says: nothing, of one that does not parse.
LEMMA ScreenedWhole ==
    ASSUME NEW p, NEW entries
    PROVE  LET result == Screen(p, "whole", entries)
           IN /\ ~result.clean /\ result.findings \subseteq {<<"sanctions_screen_hit", "possible">>}
              /\ result.status = "ok" <=> entries.matched /\ entries.distinctive
BY DEF Screen, Ita, Empty, Result

LEMMA ScreenedTorn ==
    ASSUME NEW p, NEW entries
    PROVE  LET result == Screen(p, "torn", entries)
           IN ~result.clean /\ result.findings = {} /\ result.status = "error"
BY DEF Screen, Error, Result

LEMMA ReadCacheOK == ASSUME CollectInv, NEW p \in Both, ReadCache(p) PROVE CollectInv'
<1> DEFINE result == Screen(p, cache.content, cache.list)
           r == [Done(p, result) EXCEPT !.read = cache]
<1>1. IsRun(run[p]) /\ source = "ita" /\ cache.content \in {"torn", "whole"} /\ cache.age < Hours
  BY DEF CollectInv, RunsOK, RunOK, CacheOK, ReadCache, Fresh
<1>2. ASSUME NEW res PROVE LET t == [Done(p, res) EXCEPT !.read = cache]
                           IN IsRun(t) /\ t.phase = "done" /\ t.result = res /\ t.read = cache
  <2> DEFINE d == Done(p, res)
  <2>1. IsRun(d) /\ d.phase = "done" /\ d.result = res
    BY <1>1, DoneIs
  <2> HIDE DEF d
  <2>2. LET t == [d EXCEPT !.read = cache]
        IN IsRun(t) /\ t.phase = "done" /\ t.result = res /\ t.read = cache
    BY <2>1 DEF IsRun, Fields
  <2> QED BY <2>2 DEF d
<1>3. IsRun(r) /\ r.phase = "done" /\ r.result = result /\ r.read = cache
  BY <1>2
<1>4. /\ ~result.clean /\ result.findings \subseteq {<<"sanctions_screen_hit", "possible">>}
      /\ result.status \in {"ok", "empty"} =>
           /\ cache.content = "whole"
           /\ result.status = "ok" <=> cache.list.matched /\ cache.list.distinctive
  BY <1>1, ScreenedWhole, ScreenedTorn
<1>5. source' = source /\ CacheOK' /\ run' = [run EXCEPT ![p] = r]
  BY DEF ReadCache, CollectInv, CacheOK
<1> HIDE DEF r, result
<1>6. RunOK(source, r)
  BY <1>1, <1>3, <1>4 DEF RunOK, AskedOK, ResultOK, ScreenOK
<1> QED BY <1>5, <1>6, Changed

\* A run of ITA that ends without a verdict.
LEMMA NoVerdictOK ==
    ASSUME CollectInv, NEW p \in Both, source = "ita", source' = source, UNCHANGED cache,
           run' = [run EXCEPT ![p] = Done(p, Error)]
    PROVE  CollectInv'
<1> DEFINE r == Done(p, Error)
<1>1. IsRun(run[p])
  BY DEF CollectInv, RunsOK, RunOK
<1>2. IsRun(r) /\ r.phase = "done" /\ r.result = Error
  BY <1>1, DoneIs
<1>3. ~Error.clean /\ Error.findings = {} /\ Error.status = "error"
  BY DEF Error, Result
<1>4. CacheOK' /\ run' = [run EXCEPT ![p] = r]
  BY DEF CollectInv, CacheOK
<1> HIDE DEF r
<1>5. RunOK(source, r)
  BY <1>2, <1>3 DEF RunOK, AskedOK, ResultOK, ScreenOK
<1> QED BY <1>4, <1>5, Changed

LEMMA FindStaleOK == ASSUME CollectInv, NEW p \in Both, FindStale(p) PROVE CollectInv'
<1> DEFINE r == [run[p] EXCEPT !.phase = "downloading"]
<1>1. IsRun(run[p]) /\ source = "ita" /\ source' = source
  BY DEF CollectInv, RunsOK, RunOK, FindStale
<1>2. IsRun(r) /\ r.phase = "downloading"
  BY <1>1 DEF IsRun, Fields, Phases
<1>3. run' = [run EXCEPT ![p] = r] /\ CacheOK'
  BY DEF FindStale, CollectInv, CacheOK
<1> HIDE DEF r
<1>4. RunOK(source, r)
  BY <1>1, <1>2 DEF RunOK, AskedOK, ResultOK, ScreenOK
<1> QED BY <1>1, <1>3, <1>4, Changed

LEMMA DownloadOK == ASSUME CollectInv, NEW p \in Both, Download(p) PROVE CollectInv'
<1>1. IsRun(run[p]) /\ source = "ita" /\ source' = source /\ UNCHANGED cache
  BY DEF CollectInv, RunsOK, RunOK, ScreenOK, Download
<1>2. CASE run' = [run EXCEPT ![p] = Done(p, Error)]
  BY <1>1, <1>2, NoVerdictOK
<1>3. CASE run' = [run EXCEPT ![p].phase = "fetched",
                              ![p].read = [content |-> "whole", age |-> 0, list |-> list]]
  <2> DEFINE d == [content |-> "whole", age |-> 0, list |-> list]
             r == [run[p] EXCEPT !.phase = "fetched", !.read = d]
  <2>1. IsRun(r) /\ r.phase = "fetched" /\ r.read = d
    BY <1>1 DEF IsRun, Fields, Phases
  <2>2. CacheOK'
    BY <1>1 DEF CollectInv, CacheOK
  <2>3. run' = [run EXCEPT ![p] = r]
    BY <1>1, <1>3 DEF IsRun, Fields, CollectInv, RunsOK
  <2>4. d = [content |-> "whole", age |-> 0, list |-> d.list]
    OBVIOUS
  <2> HIDE DEF r, d
  <2>5. RunOK(source, r)
    BY <1>1, <2>1, <2>4 DEF RunOK, AskedOK, ResultOK, ScreenOK
  <2> QED BY <1>1, <2>2, <2>3, <2>5, Changed
<1> QED BY <1>2, <1>3 DEF Download

LEMMA TruncateOK == ASSUME CollectInv, NEW p \in Both, Truncate(p) PROVE CollectInv'
<1> DEFINE r == [run[p] EXCEPT !.phase = "writing"]
<1>1. RunOK(source, run[p]) /\ run[p].phase = "fetched" /\ source' = source
  BY DEF CollectInv, RunsOK, Truncate
<1>2. IsRun(r) /\ r.phase = "writing" /\ r.read = run[p].read
  BY <1>1 DEF RunOK, IsRun, Fields, Phases
<1>3. run' = [run EXCEPT ![p] = r]
  BY DEF Truncate
<1>4. CacheOK'
  BY Zenon DEF Truncate, CacheOK, CollectInv
<1> HIDE DEF r
<1>5. RunOK(source, r)
  BY <1>1, <1>2 DEF RunOK, AskedOK, ResultOK, ScreenOK
<1> QED BY <1>1, <1>3, <1>4, <1>5, Changed

LEMMA WrittenOK == ASSUME CollectInv, NEW p \in Both, Written(p) PROVE CollectInv'
<1> DEFINE entries == run[p].read.list
           result == Screen(p, "whole", entries)
           r == Done(p, result)
<1>1. RunOK(source, run[p]) /\ run[p].phase = "writing" /\ source' = source
  BY DEF CollectInv, RunsOK, Written
<1>2. IsRun(r) /\ r.phase = "done" /\ r.result = result /\ r.read = run[p].read
  <2>1. IsRun(run[p])
    BY <1>1 DEF RunOK
  <2> HIDE DEF result
  <2> QED BY <2>1, DoneIs
<1>3. /\ ~result.clean /\ result.findings \subseteq {<<"sanctions_screen_hit", "possible">>}
      /\ result.status = "ok" <=> entries.matched /\ entries.distinctive
  BY ScreenedWhole
<1>4. source = "ita" /\ run[p].read = [content |-> "whole", age |-> 0, list |-> entries]
  BY <1>1 DEF RunOK, ScreenOK
<1>5. 0 < Hours
  BY CollectionAssumption
<1>6. run' = [run EXCEPT ![p] = r]
  BY DEF Written
<1>7. CacheOK'
  <2>1. CASE cache' = [cache EXCEPT !.content = "whole", !.age = 0, !.list = run[p].read.list]
    BY <2>1 DEF CollectInv, CacheOK
  <2>2. CASE cache' = [cache EXCEPT !.content = "torn", !.age = 0, !.list = None]
    BY <2>2 DEF CollectInv, CacheOK
  <2> QED BY <2>1, <2>2 DEF Written
<1> HIDE DEF r, result, entries
<1>8. RunOK(source, r)
  <2>1. r.read.content = "whole" /\ r.read.age = 0 /\ r.read.list = entries
    BY <1>2, <1>4
  <2> QED BY <1>2, <1>3, <1>4, <1>5, <2>1 DEF RunOK, AskedOK, ResultOK, ScreenOK
<1> QED BY <1>1, <1>6, <1>7, <1>8, Changed

LEMMA WriteFailsOK == ASSUME CollectInv, NEW p \in Both, WriteFails(p) PROVE CollectInv'
<1>1. source = "ita"
  BY DEF CollectInv, RunsOK, RunOK, ScreenOK, WriteFails
<1> QED BY <1>1, NoVerdictOK DEF WriteFails

LEMMA RestartOK == ASSUME CollectInv, NEW p \in Both, Return(p) \/ Kill(p) PROVE CollectInv'
<1>1. source' = source /\ CacheOK' /\ run' = [run EXCEPT ![p] = Idle]
  BY DEF Return, Kill, CollectInv, CacheOK
<1> QED BY <1>1, IdleIsOK, Changed

LEMMA PublishOK == ASSUME CollectInv, Publish \/ Tick \/ UNCHANGED vars PROVE CollectInv'
<1>1. source' = source /\ run' = run
  BY DEF Publish, Tick, vars
<1>2. CacheOK'
  BY DEF Publish, Tick, vars, CollectInv, CacheOK
<1> QED BY <1>1, <1>2 DEF CollectInv, RunsOK

\* Whatever the sources reply, in every behaviour the runs and the cache are in order.
THEOREM CollectionInvariant == Spec => []CollectInv
<1>1. ASSUME CollectInv, [Next]_vars PROVE CollectInv'
  <2>1. CASE UNCHANGED vars \/ Publish \/ Tick
    BY <1>1, <2>1, PublishOK
  <2>2. ASSUME NEW p \in Procs, Step(p) \/ Deadline(p) \/ Kill(p) PROVE CollectInv'
    <3>1. p \in Both
      BY DEF Procs, Both
    <3> QED BY <1>1, <2>2, <3>1, BeginOK, AskOK, ConcludeOK, RestartOK, DeadlineOK, ReadCacheOK,
                FindStaleOK, DownloadOK, TruncateOK, WrittenOK, WriteFailsOK DEF Step
  <2> QED BY <1>1, <2>1, <2>2 DEF Next
<1> QED BY InitOK, <1>1, PTL DEF Spec

-------------------------------------------------------------------------------
(* What a run has heard came from a source, which makes an age a number or None. *)

RepliedInv == \A p \in Both : \A q \in DOMAIN run[p].a : run[p].a[q] \in Replies[source][q]

LEMMA RepliedKept == CollectInv /\ RepliedInv /\ [Next]_vars => RepliedInv'
<1> SUFFICES ASSUME CollectInv, RepliedInv, [Next]_vars PROVE RepliedInv'
  OBVIOUS
<1>1. run = [p \in Both |-> run[p]] /\ \A p \in Both : IsRun(run[p])
  BY DEF CollectInv, RunsOK, RunOK
\* A step that changes one run, which has heard no more or starts anew.
<1>2. ASSUME NEW p \in Both, NEW r, run' = [run EXCEPT ![p] = r], source' = source,
             \A q \in DOMAIN r.a : r.a[q] \in Replies[source][q]
      PROVE  RepliedInv'
  BY <1>1, <1>2 DEF RepliedInv
<1>3. ASSUME NEW p \in Both, NEW r, run' = [run EXCEPT ![p] = r], source' = source, r.a \in {run[p].a, NoReplies}
      PROVE  RepliedInv'
  <2>1. \A q \in DOMAIN r.a : r.a[q] \in Replies[source][q]
    BY <1>3 DEF RepliedInv, NoReplies
  <2> QED BY <1>2, <1>3, <2>1
<1>4. CASE UNCHANGED vars \/ Publish \/ Tick
  BY <1>4 DEF vars, Publish, Tick, RepliedInv
<1>5. ASSUME NEW p \in Both, Begin(p) PROVE RepliedInv'
  <2>1. [Idle EXCEPT !.phase = "asking"].a = NoReplies
    BY DEF Idle
  <2> QED BY <1>3, <1>5, <2>1 DEF Begin
<1>6. ASSUME NEW p \in Both, Return(p) \/ Kill(p) PROVE RepliedInv'
  <2>1. Idle.a = NoReplies
    BY DEF Idle
  <2> QED BY <1>3, <1>6, <2>1 DEF Return, Kill
<1>7. ASSUME NEW p \in Both, NEW result, run' = [run EXCEPT ![p] = Done(p, result)], source' = source
      PROVE  RepliedInv'
  <2>1. Done(p, result).a = run[p].a
    BY <1>1, DoneIs
  <2> QED BY <1>3, <1>7, <2>1
<1>8. ASSUME NEW p \in Both, Deadline(p) \/ Conclude(p) PROVE RepliedInv'
  BY <1>7, <1>8 DEF Deadline, Conclude
<1>9. ASSUME NEW p \in Both, Written(p) \/ WriteFails(p) PROVE RepliedInv'
  BY <1>7, <1>9 DEF Written, WriteFails
<1>10. ASSUME NEW p \in Both, NEW phase, run' = [run EXCEPT ![p].phase = phase], source' = source
       PROVE  RepliedInv'
  <2> DEFINE r == [run[p] EXCEPT !.phase = phase]
  <2>1. run' = [run EXCEPT ![p] = r]
    BY <1>10
  <2>2. r.a = run[p].a
    BY <1>1 DEF IsRun, Fields
  <2> HIDE DEF r
  <2> QED BY <1>3, <1>10, <2>1, <2>2
<1>11. ASSUME NEW p \in Both, FindStale(p) \/ Truncate(p) PROVE RepliedInv'
  BY <1>10, <1>11 DEF FindStale, Truncate
<1>12. ASSUME NEW p \in Both, ReadCache(p) PROVE RepliedInv'
  <2> DEFINE d == Done(p, Screen(p, cache.content, cache.list))
             r == [d EXCEPT !.read = cache]
  <2>1. d.a = run[p].a /\ IsRun(d)
    BY <1>1, DoneIs
  <2>2. run' = [run EXCEPT ![p] = r] /\ source' = source
    BY <1>12 DEF ReadCache
  <2>3. r.a = d.a
    <3> HIDE DEF d
    <3> QED BY <2>1 DEF IsRun, Fields
  <2> HIDE DEF r, d
  <2> QED BY <1>3, <2>1, <2>2, <2>3
<1>13. ASSUME NEW p \in Both, Download(p) PROVE RepliedInv'
  <2>1. source' = source
    BY <1>13 DEF Download
  <2>2. CASE run' = [run EXCEPT ![p] = Done(p, Error)]
    BY <1>7, <2>1, <2>2
  <2>3. CASE run' = [run EXCEPT ![p].phase = "fetched", ![p].read = [content |-> "whole", age |-> 0, list |-> list]]
    <3> DEFINE r == [run[p] EXCEPT !.phase = "fetched", !.read = [content |-> "whole", age |-> 0, list |-> list]]
    <3>1. run' = [run EXCEPT ![p] = r]
      BY <1>1, <2>3 DEF IsRun, Fields
    <3>2. r.a = run[p].a
      BY <1>1 DEF IsRun, Fields
    <3> HIDE DEF r
    <3> QED BY <1>3, <2>1, <3>1, <3>2
  <2> QED BY <1>13, <2>2, <2>3 DEF Download
<1>14. ASSUME NEW p \in Both, Ask(p) PROVE RepliedInv'
  <2> DEFINE q == Queries(source)[run[p].at]
  <2>1. source' = source
    BY <1>14 DEF Ask
  <2>2. PICK x \in Replies[source][q] :
           \/ run' = [run EXCEPT ![p].tries = @ + 1]
           \/ LET b == Heard(run[p].a, q, x)
              IN run' = [run EXCEPT ![p].a = b, ![p].tries = 1, ![p].at = Position(source, b, @)]
    BY <1>14 DEF Ask, Heard
  <2>3. CASE run' = [run EXCEPT ![p].tries = @ + 1]
    <3> DEFINE r == [run[p] EXCEPT !.tries = @ + 1]
    <3>1. run' = [run EXCEPT ![p] = r]
      BY <2>3
    <3>2. r.a = run[p].a
      BY <1>1 DEF IsRun, Fields
    <3> HIDE DEF r
    <3> QED BY <1>3, <2>1, <3>1, <3>2
  <2>4. CASE LET b == Heard(run[p].a, q, x)
             IN run' = [run EXCEPT ![p].a = b, ![p].tries = 1, ![p].at = Position(source, b, @)]
    <3> DEFINE b == Heard(run[p].a, q, x)
               r == [run[p] EXCEPT !.a = b, !.tries = 1, !.at = Position(source, b, run[p].at)]
    <3>1. DOMAIN b = DOMAIN run[p].a \cup {q} /\ \A y \in DOMAIN b : b[y] = IF y = q THEN x ELSE run[p].a[y]
      BY DEF Heard
    <3> HIDE DEF b, q
    <3>2. run' = [run EXCEPT ![p] = r] /\ r.a = b
      BY <1>1, <2>4 DEF b, IsRun, Fields
    <3>3. \A y \in DOMAIN b : b[y] \in Replies[source][y]
      BY <2>2, <3>1 DEF RepliedInv
    <3> HIDE DEF r
    <3> QED BY <1>2, <2>1, <3>2, <3>3
  <2> HIDE DEF q
  <2> QED BY <2>2, <2>3, <2>4
<1>15. ASSUME NEW p \in Procs, Step(p) \/ Deadline(p) \/ Kill(p) PROVE RepliedInv'
  <2>1. p \in Both
    BY DEF Procs, Both
  <2> QED BY <1>5, <1>6, <1>8, <1>9, <1>12, <1>13, <1>14, <1>15, <1>11, <2>1 DEF Step
<1> QED BY <1>4, <1>15 DEF Next

LEMMA RepliedHolds == Spec => []RepliedInv
<1>1. Init => RepliedInv
  BY DEF Init, RepliedInv, Idle, NoReplies, Both
<1> QED BY <1>1, RepliedKept, CollectionInvariant, PTL DEF Spec

-------------------------------------------------------------------------------
(* What the findings rest on. *)

\* A screening that returned, clean or with a hit, read a list that was whole and younger than a day,
\* and says what that list says, whatever another process did to the cache meanwhile.
THEOREM ScreeningHolds == Spec => []ScreenedAgainstTheList
<1>1. CollectInv => ScreenedAgainstTheList
  <2> SUFFICES ASSUME CollectInv, NEW p \in Procs, Finished(p), source = "ita",
                      run[p].result.status \in {"ok", "empty"}
               PROVE  /\ run[p].read.content = "whole" /\ run[p].read.age < Hours
                      /\ run[p].result.status = "ok" <=> run[p].read.list.matched /\ run[p].read.list.distinctive
    BY DEF ScreenedAgainstTheList
  <2>1. p \in Both
    BY DEF Procs, Both
  <2> QED BY <2>1 DEF CollectInv, RunsOK, RunOK, ScreenOK, Finished
<1> QED BY <1>1, CollectionInvariant, PTL

\* A run that is done was cut off, or has asked everything that its answers called for.
LEMMA DoneMeans ==
    ASSUME CollectInv, NEW p \in Procs, Finished(p), source # "ita"
    PROVE  /\ source \in Sources
           /\ \/ run[p].result = Timeout
              \/ /\ run[p].result = Outcome(source, run[p].a)
                 /\ DOMAIN run[p].a \subseteq {Queries(source)[k] : k \in 1 .. Len(Queries(source))}
                 /\ Len(Queries(source)) >= 1 => Queries(source)[1] \in DOMAIN run[p].a
                 /\ source = "ct" /\ CtWantsFallback(run[p].a) => "certspotter" \in DOMAIN run[p].a
                 /\ source = "nvd" /\ "epss" \in DOMAIN run[p].a => NvdWantsEpss(run[p].a)
<1> DEFINE n == Len(Queries(source))
           r == run[p]
<1>1. p \in Both /\ source \in Sources /\ RunOK(source, r) /\ r.phase = "done"
  BY DEF Procs, Both, CollectInv, RunsOK, Finished
<1>2. CASE r.result = Timeout
  BY <1>1, <1>2
<1>3. CASE r.result # Timeout
  <2>1. n \in Nat /\ r.at = n + 1 /\ r.result = Outcome(source, r.a)
    BY <1>1, <1>3, QueriesHaveLength DEF RunOK, ResultOK
  <2>2. 1 .. r.at - 1 = 1 .. n /\ (n >= 1 <=> r.at > 1)
    BY <2>1
  <2>3. source = "ct" => r.at = 3
    <3>1. source = "ct" => n = 2
      BY <1>1, QueriesHaveLength
    <3>2. r.at = n + 1
      BY <2>1
    <3> HIDE DEF n, r
    <3> QED BY <3>1, <3>2
  <2> QED BY <1>1, <2>1, <2>2, <2>3 DEF RunOK, AskedOK
<1> QED BY <1>2, <1>3

Silent(a) == \A q \in DOMAIN a : a[q].kind = "none"

\* A reply that never came reads as nothing found.
LEMMA ReadSilent == \A r, lenient, result : r.kind = "none" => Read(r, lenient, result).findings = {}
BY DEF Read, Answered, Error, Empty, Result

LEMMA NoFindings == Error.findings = {} /\ Empty.findings = {} /\ Result("ok", {}).findings = {}
BY DEF Error, Empty, Result

\* The one query of the collectors that have one.
LEMMA SinglesIn ==
    /\ Singles.gleif = "records" /\ Singles.companies_house = "items" /\ Singles.sec_xbrl = "filings"
    /\ Singles.rdap = "domain" /\ Singles.gazette = "notices" /\ Singles.courtlistener = "dockets"
    /\ Singles.eu_insolvency = "page" /\ Singles.german_insolvency = "page"
    /\ Singles.asic_insolvency = "page" /\ Singles.canada_bankruptcy = "records"
    /\ Singles.otx = "passive" /\ Singles.hibp = "breaches" /\ Singles.kev = "catalogue"
    /\ Singles.pdl = "row" /\ Singles.gdelt = "articles" /\ Singles.estate = "hosts"
BY DEF Singles

LEMMA SinglesDomain ==
    DOMAIN Singles = {"gleif", "companies_house", "sec_xbrl", "rdap", "gazette", "courtlistener",
                      "eu_insolvency", "german_insolvency", "asic_insolvency", "canada_bankruptcy",
                      "otx", "hibp", "kev", "pdl", "gdelt", "estate"}
BY DEF Singles

\* The answers of a run that asked all it had to.
Answers(s, a) ==
    /\ s \in DOMAIN Singles => DOMAIN a = {Singles[s]}
    /\ s \in Multi \ {"regulatory"} => Queries(s)[1] \in DOMAIN a
    /\ s = "ct" /\ CtWantsFallback(a) => "certspotter" \in DOMAIN a
    /\ s = "nvd" => DOMAIN a \subseteq {"cves", "epss"} /\ ("epss" \in DOMAIN a => NvdWantsEpss(a))

LEMMA DoneAnswers ==
    ASSUME CollectInv, NEW p \in Procs, Finished(p), source # "ita", run[p].result # Timeout
    PROVE  /\ source \in DOMAIN Singles \/ source \in Multi
           /\ run[p].result = Outcome(source, run[p].a) /\ Answers(source, run[p].a)
<1> DEFINE a == run[p].a
           n == Len(Queries(source))
<1>1. /\ source \in Sources
      /\ run[p].result = Outcome(source, a)
      /\ DOMAIN a \subseteq {Queries(source)[k] : k \in 1 .. n}
      /\ n >= 1 => Queries(source)[1] \in DOMAIN a
      /\ source = "ct" /\ CtWantsFallback(a) => "certspotter" \in DOMAIN a
      /\ source = "nvd" /\ "epss" \in DOMAIN a => NvdWantsEpss(a)
  BY DoneMeans
<1>2. source \in DOMAIN Singles \/ source \in Multi
  BY <1>1, SinglesAre
<1>3. ASSUME source \in DOMAIN Singles PROVE DOMAIN a = {Singles[source]}
  <2>1. n = 1 /\ Queries(source) = <<Singles[source]>>
    BY <1>1, <1>3, QueriesHaveLength, QueriesAre
  <2>2. Queries(source)[1] = Singles[source]
    BY <2>1
  <2>3. \A k \in 1 .. n : k = 1
    BY <2>1
  <2> HIDE DEF n
  <2> QED BY <1>1, <2>1, <2>2, <2>3
<1>4. ASSUME source \in Multi \ {"regulatory"} PROVE Queries(source)[1] \in DOMAIN a
  <2>1. n >= 1
    BY <1>1, <1>4, QueriesHaveLength
  <2> QED BY <1>1, <2>1
<1>5. ASSUME source = "nvd" PROVE DOMAIN a \subseteq {"cves", "epss"}
  <2>1. n = 2 /\ Queries(source) = <<"cves", "epss">>
    BY <1>1, <1>5, QueriesHaveLength, QueriesAre
  <2>2. \A k \in 1 .. n : Queries(source)[k] \in {"cves", "epss"}
    BY <2>1
  <2> HIDE DEF n
  <2> QED BY <1>1, <2>2
<1> QED BY <1>1, <1>2, <1>3, <1>4, <1>5 DEF Answers

\* What the collectors that were told nothing come to, one by one.
LEMMA SilentRegisters ==
    ASSUME NEW s \in {"gleif", "companies_house", "sec_xbrl", "rdap", "gazette", "courtlistener",
                      "eu_insolvency", "german_insolvency", "asic_insolvency", "canada_bankruptcy"},
           NEW a, DOMAIN a = {Singles[s]}, Silent(a)
    PROVE  Outcome(s, a).findings = {}
<1>1. a[Singles[s]].kind = "none"
  BY DEF Silent
<1>2. CASE s \in {"gleif", "canada_bankruptcy"}
  <2>1. a.records.kind = "none"
    BY <1>1, <1>2, SinglesIn
  <2> QED BY <1>2, <2>1, ReadSilent DEF Outcome, Gleif, CanadaBankruptcy
<1>3. CASE s = "companies_house"
  <2>1. a.items.kind = "none"
    BY <1>1, <1>3, SinglesIn
  <2> QED BY <1>3, <2>1, ReadSilent DEF Outcome, CompaniesHouse
<1>4. CASE s \in {"sec_xbrl", "rdap"}
  <2>1. (s = "sec_xbrl" => a.filings.kind = "none") /\ (s = "rdap" => a.domain.kind = "none")
    BY <1>1, <1>4, SinglesIn
  <2> QED BY <1>4, <2>1, ReadSilent DEF Outcome, SecXbrl, Rdap
<1>5. CASE s \in {"gazette", "courtlistener"}
  <2>1. (s = "gazette" => a.notices.kind = "none") /\ (s = "courtlistener" => a.dockets.kind = "none")
    BY <1>1, <1>5, SinglesIn
  <2> QED BY <1>5, <2>1, ReadSilent DEF Outcome, Gazette, CourtListener
<1>6. CASE s \in {"eu_insolvency", "german_insolvency", "asic_insolvency"}
  <2>1. a.page.kind = "none"
    BY <1>1, <1>6, SinglesIn
  <2> QED BY <1>6, <2>1, ReadSilent DEF Outcome, EuInsolvency, GermanInsolvency, AsicInsolvency, InsolvencyPage
<1> QED BY <1>2, <1>3, <1>4, <1>5, <1>6

LEMMA SilentSightings ==
    ASSUME NEW s \in {"otx", "hibp", "kev", "pdl", "gdelt", "estate"},
           NEW a, DOMAIN a = {Singles[s]}, Silent(a)
    PROVE  Outcome(s, a).findings = {}
<1>1. a[Singles[s]].kind = "none"
  BY DEF Silent
<1>2. CASE s \in {"otx", "kev"}
  <2>1. (s = "otx" => a.passive.kind = "none") /\ (s = "kev" => a.catalogue.kind = "none")
    BY <1>1, <1>2, SinglesIn
  <2> QED BY <1>2, <2>1, ReadSilent DEF Outcome, Otx, Kev
<1>3. CASE s = "hibp"
  <2>1. a.breaches.kind = "none"
    BY <1>1, <1>3, SinglesIn
  <2> QED BY <1>3, <2>1, ReadSilent DEF Outcome, Hibp, Answered
<1>4. CASE s = "gdelt"
  <2>1. a.articles.kind = "none"
    BY <1>1, <1>4, SinglesIn
  <2> QED BY <1>4, <2>1, ReadSilent DEF Outcome, Gdelt
<1>5. CASE s = "pdl"
  BY <1>5, NoFindings DEF Outcome, Pdl
<1>6. CASE s = "estate"
  BY <1>6, NoFindings DEF Outcome, Estate
<1> QED BY <1>2, <1>3, <1>4, <1>5, <1>6

LEMMA SilentMulti ==
    ASSUME NEW s \in Multi \ {"dns"}, NEW a, Answers(s, a), Silent(a)
    PROVE  Outcome(s, a).findings = {}
<1>1. \A q \in DOMAIN a : a[q].kind = "none" /\ ~Answered(a[q])
  BY DEF Silent, Answered
<1>2. CASE s = "tls"
  <2>1. "handshake" \in DOMAIN a
    BY <1>2, QueriesAre DEF Answers, Multi
  <2> QED BY <1>1, <1>2, <2>1, ReadSilent DEF Outcome, Tls
<1>3. CASE s = "headers"
  <2>1. "page" \in DOMAIN a
    BY <1>3, QueriesAre DEF Answers, Multi
  <2> QED BY <1>1, <1>3, <2>1, NoFindings DEF Outcome, Headers
<1>4. CASE s = "trust"
  <2>1. Pages(a, Range(Paths)) = {}
    BY <1>1 DEF Pages
  <2> QED BY <1>4, <2>1, NoFindings DEF Outcome, Trust
<1>5. CASE s = "status_page"
  BY <1>5, NoFindings DEF Outcome, StatusPage
<1>6. CASE s = "ct"
  <2>1. "crtsh" \in DOMAIN a
    BY <1>6, QueriesAre DEF Answers, Multi
  <2>2. "certspotter" \in DOMAIN a
    BY <1>1, <1>6, <2>1 DEF Answers, CtWantsFallback
  <2> QED BY <1>1, <1>6, <2>1, <2>2, ReadSilent DEF Outcome, Ct
<1>7. CASE s = "nvd"
  <2>1. "cves" \in DOMAIN a
    BY <1>7, QueriesAre DEF Answers, Multi
  <2> QED BY <1>1, <1>7, <2>1, ReadSilent DEF Outcome, Nvd
<1>8. CASE s = "edgar"
  <2>1. "bankruptcies" \in DOMAIN a
    BY <1>8, QueriesAre DEF Answers, Multi
  <2> QED BY <1>1, <1>8, <2>1, ReadSilent DEF Outcome, Edgar
<1>9. CASE s = "abn"
  <2>1. "names" \in DOMAIN a
    BY <1>9, QueriesAre DEF Answers, Multi
  <2> QED BY <1>1, <1>9, <2>1, NoFindings DEF Outcome, Abn
<1>10. CASE s \in {"wikidata", "firmographics"}
  <2>1. "search" \in DOMAIN a
    BY <1>10, QueriesAre DEF Answers, Multi
  <2> QED BY <1>1, <1>10, <2>1, NoFindings DEF Outcome, Wikidata, Firmographics
<1>11. CASE s = "regulatory"
  <2>1. Reached(a) = {}
    BY <1>1 DEF Reached
  <2> QED BY <1>11, <2>1, NoFindings DEF Outcome, Regulatory
<1> QED BY <1>2, <1>3, <1>4, <1>5, <1>6, <1>7, <1>8, <1>9, <1>10, <1>11 DEF Multi

\* A run in which every query that was sent went unheard brings no finding: silence is not evidence.
THEOREM SilenceHolds == Spec => []SilenceIsNotEvidence
<1>1. CollectInv => SilenceIsNotEvidence
  <2> SUFFICES ASSUME CollectInv, NEW p \in Procs, Finished(p), source \notin {"dns", "ita"}, Silent(run[p].a)
               PROVE  run[p].result.findings = {}
    BY DEF SilenceIsNotEvidence, Silent
  <2>1. CASE run[p].result = Timeout
    BY <2>1 DEF Timeout, Result
  <2>2. CASE run[p].result # Timeout
    <3>1. /\ source \in DOMAIN Singles \/ source \in Multi
          /\ run[p].result = Outcome(source, run[p].a) /\ Answers(source, run[p].a)
      BY <2>2, DoneAnswers
    <3>2. CASE source \in DOMAIN Singles
      <4>1. DOMAIN run[p].a = {Singles[source]}
        BY <3>1, <3>2 DEF Answers
      <4>2. CASE source \in {"gleif", "companies_house", "sec_xbrl", "rdap", "gazette", "courtlistener",
                             "eu_insolvency", "german_insolvency", "asic_insolvency", "canada_bankruptcy"}
        BY <3>1, <4>1, <4>2, SilentRegisters, Zenon
      <4>3. CASE source \in {"otx", "hibp", "kev", "pdl", "gdelt", "estate"}
        BY <3>1, <4>1, <4>3, SilentSightings, Zenon
      <4> QED BY <3>2, <4>2, <4>3, SinglesDomain
    <3>3. CASE source \in Multi
      BY <3>1, <3>3, SilentMulti
    <3> QED BY <3>1, <3>2, <3>3
  <2> QED BY <2>1, <2>2
<1> QED BY <1>1, CollectionInvariant, PTL

-------------------------------------------------------------------------------
(* What a receipt rests on. *)

\* A reading is a receipt only of a reply that was answered, and if its body's result is one.
LEMMA ReadClean == \A r, lenient, result : Read(r, lenient, result).clean => Answered(r) /\ result.clean
BY DEF Read, Error, Empty, Result

LEMMA NotClean == /\ ~Error.clean /\ ~Empty.clean /\ ~Timeout.clean
                  /\ \A status, findings : ~Result(status, findings).clean
BY DEF Error, Empty, Timeout, Result

LEMMA ReceiptSingles ==
    ASSUME NEW s \in DOMAIN Singles \ {"hibp"}, NEW a, Outcome(s, a).clean
    PROVE  Answered(a[Singles[s]])
<1>1. CASE s \in {"gleif", "canada_bankruptcy"}
  <2>1. a[Singles[s]] = a.records
    BY <1>1, SinglesIn
  <2> QED BY <1>1, <2>1, ReadClean DEF Outcome, Gleif, CanadaBankruptcy
<1>2. CASE s = "companies_house"
  <2>1. a[Singles[s]] = a.items
    BY <1>2, SinglesIn
  <2> QED BY <1>2, <2>1, ReadClean DEF Outcome, CompaniesHouse
<1>3. CASE s = "sec_xbrl"
  <2>1. a[Singles[s]] = a.filings
    BY <1>3, SinglesIn
  <2> QED BY <1>3, <2>1, ReadClean DEF Outcome, SecXbrl
<1>4. CASE s = "rdap"
  <2>1. a[Singles[s]] = a.domain
    BY <1>4, SinglesIn
  <2> QED BY <1>4, <2>1, ReadClean DEF Outcome, Rdap
<1>5. CASE s = "gazette"
  <2>1. a[Singles[s]] = a.notices
    BY <1>5, SinglesIn
  <2> QED BY <1>5, <2>1, ReadClean DEF Outcome, Gazette
<1>6. CASE s = "courtlistener"
  <2>1. a[Singles[s]] = a.dockets
    BY <1>6, SinglesIn
  <2> QED BY <1>6, <2>1, ReadClean DEF Outcome, CourtListener
<1>7. CASE s \in {"eu_insolvency", "german_insolvency", "asic_insolvency"}
  <2>1. a[Singles[s]] = a.page
    BY <1>7, SinglesIn
  <2> QED BY <1>7, <2>1, ReadClean DEF Outcome, EuInsolvency, GermanInsolvency, AsicInsolvency, InsolvencyPage
<1>8. CASE s = "otx"
  <2>1. a[Singles[s]] = a.passive
    BY <1>8, SinglesIn
  <2> QED BY <1>8, <2>1, ReadClean DEF Outcome, Otx
<1>9. CASE s = "kev"
  <2>1. a[Singles[s]] = a.catalogue
    BY <1>9, SinglesIn
  <2> QED BY <1>9, <2>1, ReadClean DEF Outcome, Kev
<1>10. CASE s = "gdelt"
  <2>1. a[Singles[s]] = a.articles
    BY <1>10, SinglesIn
  <2> QED BY <1>10, <2>1, ReadClean DEF Outcome, Gdelt
<1>11. CASE s \in {"pdl", "estate"}
  BY <1>11, NotClean DEF Outcome, Pdl, Estate
<1> QED BY <1>1, <1>2, <1>3, <1>4, <1>5, <1>6, <1>7, <1>8, <1>9, <1>10, <1>11, SinglesDomain

LEMMA ReceiptMulti ==
    ASSUME NEW s \in Multi, NEW a, Answers(s, a), Outcome(s, a).clean
    PROVE  \/ s = "regulatory" /\ \E q \in DOMAIN a : Answered(a[q])
           \/ s = "edgar" /\ Answered(a.bankruptcies)
           \/ s = "nvd" /\ \A q \in DOMAIN a : Answered(a[q])
<1>1. CASE s \in {"dns", "trust", "status_page"}
  BY <1>1, NotClean DEF Outcome, Dns, Trust, StatusPage
<1>2. CASE s \in {"tls", "headers"}
  BY <1>2, NotClean, ReadClean DEF Outcome, Tls, Headers
<1>3. CASE s = "ct"
  BY <1>3, NotClean, ReadClean DEF Outcome, Ct
<1>4. CASE s \in {"abn", "wikidata", "firmographics"}
  BY <1>4, NotClean DEF Outcome, Abn, Wikidata, Firmographics
<1>5. CASE s = "nvd"
  <2>1. Answered(a.cves)
    BY <1>5, ReadClean DEF Outcome, Nvd
  <2>2. a.cves.body = {}
    BY <1>5, ReadClean, NotClean DEF Outcome, Nvd
  <2>3. DOMAIN a \subseteq {"cves"}
    BY <1>5, <2>2 DEF Answers, NvdWantsEpss
  <2> QED BY <1>5, <2>1, <2>3
<1>6. CASE s = "edgar"
  BY <1>6, ReadClean DEF Outcome, Edgar
<1>7. CASE s = "regulatory"
  <2>1. Reached(a) # {}
    BY <1>7, NotClean DEF Outcome, Regulatory
  <2> QED BY <1>7, <2>1 DEF Reached
<1> QED BY <1>1, <1>2, <1>3, <1>4, <1>5, <1>6, <1>7 DEF Multi

\* A clean receipt comes only from a search that was answered, whatever attempts failed before.
THEOREM ReceiptHolds == Spec => []ReceiptIsAnswered
<1>1. CollectInv => ReceiptIsAnswered
  <2> SUFFICES ASSUME CollectInv, NEW p \in Procs, Finished(p), run[p].result.clean
               PROVE  Searched(run[p].a)
    BY DEF ReceiptIsAnswered
  <2> DEFINE a == run[p].a
  <2>1. source # "ita" /\ run[p].result # Timeout
    BY NotClean DEF CollectInv, RunsOK, RunOK, ScreenOK, Finished, Procs, Both
  <2>2. /\ source \in DOMAIN Singles \/ source \in Multi
        /\ Outcome(source, a).clean /\ Answers(source, a)
    BY <2>1, DoneAnswers
  <2>3. CASE source \in DOMAIN Singles \ {"hibp"}
    <3>1. \A q \in DOMAIN a : Answered(a[q])
      BY <2>2, <2>3, ReceiptSingles DEF Answers
    <3>2. source # "regulatory" /\ source # "edgar" /\ source # "hibp"
      BY <2>3, SinglesDomain
    <3> QED BY <3>1, <3>2 DEF Searched
  <2>4. CASE source = "hibp"
    <3>1. a.breaches.kind = "missing" \/ Answered(a.breaches)
      BY <2>2, <2>4, ReadClean DEF Outcome, Hibp
    <3> QED BY <2>4, <3>1 DEF Searched
  <2>5. CASE source \in Multi
    BY <2>2, <2>5, ReceiptMulti DEF Searched
  <2> QED BY <2>2, <2>3, <2>4, <2>5
<1> QED BY <1>1, CollectionInvariant, PTL

-------------------------------------------------------------------------------
(* What a standing rests on. *)

LEMMA OrderIs == /\ Order("ceased") = 1 /\ Order("impaired") = 2 /\ Order("watch") = 3
                 /\ Order("unknown") = 4 /\ Order("sound") = 5
<1>1. DOMAIN Standings = 1 .. 5
  BY DEF Standings
<1>2. /\ Standings[1] = "ceased" /\ Standings[2] = "impaired" /\ Standings[3] = "watch"
      /\ Standings[4] = "unknown" /\ Standings[5] = "sound"
  BY DEF Standings
<1>3. ASSUME NEW i \in 1 .. 5, NEW j \in 1 .. 5, Standings[i] = Standings[j] PROVE i = j
  <2>1. i \in {1, 2, 3, 4, 5} /\ j \in {1, 2, 3, 4, 5}
    OBVIOUS
  <2> QED BY <1>2, <1>3, <2>1
<1>4. ASSUME NEW i \in 1 .. 5 PROVE Order(Standings[i]) = i
  BY <1>1, <1>3 DEF Order
<1>5. \A i \in {1, 2, 3, 4, 5} : Order(Standings[i]) = i
  BY <1>4
<1> QED BY <1>2, <1>5

LEMMA FlagsAre == \A f \in Flags : f[3] \in {"ceased", "impaired", "watch", "sound"}
BY DEF Flags, FiledAs

\* The worst of the flags decides.
LEMMA StandingIsWorst ==
    ASSUME NEW findings, Flagged(findings) # {}
    PROVE  \E f \in Flagged(findings) : /\ Standing(findings) = f[3]
                                        /\ \A g \in Flagged(findings) : Order(f[3]) <= Order(g[3])
<1> DEFINE flags == Flagged(findings)
           orders == {Order(f[3]) : f \in flags}
<1>1. orders \subseteq Nat /\ orders # {}
  <2>1. ASSUME NEW f \in flags PROVE Order(f[3]) \in Nat
    <3>1. f[3] \in {"ceased", "impaired", "watch", "sound"}
      BY FlagsAre DEF Flagged
    <3> QED BY <3>1, OrderIs
  <2>2. orders \subseteq Nat
    BY <2>1
  <2>3. PICK f \in flags : TRUE
    OBVIOUS
  <2> QED BY <2>2, <2>3
<1>2. PICK least \in orders : \A y \in orders : least <= y
  BY <1>1, LeastNatural
<1>3. PICK f \in flags : Order(f[3]) = least
  BY <1>2
<1>4. \A g \in flags : Order(f[3]) <= Order(g[3])
  BY <1>2, <1>3
<1> DEFINE best == CHOOSE x \in flags : \A g \in flags : Order(x[3]) <= Order(g[3])
<1> HIDE DEF flags
<1>5. best \in flags /\ \A g \in flags : Order(best[3]) <= Order(g[3])
  BY <1>4
<1>6. Standing(findings) = best[3]
  BY DEF Standing, flags
<1> HIDE DEF best
<1> QED BY <1>5, <1>6 DEF flags

\* A vendor that a register or its domain's registry says is gone or going never reads as one to
\* sign with, whatever else is found and whatever its age.
THEOREM DistressHolds == Spec => []DistressBlocks
<1>1. ASSUME NEW findings, NEW days, Distressed(findings) PROVE Blocking(ContinuityView(findings, days))
  <2>1. ContinuityView(findings, days) = Standing(findings)
    BY <1>1 DEF Distressed, ContinuityView, StabilityView, ProfileFails
  <2>2. PICK g \in Flagged(findings) : Order(g[3]) <= 2
    BY <1>1, OrderIs DEF Distressed
  <2>3. PICK f \in Flagged(findings) :
           Standing(findings) = f[3] /\ \A h \in Flagged(findings) : Order(f[3]) <= Order(h[3])
    BY <2>2, StandingIsWorst
  <2>4. f[3] \in {"ceased", "impaired", "watch", "sound"} /\ g[3] \in {"ceased", "impaired", "watch", "sound"}
    BY FlagsAre DEF Flagged
  <2>5. f[3] \in {"ceased", "impaired"}
    BY <2>2, <2>3, <2>4, OrderIs
  <2> QED BY <2>1, <2>3, <2>5 DEF Blocking
<1>2. DistressBlocks
  BY <1>1 DEF DistressBlocks
<1> QED BY <1>2, PTL

\* The signals of a standing that is sound, what they say then, and the sources that say so.
Attesting == {"entity_status", "entity_existence", "domain_registration"}
Words == {<<"entity_status", "active_good_standing">>, <<"entity_existence", "entity_active_confirmed">>,
          <<"domain_registration", "domain_established">>}
Attesters == {"gleif", "abn", "companies_house", "wikidata", "rdap"}

LEMMA SoundWords == \A f \in Flags : f[3] = "sound" => f[1] \in Attesting /\ <<f[1], f[2]>> \in Words
BY DEF Flags, FiledAs, Attesting, Words

\* A reading has findings only of a reply that was answered, and they are its body's.
LEMMA ReadFindings == \A r, lenient, result, f : f \in Read(r, lenient, result).findings
                                                   => Answered(r) /\ f \in result.findings
BY DEF Read, Error, Empty, Result

LEMMA FindingsOf == /\ \A status, findings : Result(status, findings).findings = findings
                    /\ \A signal, band : Receipt(signal, band).findings = {<<signal, band>>}
                    /\ Empty.findings = {} /\ Error.findings = {} /\ Timeout.findings = {}
BY DEF Result, Receipt, Empty, Error, Timeout

\* Of records with small ranks one is best.
LEMMA BestIs ==
    ASSUME NEW records, NEW places, places \subseteq Nat, places # {}, NEW rank,
           \A i \in places : rank[i] \in 0 .. 15
    PROVE  \E i \in places : Best(records, places, rank) = records[i] /\ \A j \in places : rank[j] <= rank[i]
<1> DEFINE shortfalls == {15 - rank[i] : i \in places}
           IsBest(i) == \A j \in places : rank[j] <= rank[i] /\ (j < i => rank[j] < rank[i])
<1>1. shortfalls \subseteq Nat /\ shortfalls # {}
  <2>1. \A i \in places : 15 - rank[i] \in Nat
    <3> TAKE i \in places
    <3>1. rank[i] \in 0 .. 15
      OBVIOUS
    <3> QED BY <3>1
  <2>2. PICK i \in places : TRUE
    OBVIOUS
  <2> QED BY <2>1, <2>2
<1>2. PICK least \in shortfalls : \A y \in shortfalls : least <= y
  <2> HIDE DEF shortfalls
  <2> QED BY <1>1, LeastNatural
<1>3. PICK top \in 0 .. 15 : (\E i \in places : rank[i] = top) /\ \A j \in places : rank[j] <= top
  <2>1. PICK i \in places : least = 15 - rank[i]
    BY <1>2
  <2>2. ASSUME NEW j \in places PROVE rank[j] <= rank[i]
    <3>1. least <= 15 - rank[j] /\ rank[i] \in 0 .. 15 /\ rank[j] \in 0 .. 15
      BY <1>2
    <3> QED BY <2>1, <3>1
  <2> QED BY <2>2
<1> DEFINE tops == {i \in places : rank[i] = top}
<1>4. PICK first \in tops : \A y \in tops : first <= y
  <2>1. tops \subseteq Nat /\ tops # {}
    BY <1>3
  <2> HIDE DEF tops
  <2> QED BY <2>1, LeastNatural
<1>5. first \in places /\ rank[first] = top /\ first \in Nat
  BY <1>4
<1>6. ASSUME NEW j \in places PROVE rank[j] <= rank[first] /\ (j < first => rank[j] < rank[first])
  <2>1. rank[j] <= top /\ rank[j] \in 0 .. 15 /\ j \in Nat
    BY <1>3
  <2>2. rank[j] = top => first <= j
    BY <1>4
  <2> QED BY <1>3, <1>5, <2>1, <2>2
<1>7. \E i \in places : IsBest(i)
  BY <1>5, <1>6
<1> DEFINE chosen == CHOOSE i \in places : IsBest(i)
<1>8. Best(records, places, rank) = records[chosen]
  BY DEF Best
<1> HIDE DEF IsBest
<1>9. chosen \in places /\ IsBest(chosen)
  BY <1>7
<1> QED BY <1>8, <1>9 DEF IsBest

\* A list that was found has its records at natural numbers.
LEMMA MatchedIs ==
    ASSUME NEW found, Matched(found)
    PROVE  /\ DOMAIN found \subseteq Nat /\ Range(found) = {found[i] : i \in DOMAIN found}
           /\ \A i \in DOMAIN found : found[i].name \in 0 .. 3
           /\ found # <<>> => DOMAIN found # {}
<1> DEFINE S == {found[i] : i \in DOMAIN found}
<1>1. found \in Seq(S)
  BY DEF Matched
<1> HIDE DEF S
<1>2. Len(found) \in Nat /\ DOMAIN found = 1 .. Len(found)
  BY <1>1, LenProperties
<1>3. found # <<>> => Len(found) # 0
  BY <1>1, EmptySeq
<1> QED BY <1>2, <1>3 DEF Matched, Range

LEMMA GleifAttests ==
    ASSUME NEW a, NEW f \in Gleif(a).findings, f \in Words, Answered(a.records) => Matched(a.records.body)
    PROVE  Attested("gleif", a)
<1> DEFINE found == a.records.body
           rank == [i \in DOMAIN found |-> GleifRank(found[i])]
           rec == Best(found, DOMAIN found, rank)
           body == IF found = <<>> THEN Empty ELSE Result("ok", {<<"entity_status", GleifBand(rec)>>})
<1>1. f \in Read(a.records, {}, body).findings
  BY DEF Gleif
<1>2. Answered(a.records) /\ f \in body.findings
  <2> HIDE DEF body
  <2> QED BY <1>1, ReadFindings
<1>3. found # <<>> /\ f = <<"entity_status", GleifBand(rec)>>
  <2> HIDE DEF rec
  <2> QED BY <1>2, FindingsOf
<1>4. Matched(found)
  BY <1>2
<1> HIDE DEF found
<1>5. \A i \in DOMAIN found : rank[i] \in 0 .. 15 /\ rank[i] = GleifRank(found[i])
  BY <1>4, MatchedIs DEF GleifRank
<1>6. PICK i \in DOMAIN found : rec = found[i] /\ \A j \in DOMAIN found : rank[j] <= rank[i]
  <2>1. DOMAIN found \subseteq Nat /\ DOMAIN found # {}
    BY <1>3, <1>4, MatchedIs
  <2> HIDE DEF rank
  <2> QED BY <1>5, <2>1, BestIs
<1>7. ASSUME NEW j \in DOMAIN found PROVE found[j].name <= found[i].name
  <2>1. GleifRank(found[j]) <= GleifRank(found[i])
    BY <1>5, <1>6
  <2>2. found[j].name \in 0 .. 3 /\ found[i].name \in 0 .. 3
    BY <1>4, MatchedIs
  <2> QED BY <2>1, <2>2 DEF GleifRank
<1>8. GleifBand(rec) = "active_good_standing"
  BY <1>3 DEF Words
<1>9. rec.entity # "INACTIVE" /\ rec.reg \notin {"RETIRED", "LAPSED"}
  <2> HIDE DEF rec
  <2> QED BY <1>8 DEF GleifBand
<1>10. Range(found) = {found[k] : k \in DOMAIN found}
  BY <1>4, MatchedIs
<1> HIDE DEF rec, rank
<1> QED BY <1>6, <1>7, <1>9, <1>10 DEF Attested, found

LEMMA CompaniesHouseAttests ==
    ASSUME NEW a, NEW f \in CompaniesHouse(a).findings, f \in Words, Answered(a.items) => Matched(a.items.body)
    PROVE  Attested("companies_house", a)
<1> DEFINE found == a.items.body
           strong == {i \in DOMAIN found : CompanyStrong(found[i])}
           rank == [i \in strong |-> CompanyRank(found[i])]
           item == Best(found, strong, rank)
           body == IF strong = {} THEN Empty ELSE Result("ok", {<<"entity_status", CompanyBand(item.status)>>})
<1>1. f \in Read(a.items, {}, body).findings
  BY Zenon DEF CompaniesHouse
<1>2. Answered(a.items) /\ f \in body.findings
  <2> HIDE DEF body
  <2> QED BY <1>1, ReadFindings
<1>3. strong # {} /\ f = <<"entity_status", CompanyBand(item.status)>>
  <2> HIDE DEF item, strong
  <2> QED BY <1>2, FindingsOf
<1>4. Matched(found)
  BY <1>2
<1> HIDE DEF found
<1>5. \A i \in strong : rank[i] \in 0 .. 15 /\ rank[i] = CompanyRank(found[i])
  <2> SUFFICES ASSUME NEW i \in strong
               PROVE  rank[i] \in 0 .. 15 /\ rank[i] = CompanyRank(found[i])
    OBVIOUS
  <2>1. rank[i] = CompanyRank(found[i]) /\ i \in DOMAIN found
    OBVIOUS
  <2>2. found[i].name \in 0 .. 3
    <3> HIDE DEF strong, rank
    <3> QED BY <1>4, <2>1, MatchedIs
  <2> HIDE DEF strong, rank
  <2> QED BY <2>1, <2>2 DEF CompanyRank
<1>6. PICK i \in strong : item = found[i] /\ \A j \in strong : rank[j] <= rank[i]
  <2>1. strong \subseteq Nat /\ strong # {}
    BY <1>3, <1>4, MatchedIs
  <2> HIDE DEF rank, strong
  <2> QED BY <1>5, <2>1, BestIs
<1>7. ASSUME NEW j \in DOMAIN found PROVE found[j].name <= found[i].name
  <2>1. found[j].name \in 0 .. 3 /\ found[i].name \in 0 .. 3 /\ found[i].name >= 2
    BY <1>4, <1>6, MatchedIs DEF CompanyStrong
  <2>2. CASE j \in strong
    <3>1. CompanyRank(found[j]) <= CompanyRank(found[i])
      BY <1>5, <1>6, <2>2
    <3> QED BY <2>1, <3>1 DEF CompanyRank
  <2>3. CASE j \notin strong
    BY <2>1, <2>3 DEF CompanyStrong
  <2> QED BY <2>2, <2>3
<1>8. CompanyBand(item.status) = "active_good_standing"
  BY <1>3 DEF Words
<1>9. item.status = "active"
  <2> HIDE DEF item
  <2> QED BY <1>8 DEF CompanyBand
<1>10. Range(found) = {found[k] : k \in DOMAIN found} /\ i \in DOMAIN found /\ found[i].name >= 2
  BY <1>4, <1>6, MatchedIs DEF CompanyStrong
<1> HIDE DEF item, rank, strong
<1> QED BY <1>6, <1>7, <1>9, <1>10 DEF Attested, found

LEMMA AbnAttests ==
    ASSUME NEW a, NEW f \in Abn(a).findings, f \in Words
    PROVE  Attested("abn", a)
<1>1. Answered(a.names) /\ AbnWantsDetail(a) /\ Answered(a.detail) /\ f = <<"entity_status", AbnBand(a.detail.body)>>
  BY FindingsOf DEF Abn
<1>2. AbnBand(a.detail.body) = "active_good_standing"
  BY <1>1 DEF Words
<1>3. a.detail.body = "active"
  BY <1>2 DEF AbnBand
<1>4. \E match \in Range(a.names.body) : match.name >= 2 /\ match.current
  BY <1>1 DEF AbnWantsDetail, AbnStrong, Range
<1> QED BY <1>1, <1>3, <1>4 DEF Attested

LEMMA WikidataAttests ==
    ASSUME NEW a, NEW f \in Wikidata(a).findings, f \in Words
    PROVE  Attested("wikidata", a)
<1> DEFINE ent == CHOOSE e \in MatchedEntity(a) : TRUE
           word == <<"entity_existence", IF ent.dissolved THEN "entity_dissolved" ELSE "entity_active_confirmed">>
<1>1. MatchedEntity(a) # {} /\ f \in {word} \cup Maturity(ent.inception)
  <2> HIDE DEF ent
  <2>1. Wikidata(a).findings # {}
    OBVIOUS
  <2> QED BY <2>1, FindingsOf DEF Wikidata, ent
<1>2. ent \in MatchedEntity(a)
  <2>1. PICK e \in MatchedEntity(a) : TRUE
    BY <1>1
  <2> QED BY <2>1
<1> HIDE DEF ent
<1>3. f = word
  BY <1>1 DEF Maturity, Words
<1>4. ~ent.dissolved
  BY <1>3 DEF Words
<1>5. PICK i \in DOMAIN Inspected : Verified(a, Inspected[i]) /\ ent = a[Inspected[i]].body
  BY <1>2 DEF MatchedEntity
<1>6. Inspected[i] \in {"first", "second"}
  <2>1. DOMAIN Inspected = {1, 2} /\ Inspected[1] = "first" /\ Inspected[2] = "second"
    BY DEF Inspected
  <2> QED BY <1>5, <2>1
<1>7. Inspected[i] \in DOMAIN a /\ Answered(a[Inspected[i]]) /\ a[Inspected[i]].body.ours
  BY <1>5 DEF Verified
<1> QED BY <1>4, <1>5, <1>6, <1>7 DEF Attested

LEMMA RdapAttests ==
    ASSUME NEW a, NEW f \in Rdap(a).findings, f \in Words,
           Answered(a.domain) => a.domain.body.expires \in Int \cup {None}
    PROVE  Attested("rdap", a)
<1> DEFINE domain == a.domain.body
<1>1. f \in {<<"domain_registration", RdapBand(domain)>>} \cup Maturity(domain.age)
  BY ReadFindings, FindingsOf DEF Rdap
<1>0. domain.expires \in Int \cup {None}
  BY ReadFindings DEF Rdap
<1> HIDE DEF domain
<1>2. RdapBand(domain) = "domain_established"
  BY <1>1 DEF Maturity, Words
<1>3. CASE domain.suspended
  BY <1>2, <1>3 DEF RdapBand
<1>4. CASE ~domain.suspended /\ domain.expires # None /\ domain.expires < 30
  BY <1>2, <1>4 DEF RdapBand
<1>5. CASE ~domain.suspended /\ ~(domain.expires # None /\ domain.expires < 30)
  <2>1. RdapBand(domain) = CASE domain.age = None \/ domain.age >= 730 -> "domain_established"
                             [] domain.age # None /\ domain.age < 180 -> "domain_new"
                             [] OTHER -> "domain_recent"
    BY <1>5 DEF RdapBand
  <2>2. domain.age = None \/ domain.age >= 730
    BY <1>2, <2>1
  <2>3. domain.expires # None => domain.expires >= 30
    BY <1>0, <1>5
  <2> QED BY <1>5, <2>2, <2>3 DEF Attested, domain
<1> QED BY <1>3, <1>4, <1>5

\* No other source has a finding with such a signal.
LEMMA OthersDoNotAttest ==
    ASSUME NEW s \in (DOMAIN Singles \cup Multi) \ Attesters, NEW a, NEW f \in Outcome(s, a).findings
    PROVE  f[1] \notin Attesting
<1>1. CASE s \in {"gazette", "courtlistener", "sec_xbrl"}
  <2>1. CASE s = "gazette"
    BY <2>1, ReadFindings, FindingsOf DEF Outcome, Gazette, Attesting
  <2>2. CASE s = "courtlistener"
    BY <2>2, ReadFindings, FindingsOf DEF Outcome, CourtListener, Attesting
  <2>3. CASE s = "sec_xbrl"
    BY <2>3, ReadFindings, FindingsOf DEF Outcome, SecXbrl
  <2> QED BY <1>1, <2>1, <2>2, <2>3
<1>2. CASE s \in {"eu_insolvency", "german_insolvency", "asic_insolvency", "canada_bankruptcy"}
  <2>1. CASE s = "canada_bankruptcy"
    BY <2>1, ReadFindings, FindingsOf DEF Outcome, CanadaBankruptcy, Attesting
  <2>2. CASE s # "canada_bankruptcy"
    <3>1. PICK signal \in {"eu_insolvency", "german_insolvency", "asic_insolvency"} :
             f \in InsolvencyPage(a, signal).findings
      BY <1>2, <2>2 DEF Outcome, EuInsolvency, GermanInsolvency, AsicInsolvency
    <3>2. f[1] = signal
      BY <3>1, ReadFindings, FindingsOf DEF InsolvencyPage
    <3> QED BY <3>2 DEF Attesting
  <2> QED BY <2>1, <2>2
<1>3. CASE s \in {"otx", "hibp", "kev", "pdl", "gdelt", "estate"}
  <2>1. CASE s = "otx"
    BY <2>1, ReadFindings, FindingsOf DEF Outcome, Otx, Attesting
  <2>2. CASE s = "hibp"
    BY <2>2, ReadFindings, FindingsOf DEF Outcome, Hibp, Attesting
  <2>3. CASE s = "kev"
    BY <2>3, ReadFindings, FindingsOf DEF Outcome, Kev, Attesting
  <2>4. CASE s = "gdelt"
    BY <2>4, ReadFindings, FindingsOf DEF Outcome, Gdelt
  <2>5. CASE s \in {"pdl", "estate"}
    BY <2>5, FindingsOf DEF Outcome, Pdl, Estate
  <2> QED BY <1>3, <2>1, <2>2, <2>3, <2>4, <2>5
<1>4. CASE s \in {"dns", "tls", "headers"}
  <2>1. CASE s = "dns"
    BY <2>1, FindingsOf DEF Outcome, Dns, Attesting
  <2>2. CASE s = "tls"
    BY <2>2, ReadFindings, FindingsOf DEF Outcome, Tls, Attesting
  <2>3. CASE s = "headers"
    BY <2>3, FindingsOf DEF Outcome, Headers, Hardening, Attesting
  <2> QED BY <1>4, <2>1, <2>2, <2>3
<1>5. CASE s \in {"trust", "status_page", "ct"}
  <2>1. CASE s = "trust"
    <3> DEFINE Page(x, y, z, w) == {<<"cert_posture", x>>, <<"program_disclosure", y>>,
                                    <<"contactability", z>>, <<"reporting_posture", w>>}
               t == Trust(a, Range(Paths))
    <3>1. f \in t.findings
      BY <2>1 DEF Outcome
    <3>2. t = Empty \/ \E x, y, z, w : t = Result("ok", Page(x, y, z, w))
      BY Zenon DEF Trust
    <3> HIDE DEF t
    <3>3. t # Empty
      BY <3>1, FindingsOf
    <3>4. PICK x, y, z, w : t = Result("ok", Page(x, y, z, w))
      BY <3>2, <3>3
    <3>5. f \in Page(x, y, z, w)
      BY <3>1, <3>4, FindingsOf
    <3> QED BY <3>5 DEF Attesting
  <2>2. CASE s = "status_page"
    BY <2>2, FindingsOf DEF Outcome, StatusPage
  <2>3. CASE s = "ct"
    BY <2>3, ReadFindings, FindingsOf DEF Outcome, Ct, CtFindings, Attesting
  <2> QED BY <1>5, <2>1, <2>2, <2>3
<1>6. CASE s \in {"nvd", "edgar", "firmographics", "regulatory"}
  <2>1. CASE s = "nvd"
    BY <2>1, ReadFindings, FindingsOf DEF Outcome, Nvd, Attesting
  <2>2. CASE s = "edgar"
    BY <2>2, ReadFindings, FindingsOf DEF Outcome, Edgar, Attesting
  <2>3. CASE s = "firmographics"
    BY <2>3, FindingsOf DEF Outcome, Firmographics
  <2>4. CASE s = "regulatory"
    BY <2>4, FindingsOf DEF Outcome, Regulatory, Attesting
  <2> QED BY <1>6, <2>1, <2>2, <2>3, <2>4
<1> QED BY <1>1, <1>2, <1>3, <1>4, <1>5, <1>6, SinglesDomain DEF Multi, Attesters

\* A company is `sound' only where the reply that a register or the domain's registry gave says so.
THEOREM SoundHolds == Spec => []SoundIsAttested
<1>1. CollectInv /\ RepliedInv => SoundIsAttested
  <2> SUFFICES ASSUME CollectInv, RepliedInv, NEW p \in Procs, Finished(p), Standing(Stored(p)) = "sound"
               PROVE  Attested(source, run[p].a)
    BY DEF SoundIsAttested
  <2> DEFINE a == run[p].a
  <2>1. Flagged(Stored(p)) # {}
    BY DEF Standing
  <2>2. PICK flag \in Flagged(Stored(p)) : flag[3] = "sound"
    BY <2>1, StandingIsWorst
  <2>3. PICK f \in run[p].result.findings : f[1] \in Attesting /\ f \in Words
    <3>1. flag \in Flags /\ <<flag[1], flag[2]>> \in run[p].result.findings
      BY DEF Flagged, Stored
    <3>2. flag[1] \in Attesting /\ <<flag[1], flag[2]>> \in Words
      BY <2>2, <3>1, SoundWords
    <3> QED BY <3>1, <3>2
  <2>4. source # "ita"
    <3> SUFFICES ASSUME source = "ita" PROVE FALSE
      OBVIOUS
    <3>1. f \in {<<"sanctions_screen_hit", "possible">>}
      BY DEF CollectInv, RunsOK, RunOK, ScreenOK, Finished, Procs, Both
    <3>2. f[1] = "sanctions_screen_hit"
      BY <3>1
    <3> QED BY <2>3, <3>2 DEF Attesting
  <2>5. run[p].result # Timeout
    BY FindingsOf
  <2>6. /\ source \in DOMAIN Singles \/ source \in Multi
        /\ run[p].result = Outcome(source, a) /\ Answers(source, a)
    BY <2>4, <2>5, DoneAnswers
  <2>7. source \in Attesters
    BY <2>3, <2>6, OthersDoNotAttest
  <2>8. p \in Both /\ source \in Sources
    BY DEF Procs, Both, CollectInv
  <2>9. CASE source = "gleif"
    <3>1. "records" \in DOMAIN a
      BY <2>6, <2>9, SinglesIn, SinglesDomain DEF Answers
    <3>2. a.records \in Replies.gleif.records
      BY <2>8, <2>9, <3>1 DEF RepliedInv
    <3>3. Answered(a.records) => Matched(a.records.body)
      BY <2>8, <2>9, <3>2, CollectionAssumption
    <3>4. Outcome("gleif", a) = Gleif(a)
      BY DEF Outcome
    <3> QED BY <2>3, <2>6, <2>9, <3>3, <3>4, GleifAttests
  <2>10. CASE source = "companies_house"
    <3>1. "items" \in DOMAIN a
      BY <2>6, <2>10, SinglesIn, SinglesDomain DEF Answers
    <3>2. a.items \in Replies.companies_house.items
      BY <2>8, <2>10, <3>1 DEF RepliedInv
    <3>3. Answered(a.items) => Matched(a.items.body)
      BY <2>8, <2>10, <3>2, CollectionAssumption
    <3>4. Outcome("companies_house", a) = CompaniesHouse(a)
      BY DEF Outcome
    <3> QED BY <2>3, <2>6, <2>10, <3>3, <3>4, CompaniesHouseAttests
  <2>11. CASE source = "abn"
    <3>1. Outcome("abn", a) = Abn(a)
      BY DEF Outcome
    <3> QED BY <2>3, <2>6, <2>11, <3>1, AbnAttests
  <2>12. CASE source = "wikidata"
    <3>1. Outcome("wikidata", a) = Wikidata(a)
      BY DEF Outcome
    <3> QED BY <2>3, <2>6, <2>12, <3>1, WikidataAttests
  <2>13. CASE source = "rdap"
    <3>1. "domain" \in DOMAIN a
      BY <2>6, <2>13, SinglesIn, SinglesDomain DEF Answers
    <3>2. a.domain \in Replies.rdap.domain
      BY <2>8, <2>13, <3>1 DEF RepliedInv
    <3>3. Answered(a.domain) => a.domain.body.expires \in Int \cup {None}
      BY <2>8, <2>13, <3>2, CollectionAssumption
    <3>4. Outcome("rdap", a) = Rdap(a)
      BY DEF Outcome
    <3> QED BY <2>3, <2>6, <2>13, <3>3, <3>4, RdapAttests
  <2> QED BY <2>7, <2>9, <2>10, <2>11, <2>12, <2>13 DEF Attesters
<1> QED BY <1>1, RepliedHolds, CollectionInvariant, PTL

-------------------------------------------------------------------------------
(* Every band is known to the model. *)

Mapped(f) == \/ f[1] \in Unscored \cup {"sec_going_concern"} \/ f[2] = "counted"
             \/ f[2] \in BandsOf[f[1]]
Bands(signal, bands) == \A b \in bands : Mapped(<<signal, b>>)

LEMMA BandsAre ==
    /\ Bands("breach_by_data_class", {"no_known_breach", "email_only", "personal_info", "passwords_or_cards"})
    /\ Bands("kev_listed_cve", {"no_kev_match", "listed"})
    /\ Bands("nvd_cve", {"no_critical_cve", "cvss_medium_or_low", "cvss_high", "cvss_critical", "probable_exploit"})
    /\ Bands("tls_version", {"tls_13", "only_tls_12", "tls_10_or_11"})
    /\ Bands("cert_validity", {"valid", "expiring_lt_30d", "expiring_lt_14d", "expired_serving_prod"})
    /\ \A h \in Hardening \cup {"caa", "security_txt", "dkim"} : Bands(h, {"present", "absent"})
    /\ Bands("dnssec", {"valid", "absent"})
    /\ Bands("weak_issuance", {"none", "wildcard_sprawl"})
    /\ Bands("dmarc", {"p_reject", "p_quarantine", "p_none", "absent"})
    /\ Bands("spf", {"hardfail_all", "softfail_all", "absent"})
    /\ Bands("vd_program", {"security_txt_only", "none"})
    /\ Bands("cert_posture", {"claimed_unverified", "none_claimed"})
    /\ Bands("regulator_action", {"no_action_found", "formal_investigation", "enforcement_action"})
    /\ Bands("program_disclosure", {"detailed_policies", "marketing_only"})
    /\ Bands("contactability", {"dpo_and_security_contact", "none_published"})
    /\ Bands("reporting_posture", {"substantive", "partial"})
    /\ Bands("entity_status", {"active_good_standing", "registration_lapsed", "registration_retired", "entity_inactive"})
    /\ Bands("entity_existence", {"entity_active_confirmed", "entity_dissolved"})
    /\ Bands("entity_maturity", {"mature_gt_10", "established_5_10", "young_2_5", "startup_lt_2", "new_lt_1"})
    /\ Bands("domain_registration", {"domain_established", "domain_recent", "domain_new", "domain_expiring",
                                     "domain_suspended"})
    /\ \A n \in {"sec_filing", "insolvency_notice", "bankruptcy_petition"} :
          Bands(n, {"no_adverse_filings", "registration_lapsed", "entity_inactive"})
BY DEF Bands, Mapped, BandsOf, Presence, Filed, Hardening

\* Whatever a register says of a company, the band is one of its signal's.
LEMMA RegisterBands ==
    /\ \A rec : GleifBand(rec) \in {"entity_inactive", "registration_retired", "registration_lapsed",
                                    "active_good_standing"}
    /\ \A status : AbnBand(status) \in {"active_good_standing", "entity_inactive", "registration_lapsed"}
    /\ \A status : CompanyBand(status) \in {"active_good_standing", "entity_inactive", "registration_lapsed"}
    /\ \A b : RdapBand(b) \in {"domain_suspended", "domain_expiring", "domain_established", "domain_new",
                               "domain_recent"}
    /\ \A days : MaturityBand(days) \in {"mature_gt_10", "established_5_10", "young_2_5", "startup_lt_2",
                                         "new_lt_1"}
    /\ \A code : NoticeBand(code) \in {"entity_inactive", "registration_lapsed"}
    /\ \A chapter : ChapterBand(chapter) \in {"entity_inactive", "registration_lapsed"}
<1>1. \A rec : GleifBand(rec) \in {"entity_inactive", "registration_retired", "registration_lapsed",
                                   "active_good_standing"}
  BY DEF GleifBand
<1>2. /\ \A status : AbnBand(status) \in {"active_good_standing", "entity_inactive", "registration_lapsed"}
      /\ \A status : CompanyBand(status) \in {"active_good_standing", "entity_inactive", "registration_lapsed"}
  BY DEF AbnBand, CompanyBand
<1>3. \A b : RdapBand(b) \in {"domain_suspended", "domain_expiring", "domain_established", "domain_new",
                              "domain_recent"}
  BY DEF RdapBand
<1>4. \A days : MaturityBand(days) \in {"mature_gt_10", "established_5_10", "young_2_5", "startup_lt_2",
                                        "new_lt_1"}
  BY DEF MaturityBand
<1>5. /\ \A code : NoticeBand(code) \in {"entity_inactive", "registration_lapsed"}
      /\ \A chapter : ChapterBand(chapter) \in {"entity_inactive", "registration_lapsed"}
  BY DEF NoticeBand, ChapterBand
<1> QED BY <1>1, <1>2, <1>3, <1>4, <1>5

LEMMA PerimeterBands ==
    /\ \A a : DmarcBand(a) \in {"p_reject", "p_quarantine", "p_none", "absent"}
    /\ \A a : SpfBand(a) \in {"hardfail_all", "softfail_all", "absent"}
    /\ \A days : CertBand(days) \in {"valid", "expiring_lt_30d", "expiring_lt_14d", "expired_serving_prod"}
    /\ \A a : VersionBand(a) \in {"tls_13", "only_tls_12", "tls_10_or_11"}
    /\ \A classes : BreachBand(classes) \in {"passwords_or_cards", "personal_info", "email_only"}
    /\ \A severity : CveBand(severity) \in {"cvss_critical", "cvss_high", "cvss_medium_or_low"}
    /\ \A entry : ActionBand(entry) \in {"enforcement_action", "formal_investigation"}
<1>1. \A a : DmarcBand(a) \in {"p_reject", "p_quarantine", "p_none", "absent"}
  BY DEF DmarcBand
<1>2. \A a : SpfBand(a) \in {"hardfail_all", "softfail_all", "absent"}
  BY DEF SpfBand
<1>3. \A days : CertBand(days) \in {"valid", "expiring_lt_30d", "expiring_lt_14d", "expired_serving_prod"}
  BY DEF CertBand
<1>4. \A a : VersionBand(a) \in {"tls_13", "only_tls_12", "tls_10_or_11"}
  BY DEF VersionBand
<1>5. /\ \A classes : BreachBand(classes) \in {"passwords_or_cards", "personal_info", "email_only"}
      /\ \A severity : CveBand(severity) \in {"cvss_critical", "cvss_high", "cvss_medium_or_low"}
      /\ \A entry : ActionBand(entry) \in {"enforcement_action", "formal_investigation"}
  BY DEF BreachBand, CveBand, ActionBand
<1> QED BY <1>1, <1>2, <1>3, <1>4, <1>5

LEMMA MaturityMapped == \A days : \A f \in Maturity(days) : Mapped(f)
BY RegisterBands, BandsAre DEF Maturity, Bands

LEMMA RegistersMapped ==
    ASSUME NEW s \in Attesters, NEW a, NEW f \in Outcome(s, a).findings
    PROVE  Mapped(f)
<1>1. CASE s = "gleif"
  <2> DEFINE found == a.records.body
             rec == Best(found, DOMAIN found, [i \in DOMAIN found |-> GleifRank(found[i])])
             body == IF found = <<>> THEN Empty ELSE Result("ok", {<<"entity_status", GleifBand(rec)>>})
  <2>1. f = <<"entity_status", GleifBand(rec)>>
    <3>1. f \in Read(a.records, {}, body).findings
      BY <1>1 DEF Outcome, Gleif
    <3> HIDE DEF rec, found
    <3> QED BY <3>1, ReadFindings, FindingsOf
  <2> HIDE DEF rec
  <2> QED BY <2>1, RegisterBands, BandsAre DEF Bands
<1>2. CASE s = "abn"
  <2>1. PICK status : f = <<"entity_status", AbnBand(status)>>
    BY <1>2, FindingsOf DEF Outcome, Abn
  <2> QED BY <2>1, RegisterBands, BandsAre DEF Bands
<1>3. CASE s = "companies_house"
  <2> DEFINE found == a.items.body
             strong == {i \in DOMAIN found : CompanyStrong(found[i])}
             rec == Best(found, strong, [i \in strong |-> CompanyRank(found[i])])
             body == IF strong = {} THEN Empty ELSE Result("ok", {<<"entity_status", CompanyBand(rec.status)>>})
  <2>1. f = <<"entity_status", CompanyBand(rec.status)>>
    <3>1. f \in Read(a.items, {}, body).findings
      BY <1>3, Zenon DEF Outcome, CompaniesHouse
    <3> HIDE DEF rec, strong
    <3> QED BY <3>1, ReadFindings, FindingsOf
  <2> HIDE DEF rec
  <2> QED BY <2>1, RegisterBands, BandsAre DEF Bands
<1>4. CASE s = "wikidata"
  <2>1. PICK ent : \/ f = <<"entity_existence", IF ent.dissolved THEN "entity_dissolved"
                                                ELSE "entity_active_confirmed">>
                   \/ f \in Maturity(ent.inception)
    BY <1>4, FindingsOf DEF Outcome, Wikidata
  <2> QED BY <2>1, MaturityMapped, BandsAre DEF Bands
<1>5. CASE s = "rdap"
  <2>1. PICK b : f = <<"domain_registration", RdapBand(b)>> \/ f \in Maturity(b.age)
    BY <1>5, ReadFindings, FindingsOf DEF Outcome, Rdap
  <2> QED BY <2>1, RegisterBands, MaturityMapped, BandsAre DEF Bands
<1> QED BY <1>1, <1>2, <1>3, <1>4, <1>5 DEF Attesters

LEMMA NoticesMapped ==
    ASSUME NEW s \in {"edgar", "sec_xbrl", "gazette", "courtlistener"}, NEW a, NEW f \in Outcome(s, a).findings
    PROVE  Mapped(f)
<1>1. CASE s = "edgar"
  <2>1. f \in {<<"sec_filing", "entity_inactive">>, <<"sec_going_concern", "registration_lapsed">>,
               <<"sec_filing", "no_adverse_filings">>}
    BY <1>1, ReadFindings, FindingsOf DEF Outcome, Edgar
  <2>2. Mapped(<<"sec_going_concern", "registration_lapsed">>)
    BY DEF Mapped
  <2> QED BY <2>1, <2>2, BandsAre DEF Bands
<1>2. CASE s = "sec_xbrl"
  BY <1>2, ReadFindings, FindingsOf DEF Outcome, SecXbrl
<1>3. CASE s = "gazette"
  <2>1. PICK c : f \in {<<"insolvency_notice", NoticeBand(c)>>, <<"insolvency_notice", "no_adverse_filings">>}
    BY <1>3, ReadFindings, FindingsOf DEF Outcome, Gazette
  <2> QED BY <2>1, RegisterBands, BandsAre DEF Bands
<1>4. CASE s = "courtlistener"
  <2>1. PICK c : f \in {<<"bankruptcy_petition", ChapterBand(c)>>, <<"bankruptcy_petition", "no_adverse_filings">>}
    BY <1>4, ReadFindings, FindingsOf DEF Outcome, CourtListener
  <2> QED BY <2>1, RegisterBands, BandsAre DEF Bands
<1> QED BY <1>1, <1>2, <1>3, <1>4

LEMMA InsolvencyMapped ==
    ASSUME NEW s \in {"eu_insolvency", "german_insolvency", "asic_insolvency", "canada_bankruptcy"},
           NEW a, NEW f \in Outcome(s, a).findings
    PROVE  Mapped(f)
<1>1. CASE s = "canada_bankruptcy"
  <2>1. f[1] = "canada_bankruptcy"
    BY <1>1, ReadFindings, FindingsOf DEF Outcome, CanadaBankruptcy
  <2> QED BY <2>1 DEF Mapped, Unscored
<1>2. CASE s # "canada_bankruptcy"
  <2>1. PICK signal \in {"eu_insolvency", "german_insolvency", "asic_insolvency"} :
           f \in InsolvencyPage(a, signal).findings
    BY <1>2 DEF Outcome, EuInsolvency, GermanInsolvency, AsicInsolvency
  <2>2. f[1] = signal
    BY <2>1, ReadFindings, FindingsOf DEF InsolvencyPage
  <2> QED BY <2>2 DEF Mapped, Unscored
<1> QED BY <1>1, <1>2

LEMMA SightingsMapped ==
    ASSUME NEW s \in {"otx", "hibp", "kev", "pdl", "gdelt", "estate"}, NEW a, NEW f \in Outcome(s, a).findings
    PROVE  Mapped(f)
<1>1. CASE s = "otx"
  <2>1. f = <<"subdomain_estate", "counted">>
    BY <1>1, ReadFindings, FindingsOf DEF Outcome, Otx
  <2> QED BY <2>1 DEF Mapped
<1>2. CASE s = "hibp"
  <2>1. PICK c : f \in {<<"breach_by_data_class", "no_known_breach">>, <<"breach_by_data_class", BreachBand(c)>>}
    BY <1>2, ReadFindings, FindingsOf DEF Outcome, Hibp
  <2> QED BY <2>1, PerimeterBands, BandsAre DEF Bands
<1>3. CASE s = "kev"
  <2>1. f \in {<<"kev_listed_cve", "no_kev_match">>, <<"kev_listed_cve", "listed">>}
    BY <1>3, ReadFindings, FindingsOf DEF Outcome, Kev
  <2> QED BY <2>1, BandsAre DEF Bands
<1>4. CASE s = "gdelt"
  BY <1>4, ReadFindings, FindingsOf DEF Outcome, Gdelt
<1>5. CASE s \in {"pdl", "estate"}
  BY <1>5, FindingsOf DEF Outcome, Pdl, Estate
<1> QED BY <1>1, <1>2, <1>3, <1>4, <1>5

\* A flag's band is one of its two words.
LEMMA YesNoIs == \A b, yes, no : YesNo(b, yes, no) \in {yes, no}
BY DEF YesNo

LEMMA HostsMapped ==
    ASSUME NEW s \in {"dns", "tls", "headers", "status_page"}, NEW a, NEW f \in Outcome(s, a).findings
    PROVE  Mapped(f)
<1>1. CASE s = "dns"
  <2>1. PICK d, c : /\ d \in {"valid", "absent"} /\ c \in {"present", "absent"}
                    /\ f \in {<<"dmarc", DmarcBand(a)>>, <<"spf", SpfBand(a)>>, <<"dnssec", d>>, <<"caa", c>>,
                              <<"dkim", "present">>}
    BY <1>1, FindingsOf DEF Outcome, Dns, YesNo
  <2> QED BY <2>1, PerimeterBands, BandsAre DEF Bands
<1>2. CASE s = "tls"
  <2>1. PICK days : f \in {<<"tls_version", VersionBand(a)>>, <<"cert_validity", CertBand(days)>>}
    BY <1>2, ReadFindings, FindingsOf DEF Outcome, Tls
  <2> QED BY <2>1, PerimeterBands, BandsAre DEF Bands
<1>3. CASE s = "headers"
  <2>1. PICK h \in Hardening \cup {"security_txt"}, b \in {"present", "absent"} :
           f = <<h, b>> \/ f \in {<<"vd_program", "security_txt_only">>, <<"vd_program", "none">>}
    BY <1>3, FindingsOf DEF Outcome, Headers, YesNo
  <2> QED BY <2>1, BandsAre DEF Bands
<1>4. CASE s = "status_page"
  BY <1>4, FindingsOf DEF Outcome, StatusPage
<1> QED BY <1>1, <1>2, <1>3, <1>4

LEMMA PagesMapped ==
    ASSUME NEW s \in {"trust", "ct", "nvd", "firmographics", "regulatory"}, NEW a, NEW f \in Outcome(s, a).findings
    PROVE  Mapped(f)
<1>1. CASE s = "trust"
  <2> DEFINE Page(x, y, z, w) == {<<"cert_posture", x>>, <<"program_disclosure", y>>,
                                  <<"contactability", z>>, <<"reporting_posture", w>>}
             t == Trust(a, Range(Paths))
             pages == Pages(a, Range(Paths))
             x == YesNo(\E p \in pages : p.certs, "claimed_unverified", "none_claimed")
             y == YesNo(\E p \in pages : p.long, "detailed_policies", "marketing_only")
             z == YesNo(\E p \in pages : p.contacts, "dpo_and_security_contact", "none_published")
             w == YesNo(\E p \in pages : p.long, "substantive", "partial")
  <2>1. f \in t.findings
    BY <1>1 DEF Outcome
  <2>2. t = Empty \/ t = Result("ok", Page(x, y, z, w))
    BY Zenon DEF Trust
  <2>3. x \in {"claimed_unverified", "none_claimed"} /\ y \in {"detailed_policies", "marketing_only"}
    BY YesNoIs, Zenon
  <2>4. z \in {"dpo_and_security_contact", "none_published"} /\ w \in {"substantive", "partial"}
    BY YesNoIs, Zenon
  <2> HIDE DEF t, x, y, z, w
  <2>5. t # Empty
    BY <2>1, FindingsOf
  <2>6. f \in Page(x, y, z, w)
    BY <2>1, <2>2, <2>5, FindingsOf
  <2> QED BY <2>3, <2>4, <2>6, BandsAre DEF Bands
<1>2. CASE s = "ct"
  <2>1. PICK w : f \in CtFindings(w)
    BY <1>2, ReadFindings, FindingsOf DEF Outcome, Ct
  <2>2. PICK b \in {"wildcard_sprawl", "none"} :
           f \in {<<"subdomain_estate", "counted">>, <<"stale_hosts", "counted">>, <<"weak_issuance", b>>}
    BY <2>1, YesNoIs DEF CtFindings
  <2>3. Mapped(<<"subdomain_estate", "counted">>) /\ Mapped(<<"stale_hosts", "counted">>)
    BY DEF Mapped
  <2> QED BY <2>2, <2>3, BandsAre DEF Bands
<1>3. CASE s = "nvd"
  <2>1. PICK severity : f \in {<<"nvd_cve", "no_critical_cve">>, <<"nvd_cve", "probable_exploit">>,
                               <<"nvd_cve", CveBand(severity)>>}
    BY <1>3, ReadFindings, FindingsOf DEF Outcome, Nvd, YesNo
  <2> QED BY <2>1, PerimeterBands, BandsAre DEF Bands
<1>4. CASE s = "firmographics"
  BY <1>4, FindingsOf DEF Outcome, Firmographics
<1>5. CASE s = "regulatory"
  <2>1. PICK e : f \in {<<"regulator_action", "no_action_found">>, <<"regulator_action", ActionBand(e)>>}
    BY <1>5, FindingsOf DEF Outcome, Regulatory
  <2> QED BY <2>1, PerimeterBands, BandsAre DEF Bands
<1> QED BY <1>1, <1>2, <1>3, <1>4, <1>5

\* Whatever a collector observes, scoring.yaml has a severity or a context label for its band.
THEOREM BandsHold == Spec => []BandsAreMapped
<1>1. CollectInv => BandsAreMapped
  <2> SUFFICES ASSUME CollectInv, NEW p \in Procs, Finished(p), NEW f \in run[p].result.findings
               PROVE  Mapped(f)
    BY DEF BandsAreMapped, Mapped
  <2>1. CASE source = "ita"
    <3>1. f \in {<<"sanctions_screen_hit", "possible">>}
      BY <2>1 DEF CollectInv, RunsOK, RunOK, ScreenOK, Finished, Procs, Both
    <3> QED BY <3>1 DEF Mapped, Unscored
  <2>2. CASE source # "ita"
    <3>1. run[p].result # Timeout
      BY FindingsOf
    <3>2. (source \in DOMAIN Singles \/ source \in Multi) /\ f \in Outcome(source, run[p].a).findings
      BY <2>2, <3>1, DoneAnswers
    <3>3. \/ source \in Attesters
          \/ source \in {"edgar", "sec_xbrl", "gazette", "courtlistener"}
          \/ source \in {"eu_insolvency", "german_insolvency", "asic_insolvency", "canada_bankruptcy"}
          \/ source \in {"otx", "hibp", "kev", "pdl", "gdelt", "estate"}
          \/ source \in {"dns", "tls", "headers", "status_page"}
          \/ source \in {"trust", "ct", "nvd", "firmographics", "regulatory"}
      BY <3>2, SinglesDomain DEF Multi, Attesters
    <3> QED BY <3>2, <3>3, RegistersMapped, NoticesMapped, InsolvencyMapped, SightingsMapped, HostsMapped, PagesMapped
  <2> QED BY <2>1, <2>2
<1> QED BY <1>1, CollectionInvariant, PTL

-------------------------------------------------------------------------------
(* The age risk: whatever the facts, one adverse fact more never lowers any of its six parts. *)

LEMMA LargerOfTwo ==
    ASSUME NEW a \in Int, NEW b \in Int
    PROVE  Max({a, b}) = IF a < b THEN b ELSE a
<1> DEFINE m == IF a < b THEN b ELSE a
<1>1. m \in {a, b} /\ \A y \in {a, b} : m >= y
  OBVIOUS
<1>2. \A x \in {a, b} : (\A y \in {a, b} : x >= y) => x = m
  OBVIOUS
<1> QED BY <1>1, <1>2 DEF Max

LEMMA SmallerOfTwo ==
    ASSUME NEW a \in Int, NEW b \in Int
    PROVE  Min({a, b}) = IF a < b THEN a ELSE b
<1> DEFINE m == IF a < b THEN a ELSE b
<1>1. m \in {a, b} /\ \A y \in {a, b} : m <= y
  OBVIOUS
<1>2. \A x \in {a, b} : (\A y \in {a, b} : x <= y) => x = m
  OBVIOUS
<1> QED BY <1>1, <1>2 DEF Min

\* A clamped number grows with the number.
LEMMA ClampGrows ==
    ASSUME NEW top \in Nat
    PROVE  /\ \A n \in Int : Max({0, Min({top, n})}) \in 0 .. top
           /\ \A n, k \in Int : n <= k => Max({0, Min({top, n})}) <= Max({0, Min({top, k})})
<1>1. ASSUME NEW i \in Int
      PROVE  Max({0, Min({top, i})}) = IF i < 0 THEN 0 ELSE IF i < top THEN i ELSE top
  <2>1. Min({top, i}) = IF top < i THEN top ELSE i
    BY SmallerOfTwo
  <2>2. Min({top, i}) \in Int
    BY <2>1
  <2>3. Max({0, Min({top, i})}) = IF 0 < Min({top, i}) THEN Min({top, i}) ELSE 0
    BY <2>2, LargerOfTwo
  <2> QED BY <2>1, <2>3
<1> QED BY <1>1

LEMMA UnitGrows ==
    ASSUME NEW n \in Int, NEW k \in Int, n <= k
    PROVE  Unit(n) \in 0 .. 1000 /\ Unit(k) \in 0 .. 1000 /\ Unit(n) <= Unit(k)
<1> DEFINE F(i) == Max({0, Min({1000, i})})
<1>1. ASSUME NEW i \in Int, NEW j \in Int, i <= j
      PROVE  F(i) \in 0 .. 1000 /\ F(i) <= F(j)
  <2> DEFINE top == 1000
  <2>1. top \in Nat
    OBVIOUS
  <2> HIDE DEF top
  <2>2. /\ Max({0, Min({top, i})}) \in 0 .. top
        /\ Max({0, Min({top, i})}) <= Max({0, Min({top, j})})
    BY <1>1, <2>1, ClampGrows
  <2> QED BY <2>2 DEF top
<1>2. \A i : Unit(i) = F(i)
  BY DEF Unit
<1> HIDE DEF F
<1>3. F(n) \in 0 .. 1000 /\ F(n) <= F(k)
  BY <1>1
<1>4. F(k) \in 0 .. 1000
  <2>1. k <= k
    OBVIOUS
  <2> QED BY <1>1, <2>1
<1> QED BY <1>2, <1>3, <1>4

Ages == {"startup", "young", "established", "mature", "veteran", "unknown"}

\* An age's row of a table is one of the six.
LEMMA RowIsListed ==
    ASSUME NEW age \in Ages, NEW table
    PROVE  \E i \in 1 .. 6 : Row(table, age) = table[i]
<1>1. \E i \in 1 .. 6 : AgeBands[i] = age
  BY DEF Ages, AgeBands
<1> QED BY <1>1 DEF Row

LEMMA RowsAreWeights ==
    ASSUME NEW age \in Ages
    PROVE  /\ \A i \in 1 .. 4 : Row(Thresholds, age)[i] \in Nat \ {0}
           /\ \A i \in 1 .. 3 : Row(Transparency, age)[i] \in Nat
           /\ \A i \in 1 .. 3 : Row(Leadership, age)[i] \in Nat
           /\ \A i \in 1 .. 3 : Row(Operations, age)[i] \in Nat
           /\ \A i \in 1 .. 3 : Row(Media, age)[i] \in Nat
           /\ \A i \in 1 .. 4 : Row(Structure, age)[i] \in Nat
<1>1. \A i \in 1 .. 6 : \A k \in 1 .. 4 : Thresholds[i][k] \in Nat \ {0}
  BY DEF Thresholds
<1>2. \A i \in 1 .. 6 : \A k \in 1 .. 3 : Transparency[i][k] \in Nat
  BY DEF Transparency
<1>3. \A i \in 1 .. 6 : \A k \in 1 .. 3 : Leadership[i][k] \in Nat
  BY DEF Leadership
<1>4. \A i \in 1 .. 6 : \A k \in 1 .. 3 : Operations[i][k] \in Nat
  BY DEF Operations
<1>5. \A i \in 1 .. 6 : \A k \in 1 .. 3 : Media[i][k] \in Nat
  BY DEF Media
<1>6. \A i \in 1 .. 6 : \A k \in 1 .. 4 : Structure[i][k] \in Nat
  BY DEF Structure
<1> QED BY <1>1, <1>2, <1>3, <1>4, <1>5, <1>6, RowIsListed

\* What is known of a vendor, and one that is no better in any of it.
Known == {"yes", "no", "unknown"}
Facts == [findings : Nat, data : BOOLEAN, rapid : BOOLEAN, plausible : Known, founder : Known,
          turnover : BOOLEAN, succession : BOOLEAN, infrastructure : Int, process : BOOLEAN, scaling : Nat,
          articles : Nat, trend : {"declining", "improving", "stable"}, spike : BOOLEAN, days : Int,
          names : Nat, addresses : Nat, owners : Nat, acquired : BOOLEAN]
NoBetterFacts(f, g) ==
    /\ g.findings = f.findings /\ g.data = f.data /\ g.succession = f.succession /\ g.days = f.days
    /\ g.infrastructure = f.infrastructure /\ g.process = f.process
    /\ f.rapid => g.rapid
    /\ g.plausible \in {f.plausible, "no"} /\ g.founder \in {f.founder, "no"}
    /\ f.turnover => g.turnover
    /\ f.scaling <= g.scaling /\ f.articles <= g.articles
    /\ g.trend \in {f.trend, "declining"}
    /\ f.spike => g.spike
    /\ f.names <= g.names /\ f.addresses <= g.addresses /\ f.owners <= g.owners
    /\ f.acquired => g.acquired

LEMMA AdverseIsNoBetter ==
    ASSUME NEW f \in Facts, NEW g \in Adverse(f)
    PROVE  g \in Facts /\ NoBetterFacts(f, g)
<1>1. ASSUME NEW x \in {"articles", "names", "addresses", "owners", "scaling"}, g = [f EXCEPT ![x] = @ + 1]
      PROVE  g \in Facts /\ NoBetterFacts(f, g)
  BY <1>1 DEF Facts, NoBetterFacts
<1>2. ASSUME \/ g = [f EXCEPT !.spike = TRUE] \/ g = [f EXCEPT !.acquired = TRUE]
             \/ g = [f EXCEPT !.turnover = TRUE] \/ g = [f EXCEPT !.rapid = TRUE]
      PROVE  g \in Facts /\ NoBetterFacts(f, g)
  <2>1. CASE g = [f EXCEPT !.spike = TRUE]
    <3>1. g \in Facts
      BY <2>1 DEF Facts
    <3>2. NoBetterFacts(f, g)
      BY <2>1 DEF Facts, NoBetterFacts
    <3> QED BY <3>1, <3>2
  <2>2. CASE g = [f EXCEPT !.acquired = TRUE]
    <3>1. g \in Facts
      BY <2>2 DEF Facts
    <3>2. NoBetterFacts(f, g)
      BY <2>2 DEF Facts, NoBetterFacts
    <3> QED BY <3>1, <3>2
  <2>3. CASE g = [f EXCEPT !.turnover = TRUE]
    <3>1. g \in Facts
      BY <2>3 DEF Facts
    <3>2. NoBetterFacts(f, g)
      BY <2>3 DEF Facts, NoBetterFacts
    <3> QED BY <3>1, <3>2
  <2>4. CASE g = [f EXCEPT !.rapid = TRUE]
    <3>1. g \in Facts
      BY <2>4 DEF Facts
    <3>2. NoBetterFacts(f, g)
      BY <2>4 DEF Facts, NoBetterFacts
    <3> QED BY <3>1, <3>2
  <2> QED BY <1>2, <2>1, <2>2, <2>3, <2>4
<1>3. ASSUME NEW x \in {"founder", "plausible"}, g = [f EXCEPT ![x] = "no"]
      PROVE  g \in Facts /\ NoBetterFacts(f, g)
  BY <1>3 DEF Facts, NoBetterFacts, Known
<1>4. ASSUME g = [f EXCEPT !.trend = "declining"]
      PROVE  g \in Facts /\ NoBetterFacts(f, g)
  BY <1>4 DEF Facts, NoBetterFacts
<1> QED BY <1>1, <1>2, <1>3, <1>4 DEF Adverse

LEMMA DepthIsNumber ==
    ASSUME NEW count \in Nat, NEW age \in Ages
    PROVE  HistoricalDepth(count, age) \in Int
<1> DEFINE t == Row(Thresholds, age)
           share == IF age \notin {"mature", "veteran"} THEN 1000
                    ELSE CASE count < t[1]               -> 500
                           [] count \in t[1] .. t[2] - 1 -> 700
                           [] OTHER                      -> 1000
           m == Min({count, t[4]})
<1>1. t[4] \in Nat \ {0}
  BY RowsAreWeights
<1>2. share \in {500, 700, 1000}
  OBVIOUS
<1>3. m \in Nat
  BY <1>1, SmallerOfTwo
<1>4. HistoricalDepth(count, age) = (share * m) \div t[4]
  BY DEF HistoricalDepth
<1> HIDE DEF share, m, t
<1>5. share * m \in Nat
  BY <1>2, <1>3
<1> QED BY <1>1, <1>4, <1>5

LEMMA TransparencyFalls ==
    ASSUME NEW f \in Facts, NEW g \in Facts, NoBetterFacts(f, g), NEW age \in Ages
    PROVE  /\ FinancialTransparency(f, age) \in Int /\ FinancialTransparency(g, age) \in Int
           /\ FinancialTransparency(g, age) <= FinancialTransparency(f, age)
<1> DEFINE w == Row(Transparency, age)
           data(h) == IF h.data THEN 10 * w[3] ELSE -10 * w[1]
           growth(h) == IF ~h.rapid THEN 0
                        ELSE IF age \in {"established", "mature", "veteran"} THEN 15 * w[2] ELSE 10 * w[2]
           plausible(h) == [yes |-> 100, no |-> -300, unknown |-> 0][h.plausible]
           Sum(h) == 1000 + data(h) - growth(h) + plausible(h)
<1>1. w[1] \in Nat /\ w[2] \in Nat /\ w[3] \in Nat
  BY RowsAreWeights
<1> HIDE DEF w
<1>2. data(f) \in Int /\ data(g) = data(f)
  BY <1>1 DEF NoBetterFacts, Facts
<1>3. growth(f) \in Nat /\ growth(g) \in Nat /\ growth(f) <= growth(g)
  BY <1>1 DEF NoBetterFacts, Facts
<1>4. plausible(f) \in Int /\ plausible(g) \in Int /\ plausible(g) <= plausible(f)
  BY DEF NoBetterFacts, Facts, Known
<1> HIDE DEF data, growth, plausible
<1>5. Sum(f) \in Int /\ Sum(g) \in Int /\ Sum(g) <= Sum(f)
  BY <1>2, <1>3, <1>4
<1>6. FinancialTransparency(f, age) = Unit(Sum(f)) /\ FinancialTransparency(g, age) = Unit(Sum(g))
  BY DEF FinancialTransparency, data, growth, plausible, w
<1> DEFINE a == Sum(f)
           b == Sum(g)
<1> HIDE DEF Sum, a, b
<1>7. Unit(b) \in 0 .. 1000 /\ Unit(a) \in 0 .. 1000 /\ Unit(b) <= Unit(a)
  <2>1. a \in Int /\ b \in Int /\ b <= a
    BY <1>5 DEF a, b
  <2> QED BY <2>1, UnitGrows
<1> QED BY <1>6, <1>7 DEF a, b

LEMMA LeadershipRises ==
    ASSUME NEW f \in Facts, NEW g \in Facts, NoBetterFacts(f, g), NEW age \in Ages
    PROVE  /\ LeadershipRisk(f, age) \in Int /\ LeadershipRisk(g, age) \in Int
           /\ LeadershipRisk(f, age) <= LeadershipRisk(g, age)
<1> DEFINE w == Row(Leadership, age)
           founder(h) == [no |-> 10 * w[1], yes |-> -5 * w[1], unknown |-> 0][h.founder]
           turnover(h) == IF h.turnover THEN 10 * w[2] ELSE 0
           succession(h) == IF h.succession THEN -3 * w[3] ELSE 10 * w[3]
           Sum(h) == founder(h) + turnover(h) + succession(h)
<1>1. w[1] \in Nat /\ w[2] \in Nat /\ w[3] \in Nat
  BY RowsAreWeights
<1> HIDE DEF w
<1>2. founder(f) \in Int /\ founder(g) \in Int /\ founder(f) <= founder(g)
  BY <1>1 DEF NoBetterFacts, Facts, Known
<1>3. turnover(f) \in Nat /\ turnover(g) \in Nat /\ turnover(f) <= turnover(g)
  BY <1>1 DEF NoBetterFacts, Facts
<1>4. succession(f) \in Int /\ succession(g) = succession(f)
  BY <1>1 DEF NoBetterFacts, Facts
<1>5. LeadershipRisk(f, age) = Unit(Sum(f)) /\ LeadershipRisk(g, age) = Unit(Sum(g))
  BY DEF LeadershipRisk, w
<1> HIDE DEF founder, turnover, succession
<1>6. Sum(f) \in Int /\ Sum(g) \in Int /\ Sum(f) <= Sum(g)
  BY <1>2, <1>3, <1>4
<1> DEFINE a == Sum(f)
           b == Sum(g)
<1> HIDE DEF Sum, a, b
<1>7. Unit(b) \in 0 .. 1000 /\ Unit(a) \in 0 .. 1000 /\ Unit(a) <= Unit(b)
  <2>1. a \in Int /\ b \in Int /\ a <= b
    BY <1>6 DEF a, b
  <2> QED BY <2>1, UnitGrows
<1> QED BY <1>5, <1>7 DEF a, b

LEMMA OperationsFall ==
    ASSUME NEW f \in Facts, NEW g \in Facts, NoBetterFacts(f, g), NEW age \in Ages
    PROVE  /\ OperationalMaturity(f, age) \in Int /\ OperationalMaturity(g, age) \in Int
           /\ OperationalMaturity(g, age) <= OperationalMaturity(f, age)
<1> DEFINE w == Row(Operations, age)
           built(h) == (CASE h.infrastructure >= 5     -> 10 * w[2]
                          [] h.infrastructure \in 2 .. 4 -> 5 * w[2]
                          [] OTHER                     -> 0)
                       + (IF h.process THEN 10 * w[3] ELSE 0)
           strain(h) == h.scaling * 10 * w[1]
           Sum(h) == 500 + built(h) - strain(h)
<1>1. w[1] \in Nat /\ w[2] \in Nat /\ w[3] \in Nat
  BY RowsAreWeights
<1> HIDE DEF w
<1>2. built(f) \in Int /\ built(g) = built(f)
  BY <1>1 DEF NoBetterFacts, Facts
<1>3. strain(f) \in Int /\ strain(g) \in Int /\ strain(f) <= strain(g)
  <2>1. f.scaling \in Nat /\ g.scaling \in Nat /\ f.scaling <= g.scaling
    BY DEF NoBetterFacts, Facts
  <2> DEFINE x == f.scaling
             y == g.scaling
             v == w[1]
  <2> HIDE DEF x, y, v
  <2>2. x * 10 * v \in Int /\ y * 10 * v \in Int /\ x * 10 * v <= y * 10 * v
    BY <1>1, <2>1 DEF x, y, v
  <2> QED BY <2>2 DEF x, y, v
<1>4. Sum(f) = 500 + built(f) - strain(f) /\ Sum(g) = 500 + built(g) - strain(g)
  OBVIOUS
<1>5. OperationalMaturity(f, age) = Unit(Sum(f)) /\ OperationalMaturity(g, age) = Unit(Sum(g))
  <2>1. ASSUME NEW h \in Facts
        PROVE  OperationalMaturity(h, age)
                 = Unit(500 + (CASE h.infrastructure >= 5     -> 10 * w[2]
                                 [] h.infrastructure \in 2 .. 4 -> 5 * w[2]
                                 [] OTHER                     -> 0)
                            + (IF h.process THEN 10 * w[3] ELSE 0)
                            - h.scaling * 10 * w[1])
    BY DEF OperationalMaturity, w
  <2> DEFINE stood(h) == CASE h.infrastructure >= 5     -> 10 * w[2]
                           [] h.infrastructure \in 2 .. 4 -> 5 * w[2]
                           [] OTHER                     -> 0
             runs(h) == IF h.process THEN 10 * w[3] ELSE 0
  <2>2. ASSUME NEW h \in Facts PROVE stood(h) \in Int /\ runs(h) \in Int
    BY <1>1 DEF Facts
  <2>3. \A h : built(h) = stood(h) + runs(h)
    OBVIOUS
  <2>4. ASSUME NEW h \in Facts PROVE OperationalMaturity(h, age) = Unit(500 + stood(h) + runs(h) - strain(h))
    BY <2>1
  <2> HIDE DEF stood, runs, strain, built
  <2>5. 500 + stood(f) + runs(f) - strain(f) = Sum(f) /\ 500 + stood(g) + runs(g) - strain(g) = Sum(g)
    BY <1>3, <1>4, <2>2, <2>3
  <2> QED BY <2>4, <2>5
<1> HIDE DEF built, strain
<1>6. Sum(f) \in Int /\ Sum(g) \in Int /\ Sum(g) <= Sum(f)
  BY <1>2, <1>3, <1>4
<1> DEFINE a == Sum(f)
           b == Sum(g)
<1> HIDE DEF Sum, a, b
<1>7. Unit(b) \in 0 .. 1000 /\ Unit(a) \in 0 .. 1000 /\ Unit(b) <= Unit(a)
  <2>1. a \in Int /\ b \in Int /\ b <= a
    BY <1>6 DEF a, b
  <2> QED BY <2>1, UnitGrows
<1> QED BY <1>5, <1>7 DEF a, b

LEMMA MediaRises ==
    ASSUME NEW f \in Facts, NEW g \in Facts, NoBetterFacts(f, g), NEW age \in Ages
    PROVE  /\ MediaVelocity(f, age) \in Int /\ MediaVelocity(g, age) \in Int
           /\ MediaVelocity(f, age) <= MediaVelocity(g, age)
<1> DEFINE w == Row(Media, age)
           articles(h) == CASE h.articles = 0 -> 0 [] h.articles = 1 -> 10 * w[1] [] OTHER -> 15 * w[1]
           trend(h) == [declining |-> 10 * w[2], improving |-> -3 * w[2], stable |-> 0][h.trend]
           spike(h) == IF h.spike THEN 300 ELSE 0
           new(h) == IF 100 * h.days < 36525 THEN 10 * w[3] ELSE 0
           Sum(h) == articles(h) + trend(h) + spike(h) + new(h)
<1>1. w[1] \in Nat /\ w[2] \in Nat /\ w[3] \in Nat
  BY RowsAreWeights
<1> HIDE DEF w
<1>2. articles(f) \in Int /\ articles(g) \in Int /\ articles(f) <= articles(g)
  BY <1>1 DEF NoBetterFacts, Facts
<1>3. trend(f) \in Int /\ trend(g) \in Int /\ trend(f) <= trend(g)
  BY <1>1 DEF NoBetterFacts, Facts
<1>4. spike(f) \in Int /\ spike(g) \in Int /\ spike(f) <= spike(g)
  BY DEF NoBetterFacts, Facts
<1>5. new(f) \in Int /\ new(g) = new(f)
  BY <1>1 DEF NoBetterFacts, Facts
<1>6. MediaVelocity(f, age) = Unit(Sum(f)) /\ MediaVelocity(g, age) = Unit(Sum(g))
  BY DEF MediaVelocity, w
<1> HIDE DEF articles, trend, spike, new
<1>7. Sum(f) \in Int /\ Sum(g) \in Int /\ Sum(f) <= Sum(g)
  BY <1>2, <1>3, <1>4, <1>5
<1> DEFINE a == Sum(f)
           b == Sum(g)
<1> HIDE DEF Sum, a, b
<1>8. Unit(b) \in 0 .. 1000 /\ Unit(a) \in 0 .. 1000 /\ Unit(a) <= Unit(b)
  <2>1. a \in Int /\ b \in Int /\ a <= b
    BY <1>7 DEF a, b
  <2> QED BY <2>1, UnitGrows
<1> QED BY <1>6, <1>8 DEF a, b

LEMMA StructureRises ==
    ASSUME NEW f \in Facts, NEW g \in Facts, NoBetterFacts(f, g), NEW age \in Ages
    PROVE  /\ StructuralChange(f, age) \in Int /\ StructuralChange(g, age) \in Int
           /\ StructuralChange(f, age) <= StructuralChange(g, age)
<1> DEFINE w == Row(Structure, age)
           changes(h) == h.names + h.addresses + h.owners
           suspicion(h) == 10 * (h.names * w[1] + h.addresses * w[2] + h.owners * w[3]
                                   + (IF h.acquired THEN w[4] ELSE 0))
           often(h) == h.days > 0 /\ 36525 * changes(h) > 100 * h.days
           x(h) == IF often(h) THEN (suspicion(h) * 3) \div 2 ELSE suspicion(h)
<1>1. w[1] \in Nat /\ w[2] \in Nat /\ w[3] \in Nat /\ w[4] \in Nat
  BY RowsAreWeights
<1>2. /\ f.names \in Nat /\ g.names \in Nat /\ f.names <= g.names
      /\ f.addresses \in Nat /\ g.addresses \in Nat /\ f.addresses <= g.addresses
      /\ f.owners \in Nat /\ g.owners \in Nat /\ f.owners <= g.owners
      /\ f.days \in Int /\ g.days = f.days
  BY DEF NoBetterFacts, Facts
<1>3. \A h : StructuralChange(h, age) = Unit(x(h))
  BY DEF StructuralChange, w
<1> HIDE DEF w
<1>4. ASSUME NEW n \in Nat, NEW m \in Nat, n <= m, NEW v \in Nat
      PROVE  n * v \in Nat /\ m * v \in Nat /\ n * v <= m * v
  BY <1>4
<1>5. suspicion(f) \in Nat /\ suspicion(g) \in Nat /\ suspicion(f) <= suspicion(g)
  <2> DEFINE owned(h) == IF h.acquired THEN w[4] ELSE 0
  <2>1. f.names * w[1] \in Nat /\ g.names * w[1] \in Nat /\ f.names * w[1] <= g.names * w[1]
    BY <1>1, <1>2, <1>4
  <2>2. f.addresses * w[2] \in Nat /\ g.addresses * w[2] \in Nat /\ f.addresses * w[2] <= g.addresses * w[2]
    BY <1>1, <1>2, <1>4
  <2>3. f.owners * w[3] \in Nat /\ g.owners * w[3] \in Nat /\ f.owners * w[3] <= g.owners * w[3]
    BY <1>1, <1>2, <1>4
  <2>4. owned(f) \in Nat /\ owned(g) \in Nat /\ owned(f) <= owned(g)
    BY <1>1 DEF NoBetterFacts, Facts
  <2> HIDE DEF owned
  <2>5. /\ suspicion(f) = 10 * (f.names * w[1] + f.addresses * w[2] + f.owners * w[3] + owned(f))
        /\ suspicion(g) = 10 * (g.names * w[1] + g.addresses * w[2] + g.owners * w[3] + owned(g))
    BY DEF owned
  <2> HIDE DEF suspicion
  <2> QED BY <2>1, <2>2, <2>3, <2>4, <2>5
<1>6. often(f) => often(g)
  <2>1. changes(f) \in Nat /\ changes(g) \in Nat /\ changes(f) <= changes(g)
    BY <1>2
  <2> HIDE DEF changes
  <2> QED BY <1>2, <2>1
<1> DEFINE a == x(f)
           b == x(g)
<1>7. a \in Int /\ b \in Int /\ a <= b
  <2> DEFINE s == suspicion(f)
             t == suspicion(g)
  <2> HIDE DEF suspicion, often
  <2>1. a = (IF often(f) THEN (s * 3) \div 2 ELSE s) /\ b = (IF often(g) THEN (t * 3) \div 2 ELSE t)
    OBVIOUS
  <2> HIDE DEF s, t, a, b
  <2>2. s \in Nat /\ t \in Nat /\ s <= t
    BY <1>5 DEF s, t
  <2>3. (s * 3) \div 2 \in Nat /\ (t * 3) \div 2 \in Nat /\ (s * 3) \div 2 <= (t * 3) \div 2
        /\ s <= (t * 3) \div 2
    BY <2>2
  <2> QED BY <1>6, <2>1, <2>2, <2>3
<1> HIDE DEF x, a, b
<1>8. Unit(b) \in 0 .. 1000 /\ Unit(a) \in 0 .. 1000 /\ Unit(a) <= Unit(b)
  BY <1>7, UnitGrows
<1> QED BY <1>3, <1>8 DEF a, b

LEMMA AgeRiskRises ==
    ASSUME NEW f \in Facts, NEW g \in Facts, NoBetterFacts(f, g), NEW age \in Ages
    PROVE  OverallAgeRisk(f, age) <= OverallAgeRisk(g, age)
<1> DEFINE h == HistoricalDepth(f.findings, age)
           t(i) == FinancialTransparency(i, age)
           l(i) == LeadershipRisk(i, age)
           o(i) == OperationalMaturity(i, age)
           m(i) == MediaVelocity(i, age)
           s(i) == StructuralChange(i, age)
<1>1. h \in Int /\ HistoricalDepth(g.findings, age) = h
  BY DepthIsNumber DEF NoBetterFacts, Facts
<1>2. t(f) \in Int /\ t(g) \in Int /\ t(g) <= t(f)
  BY TransparencyFalls
<1>3. l(f) \in Int /\ l(g) \in Int /\ l(f) <= l(g)
  BY LeadershipRises
<1>4. o(f) \in Int /\ o(g) \in Int /\ o(g) <= o(f)
  BY OperationsFall
<1>5. m(f) \in Int /\ m(g) \in Int /\ m(f) <= m(g)
  BY MediaRises
<1>6. s(f) \in Int /\ s(g) \in Int /\ s(f) <= s(g)
  BY StructureRises
<1>7. ASSUME NEW i, HistoricalDepth(i.findings, age) = h
      PROVE  OverallAgeRisk(i, age) = 15 * (1000 - h) + 20 * (1000 - t(i)) + 15 * l(i)
                                        + 15 * (1000 - o(i)) + 20 * m(i) + 15 * s(i)
  BY <1>7 DEF OverallAgeRisk
<1>8. /\ OverallAgeRisk(f, age) = 15 * (1000 - h) + 20 * (1000 - t(f)) + 15 * l(f)
                                     + 15 * (1000 - o(f)) + 20 * m(f) + 15 * s(f)
      /\ OverallAgeRisk(g, age) = 15 * (1000 - h) + 20 * (1000 - t(g)) + 15 * l(g)
                                     + 15 * (1000 - o(g)) + 20 * m(g) + 15 * s(g)
  BY <1>1, <1>7
<1> HIDE DEF h, t, l, o, m, s
<1> QED BY <1>1, <1>2, <1>3, <1>4, <1>5, <1>6, <1>8

-------------------------------------------------------------------------------
(* The stability score: whatever the profile, one adverse fact more never raises it or lifts its gate. *)

Period == [revenue : Int, income : Int, leverage : Int]
AnyProfile == [age : Ages, doubt : BOOLEAN, closed : BOOLEAN, metrics : Seq(Period), records : Seq(Proceedings)]

\* Proceedings are only added, and a last period is worse in what the penalties read of it.
RecordsGrow(a, b) == b = a \/ \E l \in Listings(a) : b = InsertAt(a, l[1], l[2])
PeriodsWorsen(a, b) ==
    /\ Len(b) = Len(a) /\ \A i \in 1 .. Len(a) - 1 : b[i] = a[i]
    /\ Len(a) > 0 => LET x == a[Len(a)]
                         y == b[Len(a)]
                     IN y.revenue <= x.revenue /\ (x.income < 0 => y.income < 0) /\ x.leverage <= y.leverage
NoBetterProfile(p, q) == /\ q.age = p.age /\ (p.doubt => q.doubt) /\ (p.closed => q.closed)
                         /\ RecordsGrow(p.records, q.records) /\ PeriodsWorsen(p.metrics, q.metrics)

LEMMA SamePeriods ==
    ASSUME NEW a \in Seq(Period)
    PROVE  PeriodsWorsen(a, a)
<1>1. Len(a) \in Nat /\ (Len(a) > 0 => a[Len(a)] \in Period)
  BY LenProperties, ElementOfSeq
<1> QED BY <1>1 DEF PeriodsWorsen, Period

\* A sequence whose last element is changed.
LEMMA LastChanged ==
    ASSUME NEW a \in Seq(Period), Len(a) > 0, NEW x \in Period
    PROVE  LET b == [a EXCEPT ![Len(a)] = x]
           IN /\ b \in Seq(Period) /\ Len(b) = Len(a) /\ b[Len(a)] = x
              /\ \A i \in 1 .. Len(a) - 1 : b[i] = a[i]
<1> DEFINE n == Len(a)
           b == [a EXCEPT ![n] = x]
<1>1. n \in Nat /\ n > 0 /\ DOMAIN a = 1 .. n /\ \A i \in 1 .. n : a[i] \in Period
  BY LenProperties, ElementOfSeq
<1>2. n \in 1 .. n
  BY <1>1
<1>3. b \in Seq(Period) /\ Len(b) = n /\ \A j \in 1 .. n : b[j] = IF j = n THEN x ELSE a[j]
  BY <1>2, ExceptSeq
<1> HIDE DEF b, n
<1>4. b[n] = x /\ \A i \in 1 .. n - 1 : b[i] = a[i]
  BY <1>1, <1>2, <1>3
<1> QED BY <1>3, <1>4 DEF b, n

\* A proceeding that is listed among others leaves them in their order.
LEMMA Inserted ==
    ASSUME NEW a \in Seq(Proceedings), NEW i \in 1 .. Len(a) + 1, NEW r \in Proceedings
    PROVE  LET b == InsertAt(a, i, r)
           IN /\ b \in Seq(Proceedings) /\ Len(b) = Len(a) + 1 /\ b[i] = r
              /\ \A k \in 1 .. i - 1 : b[k] = a[k]
              /\ \A k \in i .. Len(a) : b[k + 1] = a[k]
<1> DEFINE n == Len(a)
           u == SubSeq(a, 1, i - 1)
           v == SubSeq(a, i, n)
           w == u \o <<r>>
<1>1. n \in Nat /\ i \in Int /\ 1 <= i /\ i <= n + 1 /\ \A k \in 1 .. n : a[k] \in Proceedings
  BY LenProperties, ElementOfSeq
<1>2. u \in Seq(Proceedings) /\ Len(u) = i - 1 /\ \A k \in 1 .. i - 1 : u[k] = a[k]
  <2>1. \A k \in 1 .. i - 1 : k \in 1 .. n
    <3> HIDE DEF n
    <3> QED BY <1>1
  <2> HIDE DEF n
  <2> QED BY <1>1, <2>1, SubSeqProperties
<1>3. v \in Seq(Proceedings) /\ Len(v) = n - i + 1 /\ \A k \in 1 .. n - i + 1 : v[k] = a[i + k - 1]
  <2>1. \A k \in i .. n : k \in 1 .. n
    <3> HIDE DEF n
    <3> QED BY <1>1
  <2> HIDE DEF n
  <2> QED BY <1>1, <2>1, SubSeqProperties
<1> HIDE DEF u, v, n
<1>4. w \in Seq(Proceedings) /\ Len(w) = i /\ w[i] = r /\ \A k \in 1 .. i - 1 : w[k] = a[k]
  BY <1>1, <1>2
<1> HIDE DEF w
<1>5. /\ w \o v \in Seq(Proceedings) /\ Len(w \o v) = n + 1
      /\ \A k \in 1 .. i : (w \o v)[k] = w[k]
      /\ \A k \in 1 .. n - i + 1 : (w \o v)[i + k] = v[k]
  <2>1. /\ w \o v \in Seq(Proceedings) /\ Len(w \o v) = Len(w) + Len(v)
        /\ \A k \in 1 .. Len(w) + Len(v) : (w \o v)[k] = IF k <= Len(w) THEN w[k] ELSE v[k - Len(w)]
    BY <1>3, <1>4, ConcatProperties
  <2>2. Len(w) + Len(v) = n + 1
    BY <1>1, <1>3, <1>4
  <2>3. ASSUME NEW k \in 1 .. i PROVE (w \o v)[k] = w[k]
    <3>1. k \in 1 .. n + 1 /\ k <= i
      BY <1>1
    <3> QED BY <1>4, <2>1, <2>2, <3>1
  <2>4. ASSUME NEW k \in 1 .. n - i + 1 PROVE (w \o v)[i + k] = v[k]
    <3>1. i + k \in 1 .. n + 1 /\ ~(i + k <= i) /\ i + k - i = k
      BY <1>1
    <3> QED BY <1>4, <2>1, <2>2, <3>1
  <2> QED BY <2>1, <2>2, <2>3, <2>4
<1>6. ASSUME NEW k \in i .. n PROVE (w \o v)[k + 1] = a[k]
  <2> DEFINE m == k - i + 1
  <2>1. m \in 1 .. n - i + 1 /\ i + m = k + 1 /\ i + m - 1 = k
    BY <1>1
  <2> HIDE DEF m
  <2>2. (w \o v)[i + m] = v[m]
    BY <1>5, <2>1
  <2>3. v[m] = a[i + m - 1]
    BY <1>3, <2>1
  <2> QED BY <2>1, <2>2, <2>3
<1>7. i \in 1 .. i /\ \A k \in 1 .. i - 1 : k \in 1 .. i
  BY <1>1
<1>8. InsertAt(a, i, r) = w \o v
  BY DEF InsertAt, u, v, w, n
<1> QED BY <1>4, <1>5, <1>6, <1>7, <1>8 DEF n

LEMMA WorseIsNoBetter ==
    ASSUME NEW p \in AnyProfile, NEW q \in Worse(p)
    PROVE  q \in AnyProfile /\ NoBetterProfile(p, q)
<1> DEFINE n == Len(p.metrics)
           s == p.metrics[n]
<1>1. /\ p.metrics \in Seq(Period) /\ p.records \in Seq(Proceedings) /\ n \in Nat
      /\ PeriodsWorsen(p.metrics, p.metrics) /\ RecordsGrow(p.records, p.records)
  BY SamePeriods, LenProperties DEF AnyProfile, RecordsGrow
<1>2. ASSUME q = [p EXCEPT !.doubt = TRUE] \/ q = [p EXCEPT !.closed = TRUE]
      PROVE  q \in AnyProfile /\ NoBetterProfile(p, q)
  <2>1. CASE q = [p EXCEPT !.doubt = TRUE]
    <3>1. q \in AnyProfile
      BY <2>1 DEF AnyProfile
    <3>2. NoBetterProfile(p, q)
      BY <1>1, <2>1 DEF AnyProfile, NoBetterProfile
    <3> QED BY <3>1, <3>2
  <2>2. CASE q = [p EXCEPT !.closed = TRUE]
    <3>1. q \in AnyProfile
      BY <2>2 DEF AnyProfile
    <3>2. NoBetterProfile(p, q)
      BY <1>1, <2>2 DEF AnyProfile, NoBetterProfile
    <3> QED BY <3>1, <3>2
  <2> QED BY <1>2, <2>1, <2>2
<1>3. ASSUME NEW l \in Listings(p.records), q = [p EXCEPT !.records = InsertAt(@, l[1], l[2])]
      PROVE  q \in AnyProfile /\ NoBetterProfile(p, q)
  <2> DEFINE b == InsertAt(p.records, l[1], l[2])
  <2>1. b \in Seq(Proceedings) /\ RecordsGrow(p.records, b)
    <3>1. l[1] \in 1 .. Len(p.records) + 1 /\ l[2] \in Proceedings
      BY DEF Listings
    <3>2. b \in Seq(Proceedings)
      BY <1>1, <3>1, Inserted
    <3> QED BY <3>2 DEF RecordsGrow
  <2>2. q = [p EXCEPT !.records = b]
    BY <1>3
  <2> HIDE DEF b
  <2>3. q \in AnyProfile
    BY <2>1, <2>2 DEF AnyProfile
  <2>4. NoBetterProfile(p, q)
    BY <1>1, <2>1, <2>2 DEF AnyProfile, NoBetterProfile
  <2> QED BY <2>3, <2>4
<1>4. ASSUME NEW x \in Period, n # 0, q = [p EXCEPT !.metrics = [p.metrics EXCEPT ![n] = x]],
             x.revenue <= s.revenue, s.income < 0 => x.income < 0, s.leverage <= x.leverage
      PROVE  q \in AnyProfile /\ NoBetterProfile(p, q)
  <2> DEFINE b == [p.metrics EXCEPT ![n] = x]
  <2>1. b \in Seq(Period) /\ Len(b) = n /\ b[n] = x /\ \A i \in 1 .. n - 1 : b[i] = p.metrics[i]
    BY <1>1, <1>4, LastChanged
  <2> HIDE DEF b
  <2>2. PeriodsWorsen(p.metrics, b)
    BY <1>4, <2>1 DEF PeriodsWorsen
  <2>3. q = [p EXCEPT !.metrics = b]
    BY <1>4 DEF b
  <2>4. q \in AnyProfile
    BY <2>1, <2>3 DEF AnyProfile
  <2>5. NoBetterProfile(p, q)
    BY <1>1, <2>2, <2>3 DEF AnyProfile, NoBetterProfile
  <2> QED BY <2>4, <2>5
<1>5. ASSUME n # 0,
             \/ q = [p EXCEPT !.metrics[n].revenue = @ - 1] \/ q = [p EXCEPT !.metrics[n].income = -1]
             \/ q = [p EXCEPT !.metrics[n].leverage = @ + 1]
      PROVE  q \in AnyProfile /\ NoBetterProfile(p, q)
  <2>1. s \in Period
    BY <1>1, <1>5, ElementOfSeq
  <2>2. CASE q = [p EXCEPT !.metrics[n].revenue = @ - 1]
    <3> DEFINE x == [s EXCEPT !.revenue = @ - 1]
    <3>1. x \in Period /\ x.revenue <= s.revenue /\ (s.income < 0 => x.income < 0) /\ s.leverage <= x.leverage
      BY <2>1 DEF Period
    <3>2. q = [p EXCEPT !.metrics = [p.metrics EXCEPT ![n] = x]]
      BY <2>2
    <3> HIDE DEF x
    <3> QED BY <1>4, <1>5, <3>1, <3>2
  <2>3. CASE q = [p EXCEPT !.metrics[n].income = -1]
    <3> DEFINE x == [s EXCEPT !.income = -1]
    <3>1. x \in Period /\ x.revenue <= s.revenue /\ (s.income < 0 => x.income < 0) /\ s.leverage <= x.leverage
      BY <2>1 DEF Period
    <3>2. q = [p EXCEPT !.metrics = [p.metrics EXCEPT ![n] = x]]
      BY <2>3
    <3> HIDE DEF x
    <3> QED BY <1>4, <1>5, <3>1, <3>2
  <2>4. CASE q = [p EXCEPT !.metrics[n].leverage = @ + 1]
    <3> DEFINE x == [s EXCEPT !.leverage = @ + 1]
    <3>1. x \in Period /\ x.revenue <= s.revenue /\ (s.income < 0 => x.income < 0) /\ s.leverage <= x.leverage
      BY <2>1 DEF Period
    <3>2. q = [p EXCEPT !.metrics = [p.metrics EXCEPT ![n] = x]]
      BY <2>4
    <3> HIDE DEF x
    <3> QED BY <1>4, <1>5, <3>1, <3>2
  <2> QED BY <1>5, <2>2, <2>3, <2>4
<1> QED BY <1>2, <1>3, <1>5 DEF Worse

-------------------------------------------------------------------------------
(* The penalties. *)

LEMMA DecliningStays ==
    ASSUME NEW a \in Seq(Period), NEW b \in Seq(Period), PeriodsWorsen(a, b)
    PROVE  /\ Declining(a) => Declining(b)
           /\ Losing(a) => Losing(b)
           /\ Leverage(a) \in Int /\ Leverage(b) \in Int /\ Leverage(a) <= Leverage(b)
<1> DEFINE n == Len(a)
           from == Max({1, n - 2})
<1>1. /\ n \in Nat /\ Len(b) = n
      /\ \A i \in 1 .. n : a[i] \in Period /\ b[i] \in Period
      /\ \A i \in 1 .. n - 1 : b[i] = a[i]
  BY LenProperties, ElementOfSeq DEF PeriodsWorsen
<1>2. \A i \in 1 .. n : b[i].revenue <= a[i].revenue /\ (a[i].income < 0 => b[i].income < 0)
                          /\ a[i].leverage <= b[i].leverage
  <2> TAKE i \in 1 .. n
  <2>1. CASE i = n
    BY <1>1, <2>1 DEF PeriodsWorsen
  <2>2. CASE i # n
    <3>1. i \in 1 .. n - 1
      BY <1>1, <2>2
    <3>2. b[i] = a[i] /\ a[i] \in Period
      BY <1>1, <3>1
    <3>3. a[i].revenue \in Int /\ a[i].leverage \in Int
      BY <3>2 DEF Period
    <3>4. b[i].revenue = a[i].revenue /\ b[i].income = a[i].income /\ b[i].leverage = a[i].leverage
      BY <3>2
    <3> HIDE DEF n, from
    <3> QED BY <3>3, <3>4
  <2> QED BY <2>1, <2>2
<1>3. from \in 1 .. n + 1 /\ from \in Nat
  BY <1>1, LargerOfTwo
<1> DEFINE m == IF from <= n THEN n - from + 1 ELSE 0
<1>4. ASSUME NEW c \in Seq(Period), Len(c) = n
      PROVE  Declining(c) <=> (m >= 2 /\ \A i \in 2 .. m : c[from + i - 1].revenue < c[from + i - 2].revenue)
  <2>0. /\ m \in Nat /\ from \in Int /\ n \in Int
        /\ \A i \in 1 .. m : i \in 1 .. n - from + 1
        /\ \A i \in from .. n : c[i] \in Period
    <3>1. \A i \in from .. n : i \in 1 .. Len(c)
      BY <1>1, <1>3, <1>4
    <3>2. m \in Nat /\ from \in Int /\ n \in Int /\ \A i \in 1 .. m : i \in 1 .. n - from + 1
      <4> HIDE DEF from, n
      <4> QED BY <1>1, <1>3
    <3> QED BY <3>1, <3>2, ElementOfSeq
  <2>1. /\ SubSeq(c, from, n) \in Seq(Period) /\ Len(SubSeq(c, from, n)) = m
        /\ \A i \in 1 .. m : SubSeq(c, from, n)[i] = c[from + i - 1]
    <3> HIDE DEF from, n
    <3> QED BY <2>0, SubSeqProperties
  <2>2. Declining(c) <=> LET last == SubSeq(c, from, n)
                         IN Len(last) >= 2 /\ \A i \in 2 .. Len(last) : last[i].revenue < last[i - 1].revenue
    BY <1>4 DEF Declining
  <2> DEFINE last == SubSeq(c, from, n)
  <2> HIDE DEF last, m, from
  <2>3. \A i \in 2 .. m : last[i] = c[from + i - 1] /\ last[i - 1] = c[from + i - 2]
    <3> TAKE i \in 2 .. m
    <3>1. i \in 1 .. m /\ i - 1 \in 1 .. m /\ from + (i - 1) - 1 = from + i - 2
      BY <1>3, <2>0
    <3> QED BY <2>1, <3>1 DEF last
  <2> QED BY <2>1, <2>2, <2>3 DEF last
<1>5. Declining(a) => Declining(b)
  <2> SUFFICES ASSUME Declining(a) PROVE Declining(b)
    OBVIOUS
  <2>1. m >= 2 /\ \A i \in 2 .. m : a[from + i - 1].revenue < a[from + i - 2].revenue
    BY <1>4
  <2>2. ASSUME NEW i \in 2 .. m
        PROVE  b[from + i - 1].revenue < b[from + i - 2].revenue
    <3>1. from + i - 1 \in 1 .. n /\ from + i - 2 \in 1 .. n - 1
      <4> HIDE DEF from, n
      <4> QED BY <1>1, <1>3
    <3> DEFINE k == from + i - 1
               j == from + i - 2
    <3>2. a[k].revenue < a[j].revenue
      BY <2>1
    <3> HIDE DEF k, j, from, m, n
    <3>3. k \in 1 .. n /\ j \in 1 .. n - 1 /\ j \in 1 .. n
      BY <1>1, <3>1 DEF k, j
    <3>4. b[j] = a[j] /\ b[k].revenue <= a[k].revenue
      BY <1>1, <1>2, <3>3
    <3>5. a[k].revenue \in Int /\ b[k].revenue \in Int /\ a[j].revenue \in Int
      BY <1>1, <3>3 DEF Period
    <3>6. b[k].revenue < b[j].revenue
      BY <3>2, <3>4, <3>5
    <3> QED BY <3>6 DEF k, j
  <2> HIDE DEF m, from
  <2> QED BY <1>1, <1>4, <2>1, <2>2
<1>6. Losing(a) => Losing(b)
  BY <1>1, <1>2 DEF Losing
<1>7. Leverage(a) \in Int /\ Leverage(b) \in Int /\ Leverage(a) <= Leverage(b)
  <2>1. CASE n = 0
    <3>1. a = <<>> /\ b = <<>>
      BY <1>1, <2>1, EmptySeq
    <3> QED BY <3>1 DEF Leverage
  <2>2. CASE n # 0
    <3>1. a # <<>> /\ b # <<>> /\ n \in 1 .. n
      BY <1>1, <2>2
    <3>2. Leverage(a) = a[n].leverage /\ Leverage(b) = b[n].leverage
      BY <1>1, <3>1 DEF Leverage, Last
    <3> QED BY <1>1, <1>2, <3>1, <3>2 DEF Period
  <2> QED BY <2>1, <2>2
<1> QED BY <1>5, <1>6, <1>7

\* The first closed proceeding, if there is one, comes after active ones only.
LEMMA FirstClosedIs ==
    ASSUME NEW s \in Seq(Proceedings)
    PROVE  LET f == FirstClosed(s)
           IN \/ f = 0 /\ \A k \in 1 .. Len(s) : s[k] = "active"
              \/ /\ f \in 1 .. Len(s) /\ s[f] \in {"old", "recent"}
                 /\ \A k \in 1 .. f - 1 : s[k] = "active"
<1> DEFINE Closed == {k \in 1 .. Len(s) : s[k] # "active"}
           f == FirstClosed(s)
<1>1. f = IF Closed # {} THEN Min(Closed) ELSE 0
  BY DEF FirstClosed, SelectInSeq
<1>2. CASE Closed = {}
  BY <1>1, <1>2
<1>3. CASE Closed # {}
  <2>1. Closed \subseteq Nat /\ Len(s) \in Nat
    BY LenProperties
  <2>2. PICK l \in Closed : \A k \in Closed : l <= k
    <3> HIDE DEF Closed
    <3> QED BY <1>3, <2>1, LeastNatural
  <2>3. Min(Closed) = CHOOSE k \in Closed : \A j \in Closed : k <= j
    BY DEF Min
  <2>4. f \in Closed /\ \A k \in Closed : f <= k
    <3> HIDE DEF Closed, f
    <3> QED BY <1>1, <1>3, <2>2, <2>3
  <2> HIDE DEF f
  <2>5. f \in 1 .. Len(s) /\ s[f] # "active" /\ s[f] \in Proceedings
    BY <2>4, ElementOfSeq
  <2>6. \A k \in 1 .. f - 1 : s[k] = "active"
    <3> TAKE k \in 1 .. f - 1
    <3>1. k \in 1 .. Len(s) /\ ~(f <= k)
      BY <2>1, <2>5
    <3> QED BY <2>4, <3>1
  <2> QED BY <2>5, <2>6 DEF f, Proceedings
<1> QED BY <1>2, <1>3

\* Another proceeding in the list, wherever it weighs against the vendor, lowers no charge.
LEMMA PastChargeGrows ==
    ASSUME NEW a \in Seq(Proceedings), NEW b \in Seq(Proceedings), RecordsGrow(a, b)
    PROVE  PastCharge(a) \in {0, 5, 20} /\ PastCharge(b) \in {0, 5, 20} /\ PastCharge(a) <= PastCharge(b)
<1> DEFINE Cost(r) == IF r = "old" THEN 5 ELSE 20
<1>1. ASSUME NEW s \in Seq(Proceedings)
      PROVE  /\ PastCharge(s) = IF FirstClosed(s) = 0 THEN 0 ELSE Cost(s[FirstClosed(s)])
             /\ PastCharge(s) \in {0, 5, 20}
  <2>1. FirstClosed(s) # 0 => s[FirstClosed(s)] \in {"old", "recent"}
    BY FirstClosedIs
  <2> QED BY <2>1 DEF PastCharge
<1>2. CASE b = a
  BY <1>1, <1>2
<1>3. CASE b # a
  <2> DEFINE f == FirstClosed(a)
             g == FirstClosed(b)
             n == Len(a)
  <2>1. PICK l \in Listings(a) : b = InsertAt(a, l[1], l[2])
    BY <1>3 DEF RecordsGrow
  <2> DEFINE i == l[1]
             r == l[2]
  <2>2. /\ i \in 1 .. n + 1 /\ r \in Proceedings
        /\ r = "old" /\ f # 0 => a[f] = "old" \/ i > f
    <3>1. l \in {x \in (1 .. n + 1) \X Proceedings : x[2] = "old" /\ f # 0 => a[f] = "old" \/ x[1] > f}
      BY <2>1, Zenon DEF Listings
    <3> HIDE DEF f, n
    <3> QED BY <3>1
  <2>3. /\ Len(b) = n + 1 /\ b[i] = r
        /\ \A k \in 1 .. i - 1 : b[k] = a[k]
        /\ \A k \in i .. n : b[k + 1] = a[k]
    <3>1. b = InsertAt(a, i, r)
      BY <2>1
    <3>2. i \in 1 .. Len(a) + 1 /\ r \in Proceedings
      BY <2>2
    <3> HIDE DEF i, r
    <3> QED BY <3>1, <3>2, Inserted
  <2>4. \/ f = 0 /\ \A k \in 1 .. n : a[k] = "active"
        \/ /\ f \in 1 .. n /\ a[f] \in {"old", "recent"}
           /\ \A k \in 1 .. f - 1 : a[k] = "active"
    BY FirstClosedIs
  <2>5. \/ g = 0 /\ \A k \in 1 .. n + 1 : b[k] = "active"
        \/ /\ g \in 1 .. n + 1 /\ b[g] \in {"old", "recent"}
           /\ \A k \in 1 .. g - 1 : b[k] = "active"
    BY <2>3, FirstClosedIs
  <2>6. n \in Nat
    BY LenProperties
  <2>7. /\ PastCharge(a) = IF f = 0 THEN 0 ELSE Cost(a[f])
        /\ PastCharge(b) = IF g = 0 THEN 0 ELSE Cost(b[g])
    BY <1>1
  <2> HIDE DEF f, g, n, i, r
  <2>8. CASE f = 0
    BY <1>1, <2>7, <2>8
  <2>9. CASE f # 0 /\ i <= f /\ r # "active"
    <3>1. ASSUME NEW k \in 1 .. i - 1 PROVE b[k] = "active"
      <4>1. f \in 1 .. n /\ k \in 1 .. f - 1
        BY <2>2, <2>4, <2>6, <2>9
      <4> QED BY <2>3, <2>4, <2>9, <4>1
    <3>2. i \in 1 .. n + 1 /\ b[i] # "active"
      BY <2>2, <2>3, <2>9
    <3>3. g = i
      BY <2>5, <2>6, <3>1, <3>2
    <3>4. b[g] = r /\ a[f] \in {"old", "recent"} /\ (r = "old" => a[f] = "old") /\ g # 0
      BY <2>2, <2>3, <2>4, <2>6, <2>9, <3>3
    <3> QED BY <2>7, <2>9, <3>4
  <2>10. CASE f # 0 /\ i <= f /\ r = "active"
    <3>1. b[f + 1] = a[f] /\ f + 1 \in 1 .. n + 1 /\ a[f] # "active"
      BY <2>2, <2>3, <2>4, <2>6, <2>10
    <3>2. ASSUME NEW k \in 1 .. f PROVE b[k] = "active"
      <4>1. CASE k < i
        <5>1. k \in 1 .. i - 1 /\ k \in 1 .. f - 1
          BY <2>2, <2>4, <2>6, <2>10, <4>1
        <5> QED BY <2>3, <2>4, <2>10, <5>1
      <4>2. CASE k = i
        BY <2>3, <2>10, <4>2
      <4>3. CASE k > i
        <5>1. k - 1 \in i .. n /\ k - 1 \in 1 .. f - 1 /\ (k - 1) + 1 = k
          BY <2>2, <2>4, <2>6, <2>10, <4>3
        <5> QED BY <2>3, <2>4, <2>10, <5>1
      <4> QED BY <2>2, <2>6, <4>1, <4>2, <4>3
    <3>3. g = f + 1
      <4>1. f \in Nat /\ g \in Nat /\ b[f + 1] # "active"
        BY <2>4, <2>5, <2>6, <2>10, <3>1
      <4>2. g # 0 /\ b[g] # "active" /\ \A k \in 1 .. g - 1 : b[k] = "active"
        BY <2>5, <3>1
      <4>3. ~(g <= f)
        BY <2>5, <4>1, <4>2, <3>2
      <4>4. ~(f + 1 <= g - 1)
        BY <4>1, <4>2
      <4> QED BY <4>1, <4>3, <4>4
    <3> QED BY <2>4, <2>6, <2>7, <2>10, <3>1, <3>3
  <2>11. CASE f # 0 /\ i > f
    <3>0. f \in 1 .. n /\ \A k \in 1 .. f : k \in 1 .. i - 1
      BY <2>2, <2>4, <2>6, <2>11
    <3>1. b[f] = a[f] /\ f \in 1 .. n + 1 /\ a[f] # "active" /\ \A k \in 1 .. f - 1 : b[k] = "active"
      <4>1. f \in 1 .. n + 1 /\ f \in 1 .. f /\ \A k \in 1 .. f - 1 : k \in 1 .. f
        BY <2>6, <3>0
      <4> QED BY <2>3, <2>4, <2>11, <3>0, <4>1
    <3>2. g = f
      BY <2>4, <2>5, <2>6, <2>11, <3>1
    <3> QED BY <2>4, <2>6, <2>7, <2>11, <3>1, <3>2
  <2>12. f \in Int /\ i \in Int
    BY <2>2, <2>4, <2>6
  <2> QED BY <1>1, <2>8, <2>9, <2>10, <2>11, <2>12
<1> QED BY <1>2, <1>3

LEMMA AgesAreNumbers ==
    ASSUME NEW age \in Ages
    PROVE  /\ PenaltyFactor[age] \in Nat /\ BaseScore[age] \in Int
           /\ BaseAdjustment[age] \in Int /\ Survivorship[age] \in Int
BY DEF Ages, PenaltyFactor, BaseScore, BaseAdjustment, Survivorship

LEMMA ChargedGrows ==
    ASSUME NEW p \in AnyProfile, NEW q \in AnyProfile, NoBetterProfile(p, q)
    PROVE  /\ Charged(Penalties(p)) \in Int /\ Charged(Penalties(q)) \in Int
           /\ Charged(Penalties(p)) <= Charged(Penalties(q))
<1> DEFINE x == PenaltyFactor[p.age]
           doubt(h) == IF h.doubt THEN 25 * x ELSE 0
           insolvency(h) == PastCharge(h.records) * x
           revenue(h) == IF Declining(h.metrics) THEN 15 * x ELSE 0
           debt(h) == CASE Leverage(h.metrics) > 3 -> 10 * x
                        [] Leverage(h.metrics) = 3 -> 5 * x
                        [] OTHER                   -> 0
           cash(h) == IF Losing(h.metrics) THEN 150 ELSE 0
<1>1. x \in Nat /\ q.age = p.age
  BY AgesAreNumbers DEF AnyProfile, NoBetterProfile
<1>2. ASSUME NEW h, h.age = p.age
      PROVE  Charged(Penalties(h)) = doubt(h) + insolvency(h) + revenue(h) + debt(h) + cash(h)
  BY <1>2 DEF Charged, Penalties
<1> HIDE DEF x
<1>3. doubt(p) \in Nat /\ doubt(q) \in Nat /\ doubt(p) <= doubt(q)
  BY <1>1 DEF NoBetterProfile, AnyProfile
<1>4. insolvency(p) \in Nat /\ insolvency(q) \in Nat /\ insolvency(p) <= insolvency(q)
  <2>1. p.records \in Seq(Proceedings) /\ q.records \in Seq(Proceedings) /\ RecordsGrow(p.records, q.records)
    BY DEF AnyProfile, NoBetterProfile
  <2> DEFINE u == PastCharge(p.records)
             v == PastCharge(q.records)
  <2>2. u \in {0, 5, 20} /\ v \in {0, 5, 20} /\ u <= v
    BY <2>1, PastChargeGrows
  <2> HIDE DEF u, v
  <2>3. u * x \in Nat /\ v * x \in Nat /\ u * x <= v * x
    BY <1>1, <2>2
  <2> QED BY <2>3 DEF u, v
<1>5. /\ p.metrics \in Seq(Period) /\ q.metrics \in Seq(Period) /\ PeriodsWorsen(p.metrics, q.metrics)
  BY DEF AnyProfile, NoBetterProfile
<1>6. revenue(p) \in Nat /\ revenue(q) \in Nat /\ revenue(p) <= revenue(q)
  BY <1>1, <1>5, DecliningStays
<1>7. cash(p) \in Nat /\ cash(q) \in Nat /\ cash(p) <= cash(q)
  BY <1>5, DecliningStays
<1>8. debt(p) \in Nat /\ debt(q) \in Nat /\ debt(p) <= debt(q)
  <2>1. Leverage(p.metrics) \in Int /\ Leverage(q.metrics) \in Int /\ Leverage(p.metrics) <= Leverage(q.metrics)
    BY <1>5, DecliningStays
  <2> QED BY <1>1, <2>1
<1> DEFINE sum(h) == doubt(h) + insolvency(h) + revenue(h) + debt(h) + cash(h)
<1>9. Charged(Penalties(p)) = sum(p) /\ Charged(Penalties(q)) = sum(q)
  BY <1>1, <1>2
<1> HIDE DEF doubt, insolvency, revenue, debt, cash
<1>10. sum(p) \in Int /\ sum(q) \in Int /\ sum(p) <= sum(q)
  BY <1>3, <1>4, <1>6, <1>7, <1>8
<1> HIDE DEF sum
<1> QED BY <1>9, <1>10

\* The score itself.
LEMMA ScoreFalls ==
    ASSUME NEW p \in AnyProfile, NEW q \in AnyProfile, NoBetterProfile(p, q), ~Gated(q)
    PROVE  /\ ~Gated(p) /\ StabilityScore(p) \in 0 .. 1000 /\ StabilityScore(q) \in 0 .. 1000
           /\ StabilityScore(q) <= StabilityScore(p)
<1> DEFINE base == Max({0, BaseScore[p.age] + BaseAdjustment[p.age]})
           bonus == Survivorship[p.age]
           c(h) == Charged(Penalties(h))
           F(i) == Max({0, Min({1000, i})})
<1>1. ~Gated(p)
  <2> SUFFICES ASSUME Gated(p) PROVE Gated(q)
    OBVIOUS
  <2>1. CASE p.closed
    BY <2>1 DEF Gated, NoBetterProfile
  <2>2. CASE Contains(p.records, "active")
    <3>1. PICK i \in 1 .. Len(p.records) : p.records[i] = "active"
      BY <2>2 DEF Contains
    <3>2. p.records \in Seq(Proceedings) /\ RecordsGrow(p.records, q.records)
      BY DEF AnyProfile, NoBetterProfile
    <3>3. \E k \in 1 .. Len(q.records) : q.records[k] = "active"
      <4>1. CASE q.records = p.records
        BY <3>1, <4>1
      <4>2. CASE \E l \in Listings(p.records) : q.records = InsertAt(p.records, l[1], l[2])
        <5>1. PICK l \in Listings(p.records) : q.records = InsertAt(p.records, l[1], l[2])
          BY <4>2
        <5>2. l[1] \in 1 .. Len(p.records) + 1 /\ l[2] \in Proceedings
          BY DEF Listings
        <5> DEFINE j == l[1]
                   r == l[2]
                   a == p.records
                   n == Len(a)
        <5>3. /\ Len(q.records) = n + 1
              /\ \A k \in 1 .. j - 1 : q.records[k] = a[k]
              /\ \A k \in j .. n : q.records[k + 1] = a[k]
          <6>1. q.records = InsertAt(a, j, r) /\ a \in Seq(Proceedings) /\ j \in 1 .. Len(a) + 1 /\ r \in Proceedings
            BY <3>2, <5>1, <5>2
          <6> HIDE DEF a, j, r
          <6> QED BY <6>1, Inserted
        <5>4. n \in Nat /\ j \in 1 .. n + 1 /\ i \in 1 .. n /\ p.records[i] = "active"
          BY <3>1, <3>2, <5>2, LenProperties
        <5> HIDE DEF j, r, n
        <5>5. CASE i < j
          BY <5>3, <5>4, <5>5
        <5>6. CASE i >= j
          <6>1. i + 1 \in 1 .. n + 1 /\ q.records[i + 1] = "active"
            BY <5>3, <5>4, <5>6
          <6> QED BY <5>3, <6>1
        <5> QED BY <5>4, <5>5, <5>6
      <4> QED BY <3>2, <4>1, <4>2 DEF RecordsGrow
    <3> QED BY <3>3 DEF Gated, Contains
  <2> QED BY <2>1, <2>2 DEF Gated
<1>2. p.age \in Ages /\ q.age = p.age
  BY DEF AnyProfile, NoBetterProfile
<1>3. base \in Int /\ bonus \in Int
  BY <1>2, AgesAreNumbers, LargerOfTwo
<1>4. c(p) \in Int /\ c(q) \in Int /\ c(p) <= c(q)
  BY ChargedGrows
<1>5. StabilityScore(p) = F(base - c(p) + bonus) /\ StabilityScore(q) = F(base - c(q) + bonus)
  BY <1>1, <1>2 DEF StabilityScore
<1> DEFINE a == base - c(p) + bonus
           b == base - c(q) + bonus
<1>6. a \in Int /\ b \in Int /\ b <= a /\ a <= a
  <2> HIDE DEF base, bonus, c
  <2> QED BY <1>3, <1>4
<1>7. StabilityScore(p) = F(a) /\ StabilityScore(q) = F(b)
  BY <1>5
<1>8. ASSUME NEW i \in Int, NEW j \in Int, i <= j
      PROVE  F(i) \in 0 .. 1000 /\ F(i) <= F(j)
  <2> DEFINE top == 1000
  <2>1. top \in Nat
    OBVIOUS
  <2> HIDE DEF top
  <2>2. Max({0, Min({top, i})}) \in 0 .. top /\ Max({0, Min({top, i})}) <= Max({0, Min({top, j})})
    BY <1>8, <2>1, ClampGrows
  <2> QED BY <2>2 DEF top
<1> HIDE DEF a, b, F
<1>9. F(b) \in 0 .. 1000 /\ F(b) <= F(a) /\ F(a) \in 0 .. 1000
  <2> HIDE DEF base, bonus, c
  <2>1. F(b) \in 0 .. 1000 /\ F(b) <= F(a)
    BY <1>6, <1>8, Zenon
  <2>2. F(a) \in 0 .. 1000
    BY <1>6, <1>8, Zenon
  <2> QED BY <2>1, <2>2
<1> QED BY <1>1, <1>7, <1>9

-------------------------------------------------------------------------------
(* The age, and the score at it. *)

LEMMA AgeIsNumber ==
    ASSUME CollectInv, RepliedInv, NEW p \in Procs, Finished(p), source = "rdap"
    PROVE  Days(p) \in Int \cup {None}
<1> DEFINE a == run[p].a
           found == run[p].result.findings
<1>1. CASE ~\E f \in found : f[1] = "entity_maturity"
  <2>1. Days(p) = None
    BY <1>1 DEF Days
  <2> QED BY <2>1
<1>2. CASE \E f \in found : f[1] = "entity_maturity"
  <2>1. found # {}
    BY <1>2
  <2>2. run[p].result # Timeout
    BY <2>1 DEF Timeout, Result
  <2>3. run[p].result = Rdap(a) /\ DOMAIN a = {Singles["rdap"]}
    BY <2>2, DoneAnswers, SinglesDomain DEF Outcome, Answers
  <2>4. Singles["rdap"] = "domain"
    BY DEF Singles
  <2>5. Answered(a.domain)
    <3>1. ~Answered(a.domain) => found = {}
      BY <2>3, NoFindings DEF Rdap, Read
    <3> QED BY <2>1, <3>1
  <2>6. a.domain \in Replies.rdap.domain
    <3>1. p \in Both
      BY DEF Procs, Both
    <3> QED BY <2>3, <2>4, <3>1 DEF RepliedInv
  <2>7. "rdap" \in Sources
    BY DEF CollectInv
  <2>8. a.domain.body.age \in Int \cup {None}
    BY <2>5, <2>6, <2>7, CollectionAssumption
  <2>9. Days(p) = a.domain.body.age
    BY <1>2 DEF Days
  <2> QED BY <2>8, <2>9
<1> QED BY <1>1, <1>2

LEMMA NothingAdverseHelps ==
    ASSUME NEW days \in Int \cup {None}
    PROVE  AdverseAt(days)
<1> DEFINE age == AgeBand(days)
           facts == Placeholder(IF days = None THEN -1 ELSE days)
<1>1. age \in Ages
  BY DEF AgeBand, Ages
<1>2. facts \in Facts
  BY DEF Placeholder, Facts, Known
<1>3. \A p \in Profiles(age) : p \in AnyProfile
  <2> TAKE p \in Profiles(age)
  <2>1. /\ p \in [age : {age}, doubt : BOOLEAN, closed : BOOLEAN,
                  metrics : {<<>>} \cup {<<x, y>> : x \in Periods, y \in Periods},
                  records : SeqOf(Proceedings, 2)]
    BY DEF Profiles
  <2>2. Periods \subseteq Period
    BY DEF Periods, Period
  <2>3. \A x, y \in Periods : <<x, y>> \in Seq(Period)
    BY <2>2
  <2>4. p.metrics \in Seq(Period)
    <3>1. p.metrics \in {<<>>} \cup {<<x, y>> : x \in Periods, y \in Periods}
      BY <2>1
    <3>2. <<>> \in Seq(Period)
      OBVIOUS
    <3>3. CASE p.metrics = <<>>
      BY <3>2, <3>3
    <3>4. CASE p.metrics \in {<<x, y>> : x \in Periods, y \in Periods}
      <4>1. PICK x \in Periods, y \in Periods : p.metrics = <<x, y>>
        BY <3>4
      <4> QED BY <2>3, <4>1
    <3> QED BY <3>1, <3>3, <3>4
  <2>5. p.records \in Seq(Proceedings)
    <3>1. PICK m \in 0 .. 2 : p.records \in [1 .. m -> Proceedings]
      BY <2>1 DEF SeqOf
    <3> QED BY <3>1, SeqDef
  <2> HIDE DEF age
  <2> QED BY <1>1, <2>1, <2>4, <2>5 DEF AnyProfile
<1> HIDE DEF age, facts
<1>4. ASSUME NEW p \in Profiles(age), NEW q \in Worse(p), StabilityScore(q) # None
      PROVE  StabilityScore(p) # None /\ StabilityScore(q) <= StabilityScore(p)
  <2>1. p \in AnyProfile /\ q \in AnyProfile /\ NoBetterProfile(p, q)
    BY <1>3, WorseIsNoBetter
  <2>2. ~Gated(q)
    BY <1>4 DEF StabilityScore
  <2>3. StabilityScore(p) \in 0 .. 1000 /\ StabilityScore(q) <= StabilityScore(p)
    BY <2>1, <2>2, ScoreFalls
  <2>4. None \notin Int
    BY CollectionAssumption
  <2>5. 0 .. 1000 \subseteq Int
    OBVIOUS
  <2> QED BY <2>3, <2>4, <2>5
<1>5. ASSUME NEW f \in {facts} \cup Adverse(facts), NEW g \in Adverse(f)
      PROVE  OverallAgeRisk(f, age) <= OverallAgeRisk(g, age)
  <2>1. f \in Facts
    BY <1>2, AdverseIsNoBetter
  <2>2. g \in Facts /\ NoBetterFacts(f, g)
    BY <2>1, AdverseIsNoBetter
  <2> QED BY <1>1, <2>1, <2>2, AgeRiskRises
<1> QED BY <1>4, <1>5 DEF AdverseAt, age, facts

\* Whatever age a register gives a vendor, one adverse fact more never raises its stability score,
\* lifts its gate or lowers its age risk; a proceeding more may be listed anywhere, but an old one not
\* before the recent one that is charged.
THEOREM AdverseHolds == Spec => []AdverseNeverHelps
<1>1. CollectInv /\ RepliedInv => AdverseNeverHelps
  BY AgeIsNumber, NothingAdverseHelps DEF AdverseNeverHelps
<1> QED BY <1>1, RepliedHolds, CollectionInvariant, PTL
===============================================================================
