---------------------------- MODULE MonitorLedger -----------------------------
(***************************************************************************)
(* The scheduled monitor (scheduler.py, monitor.py) and its run ledger.    *)
(* An OS timer, or a person, starts a process that appends `started`,      *)
(* considers every vendor of the book by its tier's plan, re-scores the    *)
(* ones that are due, and appends `finished` with its counts, or `failed`. *)
(* Processes overlap, vendors fail, a process may be killed anywhere.  The *)
(* health verdict and the list of incomplete runs are read from the newest *)
(* rows of the ledger only.                                                *)
(*                                                                         *)
(* Time passes in whole units of the clocks' tables; ages are kept up to   *)
(* the longest interval, where every comparison has settled.               *)
(***************************************************************************)
EXTENDS AssessmentDepth, FiniteSets

CONSTANTS Vendors,          \* the scored vendors' refs, as the numbers of their order
          Timer, Hands,     \* the timer's process; processes people start
          Exposures,        \* per vendor: <<criticality, data_access_scope>> pairs declared of it
          Domainless,       \* vendors without stored evidence of a domain
          CanFail,          \* per vendor: what can be wrong with it,
          SourceOf,         \*   the collector that sees it,
          RecheckOf,        \*   and the re-check its finding asks for
          Tolerance,        \* HEALTHY_SILENCE_HOURS
          Window,           \* monitoring_health reads this many rows
          MaxFaults,        \* bound: kills, sweeps that raise and vendors that fail
          MaxSweep          \* bound: how long a sweep lasts

ASSUME LedgerAssumption ==
    /\ Timer \notin Hands /\ IsFiniteSet(Hands)
    /\ None \notin Nat \cup [since : Nat, broken : BOOLEAN] /\ Vendors \subseteq Nat /\ IsFiniteSet(Vendors)
    /\ Domainless \subseteq Vendors
    /\ DOMAIN SourceOf = DOMAIN RecheckOf
    /\ CanFail \in [Vendors -> SUBSET DOMAIN SourceOf]
    /\ \A c \in DOMAIN SourceOf : SourceOf[c] \in CoreSources /\ RecheckOf[c] \in DOMAIN RecheckDays
    /\ Tolerance \in Nat /\ Window \in Nat \ {0} /\ MaxFaults \in Nat /\ MaxSweep \in Nat

Processes == {Timer} \cup Hands
Actions == {"rescored", "skipped", "would_rescore", "error"}
MaxAge == MaxSweep + CadenceDays.annual         \* beyond it every clock has run out
RunIds == 1 .. Window + Cardinality(Processes)  \* a uuid is never one a reader can still see

VARIABLES book,     \* per vendor: age of its latest score, its exposure, what is wrong with it
                    \* and which of that its latest findings charge
          proc,     \* per process: its sweep's stage and local variables
          ledger,   \* table monitor_runs, newest last, as far as a reader fetches it
          faults,   \* faults so far
          died,     \* history: runs whose process was killed, while the ledger shows them
          success   \* history: the last live sweep that completed and whether one failed since,
                    \* while the ledger shows it

vars == <<book, proc, ledger, faults, died, success>>

Idle == [stage |-> "idle", run |-> None, dry |-> FALSE, elapsed |-> 0, at |-> None,
         depth |-> None, acted |-> [v \in Vendors |-> None], wrote |-> {}]

Rows == [run : RunIds, event : {"started", "finished", "failed"}, dry : BOOLEAN,
         age : 0 .. Tolerance + 1, failed : Nat]

TypeOK ==
    /\ DOMAIN book = Vendors
    /\ \A v \in Vendors : book[v] \in [age : 0 .. MaxAge, exposure : Exposures[v],
                                       wrong : SUBSET CanFail[v], charged : SUBSET CanFail[v]]
    /\ proc \in [Processes -> [stage : {"idle", "sweeping", "scoring"},
                               run : RunIds \cup {None}, dry : BOOLEAN, elapsed : 0 .. MaxSweep,
                               at : Vendors \cup {None}, depth : Depths \cup {None},
                               acted : [Vendors -> Actions \cup {None, "listed"}],
                               wrote : SUBSET Vendors]]
    /\ ledger \in Seq(Rows) /\ Len(ledger) <= Window
    /\ faults \in 0 .. MaxFaults
    /\ died \subseteq RunIds
    /\ success \in [since : 0 .. Tolerance + 1, broken : BOOLEAN] \cup {None}

Init == /\ book = [v \in Vendors |-> [age |-> 0, exposure |-> CHOOSE e \in Exposures[v] : TRUE,
                                       wrong |-> {}, charged |-> {}]]
        /\ proc = [p \in Processes |-> Idle]
        /\ ledger = <<>> /\ faults = 0 /\ died = {} /\ success = None

-------------------------------------------------------------------------------
(* The ledger *)

RunsIn(rows) == {rows[i].run : i \in DOMAIN rows}
Completed(row) == row.event = "finished" /\ ~row.dry
Recent(rows) == IF Len(rows) > Window THEN Tail(rows) ELSE rows

\* put_monitor_run: one more row.  Of its counts only `failed` is kept, the others are reported
\* and never read.
PutMonitorRun(run, event, dry, failed) ==
    /\ ledger' = Recent(Append(ledger, [run |-> run, event |-> event, dry |-> dry,
                                        age |-> 0, failed |-> failed]))
    /\ died' = died \cap RunsIn(ledger')
    /\ success' = IF ~\E i \in DOMAIN ledger' : Completed(ledger'[i]) THEN None
                 ELSE CASE event = "finished" /\ ~dry -> [since |-> 0, broken |-> FALSE]
                        [] event = "failed" /\ ~dry   -> [success EXCEPT !.broken = TRUE]
                        [] OTHER                      -> success

\* Mutant of Live: a habit of dry runs reads as a working schedule.
LiveOrDry(event) == {i \in DOMAIN ledger : ledger[i].event = event}

\* monitoring_health reads the rows of live runs; LastRow is the newest of them.
Live(event) == {i \in DOMAIN ledger : ledger[i].event = event /\ ~ledger[i].dry}
LastRow(event) == CHOOSE i \in Live(event) : \A j \in Live(event) : j <= i

Healthy == /\ Live("finished") # {}
           /\ ledger[LastRow("finished")].age <= Tolerance
           /\ \A i \in Live("failed") : i < LastRow("finished")

\* Mutant of IncompleteRuns: only `finished` closes a run.
Unfinished == {ledger[i].run : i \in Live("started")} \ {ledger[i].run : i \in Live("finished")}

\* incomplete_runs of the health report.
IncompleteRuns == {ledger[i].run : i \in Live("started")}
                    \ {ledger[i].run : i \in Live("finished") \cup Live("failed")}

-------------------------------------------------------------------------------
(* A sweep *)

\* run_once and monitor(by_tier=True): the ledger says so before anything is done; then every
\* vendor of latest_scores_all is listed, and `now` read, once.
Start(p, dry) ==
    /\ proc[p].stage = "idle"
    /\ LET taken == RunsIn(ledger) \cup {proc[q].run : q \in Processes}
           run == CHOOSE r \in RunIds : r \notin taken
       IN /\ PutMonitorRun(run, "started", dry, 0)
          /\ proc' = [proc EXCEPT ![p] = [run |-> run, dry |-> dry, stage |-> "sweeping", elapsed |-> 0,
                                           at |-> None, depth |-> None, wrote |-> {},
                                           acted |-> [v \in Vendors |-> "listed"]]]
    /\ UNCHANGED <<book, faults>>

\* plan_of: a VendorProfile has no operating_years, so the age band is never passed.
PlanOf(v) == PlanFor(InherentTier(book[v].exposure[1], book[v].exposure[2], None), None)

\* _soonest_finding_recheck over the charged findings of the latest run.
FindingRecheck(v) == SoonestRecheck({RecheckOf[c] : c \in book[v].charged})

DueIn(p, v) == IsDue(PlanOf(v), book[v].age - proc[p].elapsed, FindingRecheck(v))

\* The vendors still to be considered, in the order of their refs.
Todo(p) == {v \in Vendors : proc[p].acted[v] = "listed"}
IsNext(p, v) == v \in Todo(p) /\ \A u \in Todo(p) : v <= u

\* Mutant of Skip: a skipped vendor is noted as re-scored to the same posture.
SkipUnstated(p, v) ==
    /\ proc[p].stage = "sweeping" /\ IsNext(p, v)
    /\ ~DueIn(p, v) \/ v \in Domainless
    /\ proc' = [proc EXCEPT ![p].acted[v] = "rescored"]
    /\ UNCHANGED <<book, ledger, faults, died, success>>

\* Not due, or no stored domain to rebuild the vendor from.
Skip(p, v) ==
    /\ proc[p].stage = "sweeping" /\ IsNext(p, v)
    /\ ~DueIn(p, v) \/ v \in Domainless
    /\ proc' = [proc EXCEPT ![p].acted[v] = "skipped"]
    /\ UNCHANGED <<book, ledger, faults, died, success>>

\* Due: a dry run says so, a live one enters run_pipeline with the depth of the plan.
Take(p, v) ==
    /\ proc[p].stage = "sweeping" /\ IsNext(p, v)
    /\ DueIn(p, v) /\ v \notin Domainless
    /\ proc' = IF proc[p].dry THEN [proc EXCEPT ![p].acted[v] = "would_rescore"]
               ELSE [proc EXCEPT ![p].stage = "scoring", ![p].at = v, ![p].depth = PlanOf(v).depth]
    /\ UNCHANGED <<book, ledger, faults, died, success>>

\* A run at some depth stores a score, and findings for what its collectors reach.
Scored(v, depth) ==
    [book[v] EXCEPT !.age = 0,
                    !.charged = {c \in book[v].wrong : Reached(depth, SourceOf[c])}]

\* The vendor that was at hand is noted and the sweep goes on.
Noted(p, action, stored) ==
    [proc[p] EXCEPT !.stage = "sweeping", !.at = None, !.depth = None,
                    !.acted[proc[p].at] = action,
                    !.wrote = IF stored THEN @ \cup {proc[p].at} ELSE @]

Rescore(p) ==
    LET v == proc[p].at
    IN /\ proc[p].stage = "scoring"
       /\ book' = [book EXCEPT ![v] = Scored(v, proc[p].depth)]
       /\ proc' = [proc EXCEPT ![p] = Noted(p, "rescored", TRUE)]
       /\ UNCHANGED <<ledger, faults, died, success>>

Fault == faults < MaxFaults /\ faults' = faults + 1

\* What a run that raises or dies on its way through the store may have left of itself: its
\* score row is committed before its findings and its profile, the findings one by one.
LeftOf(v, depth) ==
    {[book[v] EXCEPT !.age = 0, !.charged = c] :
        c \in {book[v].charged} \cup SUBSET Scored(v, depth).charged}

\* One bad vendor must not end the sweep.  It is noted as an error also when its score was
\* stored before the run raised.
VendorFails(p) ==
    LET v == proc[p].at
    IN /\ Fault /\ proc[p].stage = "scoring"
       /\ \E stored \in BOOLEAN :
             /\ IF stored THEN \E left \in LeftOf(v, proc[p].depth) : book' = [book EXCEPT ![v] = left]
                          ELSE UNCHANGED book
             /\ proc' = [proc EXCEPT ![p] = Noted(p, "error", stored)]
       /\ UNCHANGED <<ledger, died, success>>

Acted(p, actions) == {v \in Vendors : proc[p].acted[v] \in actions}

\* The counts of the summary and of the row `finished`, from the stated actions.
Counts(p) ==
    [considered |-> Cardinality(Acted(p, Actions)),
     rescored |-> Cardinality(Acted(p, {"rescored", "would_rescore"})),
     failed |-> Cardinality(Acted(p, {"error"}))]

Finish(p) ==
    /\ proc[p].stage = "sweeping" /\ Todo(p) = {}
    /\ PutMonitorRun(proc[p].run, "finished", proc[p].dry, Counts(p).failed)
    /\ proc' = [proc EXCEPT ![p] = Idle]
    /\ UNCHANGED <<book, faults>>

\* A statement of monitor() outside the vendor's try raises: recorded, then re-raised.
Raise(p) ==
    /\ Fault /\ proc[p].stage = "sweeping"
    /\ PutMonitorRun(proc[p].run, "failed", proc[p].dry, 0)
    /\ proc' = [proc EXCEPT ![p] = Idle]
    /\ UNCHANGED book

\* The process is killed, maybe in the middle of storing a run, or the row that closes the run
\* cannot be written.
Kill(p) ==
    /\ Fault /\ proc[p].stage # "idle"
    /\ died' = died \cup ({proc[p].run} \cap RunsIn(ledger))
    /\ proc' = [proc EXCEPT ![p] = Idle]
    /\ \/ UNCHANGED book
       \/ /\ proc[p].stage = "scoring"
          /\ LET v == proc[p].at
             IN \E left \in LeftOf(v, proc[p].depth) : book' = [book EXCEPT ![v] = left]
    /\ UNCHANGED <<ledger, success>>

-------------------------------------------------------------------------------
(* The rest of the world *)

\* POST /api/vendors/score: a run without a depth restriction.
ApiScore(v) == /\ book' = [book EXCEPT ![v] = Scored(v, "full")]
               /\ UNCHANGED <<proc, ledger, faults, died, success>>

\* The buyer declares another exposure.
Declare(v, exposure) == /\ book[v].exposure # exposure
                        /\ book' = [book EXCEPT ![v].exposure = exposure]
                        /\ UNCHANGED <<proc, ledger, faults, died, success>>

\* Something breaks at the vendor, or is fixed.
Change(v, c) == /\ book' = [book EXCEPT ![v].wrong = (@ \cup {c}) \ (@ \cap {c})]
                /\ UNCHANGED <<proc, ledger, faults, died, success>>

Capped(n, cap) == IF n < cap THEN n + 1 ELSE n

Tick ==
    /\ \A p \in Processes : proc[p].stage # "idle" => proc[p].elapsed < MaxSweep
    /\ book' = [v \in Vendors |-> [book[v] EXCEPT !.age = Capped(@, MaxAge)]]
    /\ proc' = [p \in Processes |-> [proc[p] EXCEPT !.elapsed = IF proc[p].stage = "idle" THEN 0 ELSE @ + 1]]
    /\ ledger' = [i \in DOMAIN ledger |->
                    [ledger[i] EXCEPT !.age = IF ledger[i].event = "finished"
                                                THEN Capped(@, Tolerance + 1) ELSE @]]
    /\ success' = IF success = None THEN None
                  ELSE [success EXCEPT !.since = Capped(@, Tolerance + 1)]
    /\ UNCHANGED <<faults, died>>

Sweep(p) == \/ Rescore(p) \/ Finish(p)
            \/ \E v \in Vendors : Skip(p, v) \/ Take(p, v)

Next ==
    \/ \E p \in Processes : Start(p, FALSE) \/ Sweep(p) \/ VendorFails(p) \/ Raise(p) \/ Kill(p)
    \/ \E p \in Hands : Start(p, TRUE)
    \/ \E v \in Vendors : \/ ApiScore(v)
                          \/ \E exposure \in Exposures[v] : Declare(v, exposure)
                          \/ \E c \in CanFail[v] : Change(v, c)
    \/ Tick

Spec == Init /\ [][Next]_vars

\* The timer fires again whenever its last process is gone, and that process goes on unless it
\* is killed: collectors have deadlines.  Nothing is assumed of the runs people start.
FairSpec == /\ Spec
            /\ WF_vars(Start(Timer, FALSE) \/ Sweep(Timer))

-------------------------------------------------------------------------------
(* Properties *)

\* A sweep at its end accounts for every vendor it listed, whichever of them failed.  It has
\* stored a score for every vendor it is about to report as re-scored, and none for a vendor it
\* reports neither as re-scored nor as failed; a failure can hide a score that was stored before
\* the run raised (monitor.monitor, scheduler.run_once; a dry run stores none).
CountsAddUp ==
    \A p \in Processes : proc[p].stage = "sweeping" /\ Todo(p) = {} =>
        /\ Counts(p).considered = Cardinality(Vendors)
        /\ Counts(p).rescored + Counts(p).failed <= Counts(p).considered
        /\ IF proc[p].dry THEN proc[p].wrote = {}
           ELSE /\ Acted(p, {"rescored"}) \subseteq proc[p].wrote
                /\ proc[p].wrote \subseteq Acted(p, {"rescored", "error"})

\* The health verdict is true exactly when a live sweep completed within the tolerance, none
\* failed after it, and the rows that were fetched still show it: dry runs, killed runs and old
\* successes never make it healthy (scheduler.monitoring_health).
HealthIsEarned ==
    Healthy <=> success # None /\ success.since <= Tolerance /\ ~success.broken

\* However many runs overlap and however many rows the window has dropped, incomplete_runs
\* names no run that reported an end, and every killed live run whose start is still fetched.
OrphansExact ==
    LET running == {proc[p].run : p \in {q \in Processes : proc[q].stage # "idle"}}
    IN /\ IncompleteRuns \subseteq died \cup running
       /\ \A i \in Live("started") : ledger[i].run \in died => ledger[i].run \in IncompleteRuns

\* What a clock says without the plan's machinery: the tier's interval or a charged finding's
\* re-check has run out.
Overdue(v) ==
    /\ v \notin Domainless
    /\ \/ \E c \in {PlanOf(v).cadence} \ {"passive"} : book[v].age >= CadenceDays[c]
       \/ \E c \in book[v].charged : book[v].age >= RecheckDays[RecheckOf[c]]

\* A vendor whose interval or whose finding's re-check date has passed is looked at again,
\* whichever runs die or vendors fail meanwhile (monitor.monitor, assessment_depth.is_due).
OverdueIsRescored == \A v \in Vendors : Overdue(v) ~> ~Overdue(v)

\* `monitor._soonest_finding_recheck` promises that the sweep never parks a real problem: what a
\* finding charges stays charged until the vendor fixed it.
ChargedUntilFixed ==
    [][\A v \in Vendors : \A c \in book[v].charged :
          c \in book'[v].wrong => c \in book'[v].charged]_vars

\* `scheduler.main` says that a partial failure is not a healthy run.
PartialFailureIsNotHealthy ==
    Healthy => ledger[LastRow("finished")].failed = 0
===============================================================================
