----------------------------- MODULE VendorRecord -----------------------------
(***************************************************************************)
(* The stored record of one vendor and everything that writes to it: the   *)
(* scoring runs of the API process, the re-scoring runs of the scheduled   *)
(* monitor process, the dispute handlers, the exposure declaration and the *)
(* size override (pipeline.run_pipeline, monitor.monitor, the handlers of  *)
(* api.py, the tables of pg_store.py).                                     *)
(*                                                                         *)
(* Every SQL statement commits by itself, so the two processes interleave  *)
(* between statements.  Inside the API process the code from the last      *)
(* collector's answer to the end of the run never suspends, and neither    *)
(* does a handler: `loop` and `copying` say who holds the event loop       *)
(* meanwhile.                                                              *)
(***************************************************************************)
EXTENDS Naturals, Sequences, FiniteSets

CONSTANTS ApiRuns,      \* runs of the API process
          SweepRuns,    \* runs of the monitor process
          Targets,      \* what a dispute can name: (signal, band_key) pairs
          Disputes,     \* dispute ids
          Levels,       \* criticality levels a buyer declares
          None,         \* Python's None
          MaxCopies,    \* bound: declarations and size overrides attempted
          FailingReads, \* whether latest_profile may fail inside the carry-forward
          NameOnly      \* whether the stored evidence may lack the vendor's domain

Kinds == {"nullify", "mitigate"}               \* of refutes

ASSUME RecordAssumption == /\ ApiRuns \cap SweepRuns = {}
                           /\ None \notin ApiRuns \cup SweepRuns \cup Levels \cup Kinds
                           /\ MaxCopies \in Nat
                           /\ FailingReads \in BOOLEAN /\ NameOnly \in BOOLEAN

Runs == ApiRuns \cup SweepRuns
Events == {"submitted", "accepted", "rejected"}
Outcomes == {"absent", "pass", "fail"}         \* how a run observes a target
Charges == {"none", "reduced", "full"}         \* a finding's effective_penalty
Stages == {"idle", "collecting", "collected", "built", "advised", "scored", "publishing",
           "done", "dead"}

VARIABLES stage,     \* how far each run has come
          run,       \* each run's arguments and local variables
          loop,      \* the API run in its last, unsuspended stretch
          copying,   \* the profile copy a handler is about to store
          scores,    \* table scores, in the order the rows were stored
          findings,  \* table findings
          profiles,  \* table vendor_profiles
          disputes,  \* table disputes
          clock,     \* utcnow()
          copies,    \* declarations and size overrides attempted so far
          declared   \* history: the criticality of the declaration stored last

tables == <<scores, findings, profiles, disputes, clock, copies, declared>>
vars == <<stage, run, loop, copying, tables>>

FindingRows == [run : Runs, target : Targets, charge : Charges]
ScoreRows == [run : Runs, at : Nat, blocked : BOOLEAN, charged : SUBSET (Targets \X Charges)]
ProfileRows == [crit : Levels \cup {None}, at : Nat]
DisputeRows == [id : Disputes, target : Targets, kind : Kinds, event : Events]
Locals == [vouched : BOOLEAN, crit : Levels \cup {None}, since : Nat,
           seen : [Targets -> Outcomes], gate : {"none", "ambiguous", "finding"},
           profile : ProfileRows \cup {None}, accepted : [Targets -> Kinds \cup {None}],
           score : ScoreRows \cup {None}, unsaved : SUBSET FindingRows]

TypeOK == /\ stage \in [Runs -> Stages]
          /\ run \in [Runs -> Locals]
          /\ \A r \in Runs : stage[r] = "scored" => run[r].score \in ScoreRows
          /\ loop \in ApiRuns \cup {None}
          /\ copying \in [row : ProfileRows, declares : BOOLEAN] \cup {None}
          /\ scores \in Seq(ScoreRows)
          /\ findings \in Seq(FindingRows)
          /\ profiles \in Seq(ProfileRows)
          /\ disputes \in Seq(DisputeRows)
          /\ clock \in Nat
          /\ copies \in 0 .. MaxCopies
          /\ declared \in Levels \cup {None}

-------------------------------------------------------------------------------
(* What readers of the tables see *)

\* ORDER BY computed_at DESC LIMIT 1: the row with the greatest computed_at, if any.
Newest(table) == {row \in {table[i] : i \in DOMAIN table} :
                    \A i \in DOMAIN table : table[i].at <= row.at}

\* findings_for_vendor(latest_only): the rows of the run that stored a row last.
CurrentFindings == {findings[i] : i \in {k \in DOMAIN findings :
                                            findings[k].run = findings[Len(findings)].run}}

\* The positions of a dispute's events in the log; the latest event of its dispute.
At(d) == {i \in DOMAIN disputes : disputes[i].id = d}
IsLatest(i) == \A k \in At(disputes[i].id) : k <= i

\* accepted_dispute_targets: what is in force on a target among the disputes whose latest
\* event is "accepted"; of two on one target the one submitted last (dict insertion order).
AcceptedOn(t) == {i \in DOMAIN disputes : /\ disputes[i].event = "accepted" /\ IsLatest(i)
                                          /\ disputes[i].target = t}
SubmittedAfter(j, i) == \A h \in At(disputes[j].id) : \E k \in At(disputes[i].id) : k < h
AcceptedKind(t) ==
    IF AcceptedOn(t) = {} THEN None
    ELSE IF \E i \in AcceptedOn(t) : /\ disputes[i].kind = "nullify"
                                     /\ \A j \in AcceptedOn(t) : ~SubmittedAfter(j, i)
           THEN "nullify" ELSE "mitigate"
AcceptedTargets == [t \in Targets |-> AcceptedKind(t)]

-------------------------------------------------------------------------------
(* A scoring run *)

NewRun == [vouched |-> FALSE, crit |-> None, since |-> 0,
           seen |-> [t \in Targets |-> "absent"], gate |-> "none",
           profile |-> None, accepted |-> [t \in Targets |-> None],
           score |-> None, unsaved |-> {}]

Init == /\ stage = [r \in Runs |-> "idle"]
        /\ run = [r \in Runs |-> NewRun]
        /\ loop = None
        /\ copying = None
        /\ scores = <<>> /\ findings = <<>> /\ profiles = <<>> /\ disputes = <<>>
        /\ clock = 0 /\ copies = 0
        /\ declared = None

\* What stays of a run's locals when it ends.
Ended(r) == [NewRun EXCEPT !.since = run[r].since]

\* No coroutine of the API process is between two suspensions.
LoopFree == loop = None /\ copying = None

\* run_pipeline is entered; `vouched` says that the caller supplied a resolution_confidence that
\* passes the entity gate (one that does not is an ambiguity like one that was found), and the
\* history variable `since` counts the dispute events stored before the run.
Begin(r, vouched, crit, since) ==
    /\ stage[r] = "idle"
    /\ stage' = [stage EXCEPT ![r] = "collecting"]
    /\ run' = [run EXCEPT ![r] = [NewRun EXCEPT !.vouched = vouched, !.crit = crit,
                                                !.since = since]]

\* POST /api/vendors/score: the job's run starts, told the criticality or not, and the
\* entity's resolution confidence or (in normal use) not.
RequestScore(r, vouched, crit) ==
    /\ LoopFree
    /\ Begin(r, vouched, crit, Len(disputes))
    /\ UNCHANGED <<loop, copying, tables>>

\* The monitor takes its next vendor from the stored scores and rebuilds it from the stored
\* evidence, with resolution_confidence=1.0.  The sweep is sequential.
SweepScore(r) ==
    /\ \A q \in SweepRuns : stage[q] \in {"idle", "done", "dead"}
    /\ scores # <<>>
    /\ Begin(r, TRUE, None, Len(disputes))
    /\ UNCHANGED <<loop, copying, tables>>

\* Mutant of Collect: the stores moved off the event loop, so another coroutine may run
\* between a run's last statements.
CollectSuspends(r) ==
    /\ stage[r] = "collecting"
    /\ r \in ApiRuns => LoopFree
    /\ \E seen \in [Targets -> Outcomes] : run' = [run EXCEPT ![r].seen = seen]
    /\ stage' = [stage EXCEPT ![r] = "collected"]
    /\ UNCHANGED <<loop, copying, tables>>

\* The last collector has answered.  What the run saw of each target is the world's choice,
\* and so is whether the registries leave the entity ambiguous (asked only of an entity no
\* one vouched for) or a finding hits a gate (sanctions or a configured one).  An API run
\* now keeps the loop to its end.
Collect(r) ==
    /\ stage[r] = "collecting"
    /\ r \in ApiRuns => LoopFree
    /\ \E seen \in [Targets -> Outcomes], gate \in {"none", "ambiguous", "finding"} :
          /\ gate = "ambiguous" => ~run[r].vouched
          /\ gate = "finding" => \E t \in Targets : seen[t] = "fail"
          /\ run' = [run EXCEPT ![r].seen = seen, ![r].gate = gate]
    /\ stage' = [stage EXCEPT ![r] = "collected"]
    /\ loop' = IF r \in ApiRuns THEN r ELSE loop
    /\ UNCHANGED <<copying, tables>>

\* Mutant of CarriedForward: a re-score writes what it was told, as before 2026-08-01.
BlankedForward(r) == {run[r].crit}

\* _carry_forward_declaration: a criticality that was not supplied is replayed from the
\* latest stored profile.
CarriedForward(r) ==
    IF run[r].crit # None \/ profiles = <<>> THEN {run[r].crit}
    ELSE {row.crit : row \in Newest(profiles)}

\* build_profile stamps a profile and the stored declaration is carried onto it; or the
\* build raises and the run goes on without a profile; or the carry-forward raises and the
\* run goes on with the profile as it was built.
BuildProfile(r) ==
    /\ stage[r] = "collected"
    /\ \/ \E crit \in CarriedForward(r) \cup (IF FailingReads THEN {run[r].crit} ELSE {}) :
             run' = [run EXCEPT ![r].profile = [crit |-> crit, at |-> clock + 1]]
       \/ UNCHANGED run
    /\ clock' = clock + 1
    /\ stage' = [stage EXCEPT ![r] = "built"]
    /\ UNCHANGED <<loop, copying, scores, findings, profiles, disputes, copies, declared>>

\* Mutant of LoadAccepted: only a re-score (the run of a vouched vendor) applies refutes.
LoadAcceptedOnRescore(r) ==
    /\ stage[r] = "built"
    /\ run' = [run EXCEPT ![r].accepted = IF run[r].vouched THEN AcceptedTargets ELSE @]
    /\ stage' = [stage EXCEPT ![r] = "advised"]
    /\ UNCHANGED <<loop, copying, tables>>

\* store.accepted_dispute_targets
LoadAccepted(r) ==
    /\ stage[r] = "built"
    /\ run' = [run EXCEPT ![r].accepted = AcceptedTargets]
    /\ stage' = [stage EXCEPT ![r] = "advised"]
    /\ UNCHANGED <<loop, copying, tables>>

\* The gates of ScoringEngine.score, and what a finding is charged after the refutes.
Blocked(r) == run[r].gate \in {"ambiguous", "finding"}
Charge(r, t) ==
    CASE run[r].seen[t] = "pass" \/ Blocked(r)   -> "none"
      [] run[r].accepted[t] = "nullify"          -> "none"
      [] run[r].accepted[t] = "mitigate"         -> "reduced"
      [] OTHER                                   -> "full"

\* The findings the engine returns: an ambiguous entity is blocked before normalising any.
Normalized(r) == {[run |-> r, target |-> t, charge |-> Charge(r, t)] :
                     t \in {u \in Targets : run[r].seen[u] # "absent" /\ run[r].gate # "ambiguous"}}

Score(r) ==
    /\ stage[r] = "advised"
    /\ LET charged == {n \in Normalized(r) : n.charge # "none"}
       IN run' = [run EXCEPT ![r] =
                    [Ended(r) EXCEPT
                       !.crit = run[r].crit, !.profile = run[r].profile,
                       !.score = [run |-> r, at |-> clock + 1, blocked |-> Blocked(r),
                                  charged |-> {<<n.target, n.charge>> : n \in charged}],
                       !.unsaved = Normalized(r)]]
    /\ clock' = clock + 1
    /\ stage' = [stage EXCEPT ![r] = "scored"]
    /\ UNCHANGED <<loop, copying, scores, findings, profiles, disputes, copies, declared>>

PutScore(r) ==
    /\ stage[r] = "scored"
    /\ scores' = Append(scores, run[r].score)
    /\ run' = [run EXCEPT ![r].score = None]
    /\ stage' = [stage EXCEPT ![r] = "publishing"]
    /\ UNCHANGED <<loop, copying, findings, profiles, disputes, clock, copies, declared>>

\* Mutant of PutFinding: findings first, the score after them.
PutFindingEarly(r) ==
    /\ stage[r] \in {"scored", "publishing"}
    /\ \E row \in run[r].unsaved :
          /\ findings' = Append(findings, row)
          /\ run' = [run EXCEPT ![r].unsaved = @ \ {row}]
    /\ UNCHANGED <<stage, loop, copying, scores, profiles, disputes, clock, copies, declared>>

\* put_findings inserts row after row.
PutFinding(r) ==
    /\ stage[r] = "publishing"
    /\ \E row \in run[r].unsaved :
          /\ findings' = Append(findings, row)
          /\ run' = [run EXCEPT ![r].unsaved = @ \ {row}]
    /\ UNCHANGED <<stage, loop, copying, scores, profiles, disputes, clock, copies, declared>>

\* The profile row, if there is a profile, and the end of the run.
PutProfile(r) ==
    /\ stage[r] = "publishing" /\ run[r].unsaved = {}
    /\ IF run[r].profile = None
         THEN UNCHANGED <<profiles, declared>>
         ELSE /\ profiles' = Append(profiles, run[r].profile)
              /\ declared' = IF run[r].crit = None THEN declared ELSE run[r].crit
    /\ stage' = [stage EXCEPT ![r] = "done"]
    /\ run' = [run EXCEPT ![r] = Ended(r)]
    /\ loop' = IF loop = r THEN None ELSE loop
    /\ UNCHANGED <<copying, scores, findings, disputes, clock, copies>>

\* A statement fails, an exception escapes or the process is killed: the run stops here.
Abort(r) ==
    /\ stage[r] \notin {"idle", "done", "dead"}
    /\ stage' = [stage EXCEPT ![r] = "dead"]
    /\ run' = [run EXCEPT ![r] = Ended(r)]
    /\ loop' = IF loop = r THEN None ELSE loop
    /\ UNCHANGED <<copying, tables>>

-------------------------------------------------------------------------------
(* The handlers that write, in the API process *)

PutDispute(d, t, kind, event) ==
    disputes' = Append(disputes, [id |-> d, target |-> t, kind |-> kind, event |-> event])

\* submit_dispute: the current findings must charge the target.
SubmitDispute(d, t, kind) ==
    /\ LoopFree /\ At(d) = {}
    /\ \E row \in CurrentFindings : row.target = t /\ row.charge # "none"
    /\ PutDispute(d, t, kind, "submitted")
    /\ UNCHANGED <<stage, run, loop, copying, scores, findings, profiles, clock, copies, declared>>

\* Mutant of Decide: the 409 for an already decided dispute is missing.
DecideAgain(i, event) ==
    /\ LoopFree
    /\ IsLatest(i) /\ Cardinality(At(disputes[i].id)) < 3
    /\ PutDispute(disputes[i].id, disputes[i].target, disputes[i].kind, event)

\* adjudicate_dispute stores the decision on a dispute that has none yet.
Decide(i, event) ==
    /\ LoopFree
    /\ disputes[i].event = "submitted" /\ IsLatest(i)
    /\ PutDispute(disputes[i].id, disputes[i].target, disputes[i].kind, event)

Reject(i) ==
    /\ Decide(i, "rejected")
    /\ UNCHANGED <<stage, run, loop, copying, scores, findings, profiles, clock, copies, declared>>

\* "accept": the event is stored, then _vendor_from_store rebuilds the vendor for a
\* re-score.  Evidence that names no domain ends it with a 409.  When a profile is stored it
\* reads an attribute that VendorProfile does not have, and the handler ends there with an
\* AttributeError.
Accept(i) ==
    /\ Decide(i, "accepted")
    /\ \/ /\ profiles = <<>>
          /\ \E r \in ApiRuns : Begin(r, TRUE, None, Len(disputes'))
       \/ /\ NameOnly \/ profiles # <<>>
          /\ UNCHANGED <<stage, run>>
    /\ UNCHANGED <<loop, copying, scores, findings, profiles, clock, copies, declared>>

\* declare_inherent (apply_entry): a copy of the latest profile with the declaration stated
\* now, stamped now ...
Declare(crit) ==
    /\ LoopFree /\ copies < MaxCopies
    /\ copying' = [row |-> [crit |-> crit, at |-> clock + 1], declares |-> TRUE]
    /\ clock' = clock + 1 /\ copies' = copies + 1
    /\ UNCHANGED <<stage, run, loop, scores, findings, profiles, disputes, declared>>

\* set_vendor_size (apply_size_override): the same for a client-supplied size; the copy
\* keeps the declaration it finds ...
SetSize ==
    /\ LoopFree /\ copies < MaxCopies
    /\ \E row \in Newest(profiles) :
          copying' = [row |-> [crit |-> row.crit, at |-> clock + 1], declares |-> FALSE]
    /\ clock' = clock + 1 /\ copies' = copies + 1
    /\ UNCHANGED <<stage, run, loop, scores, findings, profiles, disputes, declared>>

\* ... then put_profile, which may fail.
StoreCopy ==
    /\ copying # None
    /\ \/ /\ profiles' = Append(profiles, copying.row)
          /\ declared' = IF copying.declares THEN copying.row.crit ELSE declared
       \/ UNCHANGED <<profiles, declared>>
    /\ copying' = None
    /\ UNCHANGED <<stage, run, loop, scores, findings, disputes, clock, copies>>

-------------------------------------------------------------------------------
RunStep(r) == \/ Collect(r) \/ BuildProfile(r) \/ LoadAccepted(r) \/ Score(r)
              \/ PutScore(r) \/ PutFinding(r) \/ PutProfile(r) \/ Abort(r)

Next == \/ \E r \in ApiRuns, vouched \in BOOLEAN, crit \in Levels \cup {None} :
              RequestScore(r, vouched, crit)
        \/ \E r \in SweepRuns : SweepScore(r)
        \/ \E r \in Runs : RunStep(r)
        \/ \E d \in Disputes, t \in Targets, kind \in Kinds : SubmitDispute(d, t, kind)
        \/ \E i \in DOMAIN disputes : Reject(i) \/ Accept(i)
        \/ \E crit \in Levels \cup {None} : Declare(crit)
        \/ SetSize
        \/ StoreCopy

Spec == Init /\ [][Next]_vars

-------------------------------------------------------------------------------
(* Properties *)

\* Findings are persisted "behind" a score: every stored row belongs to a run whose score row
\* is stored, charges what that score charged, and is stored once, wherever the two
\* processes interleave and whichever insert was the last to succeed.
FindingsBacked ==
    \A i \in DOMAIN findings :
        LET f == findings[i]
        IN /\ \E k \in DOMAIN scores :
                 /\ scores[k].run = f.run
                 /\ f.charge # "none" <=> <<f.target, f.charge>> \in scores[k].charged
           /\ \A k \in DOMAIN findings : findings[k].run = f.run /\ findings[k].target = f.target
                                           => k = i

\* "ACCEPTED refutes are honoured on every score": no score of a run that began after a
\* refute had been accepted charges its target in full, however many other disputes the
\* target has and in whatever order they were submitted and decided.
AcceptedHonoured ==
    \A k \in DOMAIN scores :
        \A i \in 1 .. run[scores[k].run].since :
            disputes[i].event = "accepted" => <<disputes[i].target, "full">> \notin scores[k].charged

\* A dispute is opened once and decided at most once, about the target and kind that were
\* submitted: adjudicate_dispute answers 409 for a decided one.
AdjudicationFinal ==
    \A i, k \in DOMAIN disputes :
        i < k /\ disputes[i].id = disputes[k].id =>
            /\ disputes[i].event = "submitted" /\ disputes[k].event # "submitted"
            /\ disputes[i].target = disputes[k].target /\ disputes[i].kind = disputes[k].kind

\* The card is read from two tables, the latest score by its computed_at and the current
\* findings by their stored_at.  When the latest score's run has ended and kept findings,
\* the findings shown are that run's and no other's.  (True of one process; a sweep breaks it.)
CardIsOneRun ==
    \A s \in Newest(scores) :
        stage[s.run] = "done" /\ (\E i \in DOMAIN findings : findings[i].run = s.run)
            => \A f \in CurrentFindings : f.run = s.run

\* _carry_forward_declaration: "a run that was not told it should replay it rather than blank
\* it".  The latest profile states the criticality that was declared last, through re-scores,
\* size overrides, failed runs and failed writes.
DeclarationDurable == \A p \in Newest(profiles) : p.crit = declared

\* api.py on submit_dispute: "you cannot dispute a finding that is not on the card".  What
\* could be disputed now is charged by the latest score, when no run is writing.
DisputableIsOnCard ==
    (\A r \in Runs : stage[r] \in {"idle", "collecting", "done"}) =>
        \A f \in CurrentFindings : f.charge # "none" =>
            \A s \in Newest(scores) : <<f.target, f.charge>> \in s.charged

\* api.py on adjudicate_dispute: "Accept -> re-score with the refute applied".  Behind every
\* accepted refute stands a run that began once it was stored.
RefuteRescores ==
    \A i \in DOMAIN disputes : disputes[i].event = "accepted" =>
        \E r \in Runs : stage[r] # "idle" /\ run[r].since >= i

-------------------------------------------------------------------------------
(* Why these hold *)

Early == {"idle", "collecting", "collected", "built", "advised"}

\* How a finding row and the score row of its run agree.
Agrees(f, s) == /\ s.run = f.run
                /\ f.charge # "none" <=> <<f.target, f.charge>> \in s.charged

\* A run's rows: none is stored before its score; those still to store agree with the score,
\* have distinct targets, and none of them is stored yet.
RunRows(r) ==
    LET unsaved == run[r].unsaved
        Stored(t) == \E i \in DOMAIN findings : findings[i].run = r /\ findings[i].target = t
    IN /\ stage[r] \notin {"scored", "publishing"} => unsaved = {}
       /\ stage[r] \in Early \cup {"scored"} =>
             /\ \A i \in DOMAIN findings : findings[i].run # r
             /\ \A k \in DOMAIN scores : scores[k].run # r
       /\ stage[r] = "scored" => /\ run[r].score.run = r
                                 /\ \A f \in unsaved : Agrees(f, run[r].score)
       /\ stage[r] = "publishing" =>
             \A f \in unsaved : /\ \E k \in DOMAIN scores : Agrees(f, scores[k])
                                /\ ~Stored(f.target)
       /\ \A f \in unsaved : f.run = r
       /\ \A f, g \in unsaved : f.target = g.target => f = g

\* The inductive invariant behind FindingsBacked and AdjudicationFinal.
RecordInv == /\ TypeOK /\ FindingsBacked /\ AdjudicationFinal
             /\ \A r \in Runs : RunRows(r)

\* The refutes a run has to honour, from its start to its score row.
Honours(r) ==
    /\ run[r].since <= Len(disputes)
    /\ \A i \in 1 .. run[r].since : disputes[i].event = "accepted" =>
          /\ stage[r] = "advised" => run[r].accepted[disputes[i].target] # None
          /\ stage[r] = "scored" => <<disputes[i].target, "full">> \notin run[r].score.charged

\* The inductive invariant behind AcceptedHonoured, on top of RecordInv.
HonourInv == /\ RecordInv /\ AcceptedHonoured
             /\ \A r \in Runs : Honours(r)

\* One process by itself (SweepRuns = {}): a run in its last stretch holds the loop, and a
\* handler between its read and its write does.
LastStretch == {"collected", "built", "advised", "scored", "publishing"}
Alone == /\ \A r \in Runs : stage[r] \in LastStretch => loop = r
         /\ copying # None => loop = None

\* Then rows are stored in the order of their stamps, and a stamped row that is still to be
\* stored is the newest.
Ordered(table) == /\ \A i \in DOMAIN table : table[i].at <= clock
                  /\ \A i, k \in DOMAIN table : i < k => table[i].at < table[k].at
NewerThan(at, table) == at <= clock /\ \A i \in DOMAIN table : table[i].at < at
Stamped == /\ Ordered(scores) /\ Ordered(profiles)
           /\ \A r \in Runs : stage[r] = "scored" => NewerThan(run[r].score.at, scores)
           /\ \A r \in Runs : stage[r] \in {"collecting", "collected"} => run[r].profile = None
           /\ \A r \in Runs : stage[r] \in LastStretch /\ run[r].profile # None
                                 => NewerThan(run[r].profile.at, profiles)
           /\ copying # None => NewerThan(copying.row.at, profiles)

\* A run that publishes stored the last score, and as long as that run has not failed, its
\* findings, once there is one, are the last.
LastCard ==
    /\ \A r \in Runs : stage[r] = "publishing" => scores # <<>> /\ scores[Len(scores)].run = r
    /\ scores # <<>> =>
          LET r == scores[Len(scores)].run
          IN stage[r] \in {"publishing", "done"} /\ (\E i \in DOMAIN findings : findings[i].run = r)
                => findings[Len(findings)].run = r

SoloInv == RecordInv /\ Alone /\ Stamped /\ LastCard
===============================================================================
