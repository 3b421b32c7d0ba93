# Verification of the OSINT vendor-risk module

TLA+ models of the backend in `src/backend/app`, checked with TLC and proved
about with TLAPS. The backend scores a vendor from public sources, keeps the
evidence and the scores in PostgreSQL, streams the progress of a run to the
browser, and re-scores the book on a schedule. This page says what the system's
parts are, which module models which part, what each run and theorem shows, and
what is left.

1. [The system](#the-system)
2. [The modules and the code](#the-modules-and-the-code)
3. [The runs](#the-runs)
4. [The proofs](#the-proofs)
5. [What the models found](#what-the-models-found)
6. [Not modelled, and the plan](#not-modelled-and-the-plan)

## The system

A scoring request (`POST /api/vendors/score`) starts a **job**: a task on the asyncio
event loop of the API process that runs the **pipeline**. The pipeline borrows a
connection, lets about 30 **collectors** ask public sources concurrently (each
under a deadline, behind a **rate limiter**), builds the vendor's **profile**,
loads the accepted **disputes**, calls the **scoring engine**, and writes score,
findings and profile to the **store**, one committed statement after the other.
Its progress goes through the **job manager** to any number of SSE streams. A
**monitor** process, started by a timer, does the same for the whole book
against the same tables, and keeps a ledger of its runs. Benchmarks compare a
vendor with its peers and store what they found; advice, stability and the
written analysis are computed from what is stored when they are asked for.

| Component | State | Operations | What makes it hard | What makes it right |
|---|---|---|---|---|
| Job manager (`jobs.py`) | per job: status, event log, subscriber queues | submit, run, publish, stream, (task) cancel | a stream may join, lag or leave between any two events; jobs vanish on restart | a stream sends the log, without gap or duplicate, and ends |
| Pipeline (`pipeline.py`) | locals of a run between awaits | collect, build profile, load refutes, score, store | several runs and another process; every statement can fail alone | what is stored belongs together; nothing declared or decided is forgotten |
| Store (`pg_store.py`) | append-only tables | put rows, pick the newest | "newest" is decided per table | the rows a reader joins are of one run |
| Disputes (`api.py`, `pg_store.py`) | event log of disputes | submit, adjudicate | several disputes on one target; the re-score fails after the decision | decided once, honoured by every later run |
| Declarations (`inherent_register.py`, `api.py`) | profile rows, cohort attributes | declare, set size, carry forward | read-copy-append without a transaction | a declaration survives re-scores |
| Monitor (`monitor.py`, `scheduler.py`, `assessment_depth.py`) | ledger of sweeps; who is due | sweep, re-score, health | overlapping processes, killed anywhere; one vendor's failure; a verdict from the newest rows only; two clocks | counts add up; a dead timer shows; who is overdue is looked at |
| Rate limiter (`ratelimit.py`) | a bucket per host and run | acquire | sleeps with the lock held; is cancelled | bounded burst and rate; nobody starves |
| Pool (`storage.py`) | idle connections, waiters | get_store, close | `getconn` blocks the event loop | no leak, stalls resolve |
| Scoring engine (`scoring/`, `scoring_config.py`) | none: a function of evidence, refutes, time | score | gates, decay, recurrence, waivers, ranking, divisor, two ceilings and refusal act on each other from one run to the next | a fix never hurts, silence never charges, a critical is never hidden |
| Confidence (`confidence_*.py`) | none | weigh found over expected signals | two processes pass different profiles | missing data limits the claim only |
| Collectors (`collectors/`) | none of their own, but one cache file | ask, retry, parse, report | half-answered runs, deadlines, a torn file, answers nobody foresaw | silence is never evidence; what is observed is weighed |
| Stability and continuity (`business_stability.py`, `continuity.py`, `age_risk_factors.py`) | none | read the findings, score, advise | gates, penalties and tables per age act on each other | distress blocks; an adverse fact never helps |
| Benchmarks (`benchmarking/`) | supplier attributes, snapshots, placements, disputes of them | resolve a cohort, freeze it, place, dispute | the book is re-scored between any two statements; thin cohorts, ties | a placement can be worked out again; its figures are earned and agree |
| Advice (`recommend.py`, `residual_risk.py`, `exit_readiness.py`, `contract_flowdowns.py`, `compliance_gap.py`, `assurity.py`) | none | map a score, findings and a declaration to advice | several inputs move each answer, and several answers stand side by side | worse facts never soften it |
| Written analysis (`gap_analysis.py`) | stored analyses | gate, ask a provider, filter, store | awaits while the book changes; the provider invents | what it cites was charged to this vendor |
| Reports that only read, frontend | none | render | none | outside the models |

The components interact in four ways. *Calls on one event loop*: a stretch of
code without a suspending `await` is atomic towards everything else on the
loop; that is why the last stretch of a run (from the last collector's answer to
the end, all of it synchronous psycopg calls) is never interleaved with another
API run. *Shared tables*: the monitor process interleaves with the API between
any two statements. *Queues*: one `asyncio.Queue` per SSE stream, one FIFO lock
per bucket, one FIFO line in the pool. *Cancellation*: a collector's deadline or
a shutdown interrupts a coroutine at its await.

`PROJECT.json` lists every component with its status, every hazard at its line
with the properties that cover it, and for every definition the lines it stands
for.

## The modules and the code

Conventions: a definition keeps the name of the code where it can. A
definition introduced with "Mutant of X" is X with a plausible bug, defined
before it; nothing uses it except the mutation of a run. Bounds are CONSTANTS
called `Max...`. A module `MC...` holds the instance of the run or configurations of
the same name. `Absent` declares `None`, for the modules that share it.

### `Jobs`, `ProgressFeed`: the job manager and its streams

`Jobs` models `jobs.py` and the two job endpoints. `status`, `events`,
`finished` are the fields of a `Job`; `phase`, `feed`, `replay`, `closing`,
`queue` are the locals and the position of one `stream()` generator;
`delivered` and `late` are history. `Submit`, `Start`, `Report`, `Done`,
`Finish`, `Fail` and `Cancel` are the stretches of `_run` between awaits. `Done` is
the pipeline's "done" event, which is published from inside its exit stack;
the stack then awaits the close of the HTTP client and gives the connection back,
and only `Finish` sets the status. `Cancel` and `Fail` can strike between the two.
`Publish` is `_publish`, which puts an event into the log and into every
registered queue without an await. `Open`, `ReplayOne`, `ReplayDone`, `TakeEvent`, `TakeEnd` are
the stretches of `stream()`, and `Disconnect` closes the generator at any yield.
`Restart` is the loss of the process.

`ProgressFeed` is what a stream promises: a log that only grows until it is
over, and readers that walk it entry by entry from the first. It knows neither
snapshots nor queues. `ImplementsFeed` states that `Jobs` implements it under
the refinement mapping `log <- events, over <- finished, seen <- delivered,
mode <- FeedMode(phase)`.

### `VendorRecord`: one vendor's rows and all their writers

One vendor, the tables `scores`, `findings`, `vendor_profiles`, `disputes` as
sequences of rows in the order they were stored, and the statements that append
to them. An API or sweep run goes through `Begin`, `Collect`, `BuildProfile`
(with the carry-forward and its swallowed exception), `LoadAccepted`, `Score`,
`PutScore`, `PutFinding` for each finding, `PutProfile`; `Abort` can strike
before any statement. `loop` names the API run that is in its unsuspended last
stretch. `SubmitDispute`, `Accept`, `Reject`, `Declare`, `SetSize` (two
statements, hence `StoreCopy`) are the handlers. `Accept` decides and then rebuilds
the vendor: that ends in a re-score, in a 409 if the evidence names no domain
(`NameOnly`), or in an exception. `Newest` and `CurrentFindings`
are the two queries a card is read with. `AcceptedTargets` is the fold of
`accepted_dispute_targets`. What the engine computes is reduced to what these
properties tell apart: per target absent, pass or fail, and a charge that is
none, reduced or full; the arithmetic is in `ScoringEngine`.

### `RateLimiter`: the token bucket

A bucket's `tokens` and `updated`, the FIFO `queue` of its lock, and `due`, the
end of the holder's sleep. Tokens and time are integers (`Cost` units make a
token, a tick brings `Gain` units), so rates such as 0.4 per second are exact;
the code's floats are not modelled. `Cancel` is `asyncio.wait_for` striking in
the lock queue or in the sleep. `Tick` may overshoot a sleep: wake-ups are late,
never early. Each scoring run has a bucket of its own, as in `pipeline.py:298`.

### `ConnectionPool`: who borrows a connection

`get_store`, its failure path, and `close`, against psycopg_pool's exchange
(external: a returned connection goes to the first waiter). A request borrows
in a worker thread, a run on the event loop (`loop`): while a run waits in
`getconn` nothing else runs there, also none of the closes that would free a
connection.

### `CollectorBase`, `RegisterSources`, `PerimeterSources`, `Collection`: the collectors

`CollectorBase` is what `collectors/base.py` and `maturity.py` share: a reply is
what a query came to after its retries, `ok` with a body or one of the failures,
and a run comes to a status and a set of findings `<<signal, band>>`.
`RegisterSources` (who the company is, and whether it is failing) and
`PerimeterSources` (its hosts, what others saw of it, what is published about
it) have one operator per collector, from the replies to the result. A query
that the code did not send is not in the domain of the replies, so the order of
queries and which answer makes the next one necessary are part of the operator.
Parsing is reduced to what a body says; names are compared by a grade of
likeness.

`Collection` is `Collector.collect`: `Begin`, `Ask` (one attempt of the query
the run is at, with the retries of `Attempts`), `Conclude`, `Deadline`. Sources
share nothing, so a behaviour picks one of them; the screening list is the
exception, for its cache file is shared by the API and the monitor process. A run
reads a fresh file (`ReadCache`) or finds it stale (`FindStale`), awaits the
download (`Download`, or a `Deadline`), empties the file (`Truncate`) and fills it
(`Written`, or `WriteFails`). Both processes can be anywhere on that way at once;
of two writes that crossed, the later one may leave the tail of the other list
behind its own. `Kill` leaves the file as it is, `Publish` is the publisher's,
`Tick` the file's age. A torn file is fresh for as long as a whole one: until it
ages, every screening is an error, never a clean one. Every result is also
read the way `/continuity` and `/stability` read the stored findings.

### `Continuity`, `AgeRisk`, `Stability`: will the company last

`Continuity` maps findings to flags and a standing (`continuity.py`), `AgeRisk`
the six sub-scores of `age_risk_factors.py` from tables of weights per age band
in hundredths, `Stability` the score of `business_stability.py` with its gate,
merged penalties, age factors and confidence, in tenths of a point, and the two
endpoints that choose between standing and score (`StabilityView`,
`ContinuityView`).

### `MonitorLedger`, with `ResidualRisk` and `AssessmentDepth`: the monitor

`AssessmentDepth` has the published plan of each inherent tier, the reach of a
depth and the two clocks of which the sooner decides when a vendor is due;
`ResidualRisk` the tier tables it starts from. `MonitorLedger` runs them: `Start`
appends `started` and lists the book, `Skip`, `Take`, `Rescore`, `VendorFails`
consider one vendor after the other. A run that raises (`VendorFails`) or is killed
may have committed its score row and some of its findings before (`LeftOf`): the
sweep then reports "error" for a vendor whose score it stored. `Finish` appends the counts, `Raise` is a
statement outside the vendor's `try`, `Kill` strikes at any point. Processes
overlap: one belongs to the timer, others are started by people, dry or live.
`ledger` is the table `monitor_runs` as far as `monitoring_health` fetches it,
`Healthy` and `IncompleteRuns` are its answers. `ApiScore`, `Declare`, `Change`
and `Tick` are the rest of the world. `died` and `success` are history.

### `PeerCohorts`, `Placing`, `Advice`, `Reports`: what is read from the book

`PeerCohorts` derives a supplier's size band and the ladder of ever wider
cohorts, and chooses the rung. `Placing` places a number among others (rank,
midrank, quartile, percentile, median, outlier fence, the expectation gap);
populations are functions, so nothing is sorted, and fractions are compared by
multiplying out. `Advice` holds the lookups that tell a buyer what to do:
recommendation, exit alert, flow-downs, compliance gaps, assurity, and the gate
of the written analysis.

`Reports` composes them over a book that is being re-scored. The monitor process
writes a vendor's score, findings and cohort attributes one after the other
(`SweepScore`, `SweepFindings`, `SweepPrior`, `SweepAttributes`) and may be
killed between them; a benchmark reads the row, the score, one rung after the
other, the population, and stores snapshot and placement (`BenchmarkRow` to
`BenchmarkPlacement`); clients correct attributes and move disputes; the written
analysis gathers its context, awaits a provider that may answer anything, and
stores what the filter leaves, which is everything where the citations are not a
list (`Kept`); `ApiDies` loses whatever was under way in the API
process.

### `Confidence`, `ScoringEngine`: what a posture is, and how it changes

`Confidence` has the table of the signals a company's age, size and jurisdiction
make one expect, and the share of their weight that was found. `VendorSubject`
and `ProfileSubject` say what its callers pass: a Vendor has years of operation
at most, a VendorProfile a sector, which is taken for the jurisdiction; neither
has a size, so what is expected from a certain size on is expected of nobody.

`ScoringEngine` is `score()` as a function of the evidence, the accepted refutes,
the age of the events and the vendor it is given; and a state machine that changes one of these at a
time and scores again, because the promises about the arithmetic relate one
assessment to the next. `Row` is the worst charge of a signal's group times its
recurrence; `Waived` the root-cause rules; `CategoryPenalty` the ladder of
diminishing returns; `RawPosture` the fixed divisor; `Score` puts the gates, the
critical ceiling, the confidence ceiling, rounding and refusal in the code's
order. `Collect` lets a collector come back with another answer or none,
`Refute` accepts a dispute on what the card charges, `Age` lets a half-life
pass, `Resolve` settles an ambiguous entity. `Rescore` is the other process on the
same answers: `VendorOf` is what each passes to the engine. An API run resolves
the entity and knows no age; a sweep is certain of the entity and takes the
years from the stored profile.

The scoring model is a set of CONSTANTS. `MCScoring` gives an excerpt of
`scoring.yaml` with one instance of every mechanism:
a signal that recurs across bands (breach), a precedence rule (KEV over NVD), a
`satisfied_by` rule (CSP over X-Frame-Options), a signal that arms the ceiling
and never decays (certificate), a finding gate (dissolved entity), a sanctions
screen, and weights that reach refusal and each of the caps (80, 90, 97, none).
Findings of a run are a set: the order of arrival only decides which of two
equal findings is shown as the representative, and both are allowed. Arithmetic
is in units of 1/80000 point, so no rounding occurs before `round()`; the code's
floats differ from it by less than a unit, which matters only on an exact half
point.

## The runs

| Run | Instance | What it shows |
|---|---|---|
| `jobs_stream` | 2 jobs, 2 streams, 1 progress event of 2 kinds per job; fairness | `NoGapNoDup`, `EndedIsComplete`, `OutcomeAgrees`: what a stream sends is the job's log, all of it, and agrees with the polled status: a failed job never reads as done nor a done one as failed. `FinishedIsFinal`: an ended job stays as it is. `StreamsEnd`: every stream ends, except one opened on a job whose task had been cancelled. `ImplementsFeed`: the refinement. |
| `record_sweep` | 2 API runs, 1 sweep, 1 target, 1 dispute | `FindingsBacked`: each findings row has its score row, across processes and failures. |
| `record_api` | 2 API runs, 1 target, 2 disputes on it, 1 declaration or override | `AcceptedHonoured`: a refute accepted before a run began is honoured by it. `AdjudicationFinal`: decided once. `CardIsOneRun`: newest score and current findings are of one run. `DeclarationDurable`: the newest profile states the declared criticality. |
| `limiter_bucket` | 1 run, 3 collectors, 2 requests each, rate 2/5, 6 ticks; fairness | `Throttled`: any stretch of time lets through at most its length times the rate plus one burst. `SleptEnough`: one sleep is enough. `Served`: everyone gets a turn. |
| `pool_exchange` | 3 runs, 2 requests, 2 connections; fairness | `NoLeak`: every connection is idle or with one borrower, also when set-up fails. `EveryoneEnds`: a stall of the event loop in `getconn` resolves. |
| `scoring_cards` | 8 signals of 7 collectors and 2 that nobody answers for, 3 ages, 1 refute, a company of 3 years, 2 processes | `FixIsRewarded`, `AgeingSoftens`, `CoverageOnlyLimits`, `KnockoutHolds`, below. |
| `collectors` | every registered source, its replies over small sets, deadlines, 1 kill, a cache that lasts 2 units; fairness | `SilenceIsNotEvidence`, `ReceiptIsAnswered`, `BandsAreMapped`, `SoundIsAttested`, `ScreenedAgainstTheList`, `DistressBlocks`, `AdverseNeverHelps`, `Collected`, below. |
| `monitor_ledger` | 2 vendors, a timer and one other process, window of 2 rows, 1 fault; fairness | `CountsAddUp`: a sweep's counts are the vendors it listed; it stored a score of each it reports as re-scored, and of no other but those it reports as failed. `HealthIsEarned`: the verdict is true exactly when a live sweep completed in time, none failed since, and the rows still show it. `OrphansExact`: incomplete runs are those that died or still run. `OverdueIsRescored`: whoever is overdue is looked at. |
| `book_reports` | 4 suppliers, 2 of them re-scored, 2 placements, 2 dispute events, 1 correction, 1 analysis | `Reproducible`, `QuartileIsEarned`, `StrongerRanksNoLower`, `HalvesAgree`, `OpenDisputeNoted`, `AnalysisCitesCharged`, `WorseNeverSofter`, below. |
| `refute_rescores`, `two_reads`, `profile_moves` | small | each violates one sentence of the repository: see [findings](#what-the-models-found). |

The four promises of the engine:

- `FixIsRewarded`: fixing a finding (the same signals come back, none more often,
  nothing worse or fresher, no refute lost with its band), an accepted refute or
  time never adds damage, although each re-ranks the other penalties to dearer
  rungs; the only exception is a step that lifts a root-cause waiver.
- `AgeingSoftens`: ageing never adds damage, takes no more than the decay
  table's steepest drop, and leaves what is undated or never decays untouched.
- `CoverageOnlyLimits`: whether a collector is silent or clean makes no
  difference to the damage, and to the posture only through the cap; nor does it
  matter otherwise which process asks, although the two expect different signals.
- `KnockoutHolds`: with a live critical that no refute nullified, nothing above
  49 is published, whatever its age, mitigation or the coverage.

The promises about collectors:

- `SilenceIsNotEvidence`: a run in which nothing was heard reports nothing
  (except DNS, whose code reads an unanswered record as an absent one).
- `ReceiptIsAnswered`: a clean receipt, which counts as evidence of absence in
  the confidence, comes only from a search that was answered, whatever attempts
  failed before; what "answered" means where the code asks less than every query
  is spelled out in `Searched`.
- `BandsAreMapped`: every band a collector can observe is one `scoring.yaml`
  weighs; `sec_going_concern` is excepted and listed below.
- `SoundIsAttested`: a company reads as sound only where a reply says so: the
  record that matches best is registered and active, a strong match is current, the
  entity is the vendor's and not dissolved, the domain is in order and not known to
  be young. A domain whose registry gives no dates passes, as in the code; what is
  published of it then is `EstablishedIsDated`, below.
- `DistressBlocks`: a company said to be gone never reads as one to sign with,
  whichever endpoint is asked. `AdverseNeverHelps`: one more adverse fact raises no
  stability score and lowers no age risk, at any age. The fact may be a past
  proceeding anywhere in the list, but for an old one before the recent one that is
  charged: the code charges the first and stops, so that one does raise the score
  (`RecentIsCharged`, below).
- `ScreenedAgainstTheList`: a screening result read a whole list younger than a
  day, whatever the other process was writing. `Collected`: every run ends by
  its own budget of attempts.

The promises about reports:

- `Reproducible`: a stored placement can be worked out again, figure by figure,
  from the one snapshot it names. `QuartileIsEarned`: what is published was
  earned by enough others, although the count that chose the rung was read
  before. `OpenDisputeNoted`: a placement says it is disputed exactly while it is.
- `StrongerRanksNoLower`: of two suppliers placed in one population the stronger has
  no lower quartile or percentile and no worse rank. The run has one subject and a
  ladder that stops at two peers, so it hardly reaches a percentile; the theorem
  covers it. `HalvesAgree`: on one card the quartile does not contradict the distance
  from the median, and a low outlier is below it. The run's three peers are too few
  for an outlier, which takes four: that part rests on the theorem. Neither compares
  the rounded percentile with the quartile, for the code does not keep them together.
- `AnalysisCitesCharged`: where the citations came as a list, whichever ids it named
  and whatever was re-scored while it was written, they are receipts of charged
  findings of one run of this vendor.
- `WorseNeverSofter`: when a vendor's next score and findings are no better in
  anything, no decision, re-check date, residual tier, exit alert, flow-down or
  gap becomes softer.

**Why the bounds are enough.** In `Jobs` a stream only interacts with the
others through the log, so two of them show every interference; with one
progress event the log has a first, a middle and a last position, which is all a
snapshot can be cut at, and the proofs cover the rest. In `VendorRecord` two API
runs and a sweep give every overtaking of two writers in one process and of one
in another; two disputes on one target are the smallest case in which the fold
matters. With one target a run has one finding to store, so a failure between
the score and its findings is there, one between two findings only in the proof.
In the limiter 2/5 tokens per tick never divides evenly, so every rounding of
the sleep occurs, and six ticks outlast the burst of one token. Two connections
under five borrowers is the smallest pool in which a hand-over, a time-out and a
blocked loop can meet. In the engine, three signals in one category reach all
rungs of the ladder; three ages are fresh, halved and at the floor; one refute
of each kind meets every evidence, and a refute that interferes with a second
one (two waivers in a row) is not covered. Three years of age make expected what
the excerpt has from the first and the second year on; the registry and the
sanctions screen share a collector, as each blocks whatever the other says.

A collector sees its own replies only, so one source at a time is no
restriction; each reply ranges over one body per case its parser tells apart,
and over every failure. The cache needs two processes and one kill. In the
ledger a window of two rows already loses rows under an open run; all intervals
last one unit, so the two clocks differ in whether they exist and not in
length, and a sweep takes less than a unit: the proofs have neither limit. In
the book, `acme` is placed against peers that leave its cohort when they are
blocked or corrected; the thresholds are scaled (2 others for a quartile, 3 for
a percentile) so that a cohort is just large enough, just too small, or tied;
`MCBookClaims.cfg` uses the real ones (8, 30, 8, 8) with twenty suppliers. The
thresholds are parameters of the proofs.
What a model cites is a parameter too (`Cites`): in the runs a list names every id
there is, of which any other list names a part, and a citation that is no list is one
id that never was.

**Deadlock** is checked in `collectors` only. In the others a system in which
all jobs have ended, all rows the bounds allow are written, or all evidence is as
old as it gets really stops; the stalls that matter are the liveness properties.

**Fairness.** `Jobs`: the event loop runs each ready task, each collector has a
deadline, a connected client reads. Nothing is assumed of submitting, joining,
leaving, cancelling or restarting. `RateLimiter`: the clock moves and a ready
holder runs. `ConnectionPool`: a thread in set-up and a run or handler that
holds a connection goes on (collectors have deadlines), and `getconn` times out.
`Collection`: the event loop runs a collector's next step, and the clock moves;
neither a deadline nor a kill is assumed. `MonitorLedger`: the timer starts a
sweep whenever its last one is gone (`ops/schedule/crontab`), and that sweep goes
on; nothing is assumed of the runs people start, and time need not pass. All
weak. The other runs check safety only.

## The proofs

For every value of the constants that satisfies the modules' named assumptions
(`JobsAssumption`, `RecordAssumption`, `RateAssumption`, `PoolAssumption`,
`LedgerAssumption` with `NoneAssumption` and `ClocksAssumption`,
`ThresholdAssumption`, `ConfigAssumption`, `BookAssumption`,
`CollectionAssumption`, `ModelAssumption`, `PassingAssumption`), which TLC
evaluates. They say what kind of value a constant is, and that finite is what is
counted or summed over (borrowers, vendors, processes, scored signals). Three say
more, and hold of the code. `ModelAssumption`: each severity of the scoring model
has points, and a category has at most as many signals as the ladder of
diminishing returns has rungs. The ladder is a constant of any length: the code's
`lambda^(rank - 1)` with lambda 7/10 has a rung for each of the twelve signals of the
largest category, as `7^(k-1) * 10^(12-k)`; the run's excerpt needs three.
`CollectionAssumption`: the parsers hand over a domain's dates as numbers or
nothing, and a company search as a list with a grade of likeness each.
`PassingAssumption`: a rule `satisfied_by` names
bands that do not charge, as the comment at `scoring_config.py:478` has it.

- **`JobsProofs`**. `FanOutInv` is inductive. `NoGapNoDup` by itself is not: to
  know that a stream leaves by itself only when it has sent everything, one needs
  that a stream that joined late has nothing queued and never will
  (`StreamOrder`), and that a job with an outcome has ended (`TaskOrder`). From it:
  `NoGapNoDup`, `EndedIsComplete`, `FinishedIsFinal`,
  and the refinement `ImplementsFeed` (a step of `Jobs` is a step of the feed or
  a stutter). `OutcomeAgrees` adds the task's outcome to the log: what a stream
  is told last agrees with the polled status, also when the exit stack raised or was
  cancelled after "done".
- **`RecordProofs`**. `RecordInv` strengthens `FindingsBacked` with what a run
  still has to store (`RunRows`); `HonourInv` carries a refute from the log to
  the locals a run read it into and from there to its score row. These hold for
  any number of API runs and sweeps, with any failures.
  `CardIsOneRun` is proved under `SweepRuns = {}`. `SoloInv`
  says why: a run in its last stretch, or a handler between read and write, has
  the loop to itself (`Alone`), so rows are stored in the order of their stamps
  (`Stamped`). The assumption cannot be dropped: with a sweep, TLC finds the
  card of one run with the findings of another. `DeclarationDurable` is checked by
  TLC for the API process without failing reads, and not proved: with a sweep the
  sweep's copy can overwrite a declaration, and a failing read loses it
  (`MCRecordLost.cfg`), so what is left is the loop's order.
- **`RateLimiterProofs`**. `LimiterInv`: `Budget`, what was let through since
  any request plus what is left is at most what the bucket held and gained;
  `Paid`, a sleeper's token will be there when its sleep ends. It implies
  `Throttled` and `SleptEnough` for every rate and burst.
- **`PoolProofs`**. `PoolInv` for any number of connections and borrowers.
- **`MonitorProofs`**. `MInv` for any book, any processes, any window and
  tolerance. `SweepOK`: a sweep has stored a score of each vendor it says it re-scored,
  and of others only where it says "error", so its counts add up (`CountsAddUp`). `RowsOK`: whose each row is; a run that goes
  on has only opened, one that died has not closed, any other live one has closed
  *after* it opened. The order is what survives the window, which drops the
  oldest row first: an opening that is still fetched has its closing behind it,
  so `OrphansExact` holds although rows are lost. `HealthOK`: the newest finished
  row that is left is the last success, and gives `HealthIsEarned`. A fresh run
  id exists by counting (`FreshRun`).
- **`ReportsProofs`**. Lemmas on one number among others come first, for any
  population and thresholds: more below a higher number, quartiles and rounded
  percentiles in the same order, nothing published under the floor. `IInv`: the
  book is well formed (`BookOK`), each snapshot
  is of others with a posture (`SnapshotsOK`), each placement and the one a
  handler is about to store are worked out from a snapshot with its own id
  (`PlacementsOK`, `CallOK`). It gives `Reproducible`, `QuartileIsEarned` and
  `StrongerRanksNoLower`, whatever falls between the
  statements. `AnalysisInv` carries the ids a context was built from through the
  provider's wait to the stored analysis (`AnalysisCitesCharged`, of citations that
  came as a list): it needs that runs are only appended. `NoteInv` does the same for `OpenDisputeNoted`, which
  holds because handlers of the API do not interleave.
  `HalvesAgree` needs order statistics without a sort: every rank is somebody's
  (`OrderStatistic`), and the median's rank is the middle one
  (`MiddlePosition`), so the sign of the delta and the half of the quartile are
  read off the same counts. `WorseNeverSofter` needs `BookOK` alone. Each table
  is a ladder of ranks that a score no better does not climb down (`GradeFalls`,
  `RecommendHardens`, `ResidualRises`, `AlertRises`); a gap needs besides that the
  expectation it is measured against is a number or absent, which holds since the
  walk down the cohort ladder ends on a rung that was counted
  (`AssignedIsCounted`).
- **`CollectionProofs`**. `CollectInv`, for any replies:
  a run has asked exactly the queries that come before the one it is at
  (`AskedOK`), its result is the operator applied to these answers, or a timeout
  (`ResultOK`), and a screening result was read from a whole and young list,
  although the other process writes the file at the same time (`ScreenOK`, `CacheOK`). From it
  follow, collector by collector, `SilenceIsNotEvidence`, `ReceiptIsAnswered`,
  `BandsAreMapped`, `SoundIsAttested` and `ScreenedAgainstTheList`, and, from the
  order of the standings, `DistressBlocks`. `AdverseNeverHelps` is proved beyond
  what TLC enumerates: for any profile, with any series of metrics and of
  insolvency records, that is no better than another (`NoBetterProfile`; of a proceeding
  inserted into a list, `Inserted` says what the first charged one becomes), and any
  facts (`NoBetterFacts`), at any age; `RepliedInv` says that the age is a
  number or absent in every run.
- **`ScoringProofs`**. `ScoringInv`: the card is the score of what is on record.
  The work is below it. What a sum of penalties is cannot be had by induction
  over its terms, but it can from a least counterexample: the recursive function
  inside the fold exists (`PartialSums`), and of the sets on which two sums
  compare wrongly there is a smallest (`SmallestSubset`). `SumsScale` and
  `LaddersScale` follow: if each penalty stays within a ratio of what it was, so
  does what the ladder makes of them, although signals trade places
  (`RanksScale`: the n-th worst stays within the ratio). `DamageScales` carries
  this to the damage. With ratio 1 it gives `FixIsRewarded`, with the steepest
  drop of the decay table `AgeingSoftens`; `KnockoutHolds` goes through the order
  in which `Score` applies gates and ceilings. `FixIsRewarded` showed what a fix
  has to be: no signal is answered more often, for recurrence multiplies, and no
  refute is lost by moving to a band it was not accepted for. A step
  that lifts a root-cause waiver is excepted there; ageing never is one, for a
  band that satisfies a rule does not charge at any age (`PassingAssumption`).

Only model-checked:

- the liveness properties (`StreamsEnd`, `Served`, `EveryoneEnds`, `Collected`,
  `OverdueIsRescored`): fairness and ENABLED are beyond the prover;
- `CoverageOnlyLimits`: it is about the excerpt and would be false of some models
  that `ModelAssumption` admits. A clean answer is counted in the recurrence of
  its signal, and it can satisfy a `satisfied_by` rule; so a second collector that
  comes back clean on a signal the first one charges moves the damage. In the
  excerpt no two collectors share a signal and no `satisfied_by` rule crosses
  collectors.

The proofs found one kind of fault in the models: arms of a CASE that overlap. TLC
takes the first arm that is true; TLA+ says only that one of them is taken, so
nothing could be proved of a value two arms answer for. The tables of the size
bands, the tiers, the grades, the ages and the ladder walk now have disjoint arms
or nested conditions, in the order of the code's `if` and `elif`.

## What the models found

Three sentences of the repository's comments that the code does not keep, each
with a run; `PROJECT.json` has the quotes.

1. **An accepted refute does not re-score** (`refute_rescores`, `RefuteRescores`,
   `api.py:2547`): `_vendor_from_store` reads an attribute the profile does not
   have and raises after the decision was stored. The re-score endpoint is no way
   around it: it looks for a domain where none is kept and answers 400
   (`api.py:350`).
2. **A placement publishes an `n` its cohort was not chosen by** (`two_reads`, `OneN`,
   `benchmarking/service.py:149`): the peers are read again after the rung was
   chosen by their count, which the comment there says must not happen.
3. **What a profile knows moves a posture** (`profile_moves`,
`ProfileNeverMovesPosture`, `monitor.py:103`): a sweep passes the years of operation
from the stored profile, an API run passes none. With the years more signals are
expected, so the same answers have another confidence, and with it another cap
or a refusal; in the excerpt a card published at 90 by the API is refused by the
next sweep. The test that forbids it appends a profile's result and never passes
the years.

More configurations show a sentence violated and are kept beside the modules
(those with several properties are run with `tlc -continue`, which reports each):

| Configuration | Violates | What happens |
|---|---|---|
| `MCJobsTerminal.cfg` | `TerminalIsLast` | "done" is published inside the exit stack: if closing the client or the store raises, "error" follows it and polling answers "error", while the browser has resolved on "done" (`pipeline.py:478`, `frontend/src/api.js:54`) |
| `MCRecordStale.cfg` | `DisputableIsOnCard` | a blocked run stores a score and no findings, so what can be disputed is of an older run |
| `MCRecordLost.cfg` | `DeclarationDurable` | a failing read is swallowed after the blank profile was made (`pipeline.py:409`) |
| `MCLimiterCeiling.cfg` | `UnderCeiling` | one bucket per run rather than per process: two runs exceed a host's ceiling |
| `MCScoringClaims.cfg` | `RemediationNeverCosts` | a decayed KEV listing waives a fresh NVD critical; fixing it brings the penalty back |
| `MCScoringClaims.cfg` | `CertainCriticalPublished` | the bypass asks whether the ceiling lowered the posture, not whether a critical was seen (`engine.py:389`) |
| `MCScoringClaims.cfg` | `AmbiguousBlocks` | a sweep passes `resolution_confidence` 1.0, so a vendor the API blocks as ambiguous is published (`monitor.py:102`) |
| `MCScoringClaims.cfg` | `ItemisedIsCharged` | after a sweep the read endpoints itemise a confidence without the years: what the card was marked down for from the first year on is missing (`api.py:1473`) |
| `MCBookClaims.cfg` | `LoneFailureIsDriver` | in a cohort of nineteen that agree the modal share is 19/20 with the subject added, so the lone failure is called flat (`expectation_gap.py:192`); the test stops at fourteen |
| `MCBookClaims.cfg` | `InventedIsDropped` | citations that do not come as a list pass the filter and are stored as written (`gap_analysis.py:402`), which the docstring there rules out |
| `MCMonitorParked.cfg` | `ChargedUntilFixed` | a sweep at a shallow depth stores a run without the findings whose collector it did not ask, and parks them |
| `MCCollectionClaims.cfg` | `StabilityAnswers` | `InsolvencyStatus` is a Literal: a ceased or impaired flag makes the stability endpoints answer 500 (`api.py:1226`) |
| `MCCollectionClaims.cfg` | `EstablishedIsDated` | a domain whose registry gives no dates is published as long-established (`rdap_collector.py:182`), although every entry is said to be a fact a registry published (`continuity.py:103`) |
| `MCCollectionClaims.cfg` | `RecentIsCharged` | only the first past proceeding is charged: an old one listed before a recent one lowers the charge from 20 to 5 and raises the score (`business_stability.py:236`) |
| `MCCollectionClaims.cfg` | `DoubtIsHeard` | the auditor's doubt that EDGAR found is in no scored category and reaches no flag |
| `MCCollectionClaims.cfg` | `ExpiredIsSeen` | an expired certificate fails the verified handshake, so the severest band is never observed (`tls_collector.py:104`) |

Seen while translating, modelled as the code has it, and worth a maintainer's
look. *Collectors*: `sec_xbrl` and the estate collector always end in `error`
(`estate_collector.py:90`); EDGAR's receipt is clean when its first query alone was
answered; the regulators' receipt is clean with one of ten feeds; headers of an
error page count as the vendor's; a rate-limited source can read as `empty`; the
signals of the EU, German, Australian and Canadian insolvency registers are in no
category of `scoring.yaml`. *Stability*: an unknown
age scores higher (60) than a start-up (40), because the charge for an unknown age
is behind an early return (`business_stability.py:302`); an old company with an auditor's doubt keeps 95;
`contingency_plan_required` is never true; the age-differentiated view rates
veterans riskier; the stability score replaces the registry's standing in the
continuity answer. *Advice*: a thin A or B with a re-check in seven days stays
`assess`, for only `routine` is upgraded; the recommended re-check is not the
date the monitor acts on; the last applicable band wins in
`compliance_gap.py:154`; an exit alert vanishes when the next run is blocked.
*Benchmarks*: attributes derived by a run overwrite a client's correction
(`pipeline.py:205`), and a partial correction blanks what it does not name; the
discrimination endpoint passes unresolved groups; the written change says that
the peer group improved faster also when the median did not move; a card can be
above the median and in the lower-middle quarter; the rounded percentile can leave
the quarter of its quartile (31 peers, 8 below: percentile 24, quartile 2). *Analysis*: the adjudication
endpoint of cohort disputes answers `recorded: true` and records nothing;
an
evidence id is a collector's receipt, shared by charged and other findings; an
analysis is stored also when the vendor was blocked meanwhile. *Confidence*: a planned signal
whose collector failed counts as one the vendor lacks; `insolvency_notice` and
`bankruptcy_petition`, excluded from the planned count (`scoring_config.py:167`), are
expected from the first year on; estate signals are expected of nobody, since no caller has a size.
*Monitor*: the age adjustment of the
plan is never used, since a profile has no `operating_years`; reads of the store
outside the vendor's `try` end the whole sweep.

## Not modelled, and the plan

Not modelled at all: the logarithmic exposure rates and the log-odds preview
(real-valued, and no state depends on them), the first benchmark ladder
(superseded by `benchmarking/`, whose ladder is modelled), benchmark text and
seeding, the lifecycle view, the ordering of the adjudication queue, entity
resolution and sector tables (string matching; their outcome is an input), the
summariser and harnesses, the frontend, rendering and logging. The programme
reports are read-only views computed on request; of them only the procurement
advice per standing is there.

Not modelled within modelled parts: evidence rows, brand impact and narrative
fields of a run, the merge of firmographic answers, the bulk file of the exposure register and the cohort row of a
declaration, OpenCorporates and RegistryLookup (their registration is commented
out), the per-host probes of the estate, the per-signal tables of a snapshot,
prompts. In `Reports` a vendor has one cohort dispute at a time, and the two
conflict answers of that endpoint are not reached; a filtered citation stands
for any number. Timestamps order rows and have no other effect.

Left in the plan:

1. `Declarations`: the inherent register with the cohort-attribute row and
   partial entries, composed with `VendorRecord` and `Reports`.
2. `ScoringRun`: a run's collectors in waves, refined by the `Collect` step of
   `VendorRecord`.
3. The entity resolution's evidence in the state, for what moves its confidence
   from one run to the next.
4. `CoverageOnlyLimits` as a theorem, under the condition on the scoring model that
   a signal is observed by one collector and a `satisfied_by` rule does not cross two;
   and for the signals of `scoring.yaml` that several registers share, what silence
   costs in their recurrence.
