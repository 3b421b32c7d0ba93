--------------------------------- MODULE Jobs ---------------------------------
(***************************************************************************)
(* The in-memory job manager and its SSE progress fan-out                  *)
(* (backend/app/jobs.py, with the job endpoints of backend/app/api.py).    *)
(*                                                                         *)
(* Everything here runs on one asyncio event loop, so a stretch of code    *)
(* with no suspending await in it is one action.  A job's task publishes   *)
(* events; a subscriber is one SSE response, an async generator that is    *)
(* suspended at each `yield` and at `q.get()` and may be closed by its     *)
(* client at either.                                                       *)
(***************************************************************************)
EXTENDS Naturals, Sequences

CONSTANTS JobIds,       \* the uuid4 job ids that submit() may draw
          Subscribers,  \* SSE responses, each used for one GET .../stream
          Progress,     \* contents of the events run_pipeline emits before its last
          END,          \* the _END sentinel item
          MaxProgress   \* bound: progress events per job

ASSUME JobsAssumption == /\ MaxProgress \in Nat
                         /\ END \notin Progress \cup {"done", "error"}
                         /\ Progress \cap {"done", "error"} = {}

VARIABLES status,     \* Job.status; "absent" before submit, "lost" after a restart
          events,     \* Job.events
          finished,   \* Job.finished_at is set
          phase,      \* where each subscriber's generator is suspended
          feed,       \* the job the subscriber streams
          replay,     \* rest of the subscriber's snapshot of past events
          closing,    \* the subscriber's local `already_finished`
          queue,      \* the subscriber's asyncio.Queue
          delivered,  \* history: the items the client has received
          late        \* history: the subscriber joined after the job's task ended

vars == <<status, events, finished, phase, feed, replay, closing, queue, delivered, late>>

Event == Progress \cup {"done", "error"}
Statuses == {"absent", "pending", "running", "done", "error", "lost"}
Phases == {"idle", "replay", "live", "ended", "gone"}

\* Mutant of Registered: the queue is subscribed only once the snapshot has been replayed.
RegisteredLate(s, j) == phase[s] = "live" /\ feed[s] = j

\* The subscribers registered in Job.subscribers: between add and the finally's discard.
Registered(s, j) == phase[s] \in {"replay", "live"} /\ feed[s] = j

TypeOK == /\ status \in [JobIds -> Statuses]
          /\ events \in [JobIds -> Seq(Event)]
          /\ finished \in [JobIds -> BOOLEAN]
          /\ phase \in [Subscribers -> Phases]
          /\ feed \in [Subscribers -> JobIds \cup {"none"}]
          /\ \A s \in Subscribers : phase[s] # "idle" => feed[s] \in JobIds
          /\ replay \in [Subscribers -> Seq(Event)]
          /\ closing \in [Subscribers -> BOOLEAN]
          /\ queue \in [Subscribers -> Seq(Event \cup {END})]
          /\ delivered \in [Subscribers -> Seq(Event)]
          /\ late \in [Subscribers -> BOOLEAN]

Init == /\ status = [j \in JobIds |-> "absent"]
        /\ events = [j \in JobIds |-> <<>>]
        /\ finished = [j \in JobIds |-> FALSE]
        /\ phase = [s \in Subscribers |-> "idle"]
        /\ feed = [s \in Subscribers |-> "none"]
        /\ replay = [s \in Subscribers |-> <<>>]
        /\ closing = [s \in Subscribers |-> FALSE]
        /\ queue = [s \in Subscribers |-> <<>>]
        /\ delivered = [s \in Subscribers |-> <<>>]
        /\ late = [s \in Subscribers |-> FALSE]

-------------------------------------------------------------------------------
(* The job's task *)

\* Mutant of Publish: _END enters Job.events like any other item.
PublishLogged(j, logged, over) ==
    /\ events' = [events EXCEPT ![j] = @ \o logged \o (IF over THEN <<END>> ELSE <<>>)]
    /\ queue' = [s \in Subscribers |->
                    LET q == queue[s] \o logged
                    IN IF ~Registered(s, j) THEN queue[s]
                       ELSE IF over THEN Append(q, END) ELSE q]
    /\ UNCHANGED <<phase, feed, replay, closing, delivered, late>>

\* _publish, for the events `logged` and then, if the task is over, _END: with no await in
\* between, every registered queue gets them; _END never enters Job.events.
Publish(j, logged, over) ==
    /\ events' = [events EXCEPT ![j] = @ \o logged]
    /\ queue' = [s \in Subscribers |->
                    LET q == queue[s] \o logged
                    IN IF ~Registered(s, j) THEN queue[s]
                       ELSE IF over THEN Append(q, END) ELSE q]
    /\ UNCHANGED <<phase, feed, replay, closing, delivered, late>>

\* submit(): register the job, schedule its task, answer 202.
Submit(j) ==
    /\ status[j] = "absent"
    /\ status' = [status EXCEPT ![j] = "pending"]
    /\ UNCHANGED <<events, finished, phase, feed, replay, closing, queue, delivered, late>>

\* The task's first step: _run marks the job running and enters run_pipeline.
Start(j) ==
    /\ status[j] = "pending"
    /\ status' = [status EXCEPT ![j] = "running"]
    /\ UNCHANGED <<events, finished, phase, feed, replay, closing, queue, delivered, late>>

\* run_pipeline has emitted its "done" event.
DoneShown(j) == \E i \in DOMAIN events[j] : events[j][i] = "done"

\* Mutant of Report: somebody holds the callback when the task has ended.
ReportOrphan(j, e) ==
    /\ status[j] \in {"running", "error"} /\ ~DoneShown(j)
    /\ Len(events[j]) < MaxProgress
    /\ Publish(j, <<e>>, FALSE)
    /\ UNCHANGED <<status, finished>>

\* run_pipeline reports progress through the callback and goes on.
Report(j, e) ==
    /\ status[j] = "running" /\ ~finished[j] /\ ~DoneShown(j)
    /\ Len(events[j]) < MaxProgress
    /\ Publish(j, <<e>>, FALSE)
    /\ UNCHANGED <<status, finished>>

\* run_pipeline emits its "done" event.  What is left of it is the exit stack, which awaits
\* the close of the HTTP client and gives the connection back: the job is not done yet.
Done(j) ==
    /\ status[j] = "running" /\ ~finished[j] /\ ~DoneShown(j)
    /\ Publish(j, <<"done">>, FALSE)
    /\ UNCHANGED <<status, finished>>

\* Mutant of Finish: _END is published only by the exception handler.
FinishSilently(j) ==
    /\ status[j] = "running" /\ ~finished[j] /\ DoneShown(j)
    /\ status' = [status EXCEPT ![j] = "done"]
    /\ finished' = [finished EXCEPT ![j] = TRUE]
    /\ Publish(j, <<>>, FALSE)

\* The exit stack is through and run_pipeline returns; _run sets the status and, in the
\* finally, finished_at and _END.  Nothing suspends in between.
Finish(j) ==
    /\ status[j] = "running" /\ ~finished[j] /\ DoneShown(j)
    /\ status' = [status EXCEPT ![j] = "done"]
    /\ finished' = [finished EXCEPT ![j] = TRUE]
    /\ Publish(j, <<>>, TRUE)

\* Mutant of Fail: the handler publishes "error" and leaves the status alone.
FailUnmarked(j) ==
    /\ status[j] = "running" /\ ~finished[j]
    /\ finished' = [finished EXCEPT ![j] = TRUE]
    /\ Publish(j, <<"error">>, TRUE)
    /\ UNCHANGED status

\* run_pipeline raises an Exception, before its "done" event or in the exit stack after it:
\* the handler publishes "error", then the finally.
Fail(j) ==
    /\ status[j] = "running" /\ ~finished[j]
    /\ status' = [status EXCEPT ![j] = "error"]
    /\ finished' = [finished EXCEPT ![j] = TRUE]
    /\ Publish(j, <<"error">>, TRUE)

\* The task is cancelled at an await of run_pipeline, those of the exit stack included.
\* CancelledError is no Exception, so only the finally runs: _END goes out and the status
\* stays "running".
Cancel(j) ==
    /\ status[j] = "running" /\ ~finished[j]
    /\ finished' = [finished EXCEPT ![j] = TRUE]
    /\ Publish(j, <<>>, TRUE)
    /\ UNCHANGED status

-------------------------------------------------------------------------------
(* A subscriber's generator *)

\* Mutant of Open: a subscriber that joins late sees live events only.
OpenLive(s, j) ==
    /\ phase[s] = "idle"
    /\ status[j] \in {"pending", "running", "done", "error"}
    /\ phase' = [phase EXCEPT ![s] = "replay"]
    /\ feed' = [feed EXCEPT ![s] = j]
    /\ closing' = [closing EXCEPT ![s] = status[j] \in {"done", "error"}]
    /\ late' = [late EXCEPT ![s] = finished[j]]
    /\ UNCHANGED <<status, events, finished, replay, queue, delivered>>

\* stream(), up to its first yield: _require_job has found the job; the snapshot, the
\* already_finished test and the registration happen in one synchronous step.
Open(s, j) ==
    /\ phase[s] = "idle"
    /\ status[j] \in {"pending", "running", "done", "error"}
    /\ phase' = [phase EXCEPT ![s] = "replay"]
    /\ feed' = [feed EXCEPT ![s] = j]
    /\ replay' = [replay EXCEPT ![s] = events[j]]
    /\ closing' = [closing EXCEPT ![s] = status[j] \in {"done", "error"}]
    /\ late' = [late EXCEPT ![s] = finished[j]]
    /\ UNCHANGED <<status, events, finished, queue, delivered>>

\* `for item in replay: yield item`
ReplayOne(s) ==
    /\ phase[s] = "replay" /\ replay[s] # <<>>
    /\ delivered' = [delivered EXCEPT ![s] = Append(@, Head(replay[s]))]
    /\ replay' = [replay EXCEPT ![s] = Tail(@)]
    /\ UNCHANGED <<status, events, finished, phase, feed, closing, queue, late>>

\* Mutant of ReplayDone: whether the job is over is asked after the replay, not with the snapshot.
ReplayDoneAsksNow(s) ==
    /\ phase[s] = "replay" /\ replay[s] = <<>>
    /\ phase' = [phase EXCEPT ![s] = IF status[feed[s]] \in {"done", "error"} THEN "ended" ELSE "live"]
    /\ UNCHANGED <<status, events, finished, feed, replay, closing, queue, delivered, late>>

\* The snapshot is used up: return if the job was already over, else wait on the queue.
ReplayDone(s) ==
    /\ phase[s] = "replay" /\ replay[s] = <<>>
    /\ phase' = [phase EXCEPT ![s] = IF closing[s] THEN "ended" ELSE "live"]
    /\ UNCHANGED <<status, events, finished, feed, replay, closing, queue, delivered, late>>

\* q.get() returns an event, which is yielded to the client.
TakeEvent(s) ==
    /\ phase[s] = "live" /\ queue[s] # <<>> /\ Head(queue[s]) # END
    /\ delivered' = [delivered EXCEPT ![s] = Append(@, Head(queue[s]))]
    /\ queue' = [queue EXCEPT ![s] = Tail(@)]
    /\ UNCHANGED <<status, events, finished, phase, feed, replay, closing, late>>

\* q.get() returns _END: the generator returns and its finally unregisters the queue.
TakeEnd(s) ==
    /\ phase[s] = "live" /\ queue[s] # <<>> /\ Head(queue[s]) = END
    /\ phase' = [phase EXCEPT ![s] = "ended"]
    /\ queue' = [queue EXCEPT ![s] = Tail(@)]
    /\ UNCHANGED <<status, events, finished, feed, replay, closing, delivered, late>>

\* The client goes away: the generator is closed where it is suspended, its finally runs.
Disconnect(s) ==
    /\ phase[s] \in {"replay", "live"}
    /\ phase' = [phase EXCEPT ![s] = "gone"]
    /\ UNCHANGED <<status, events, finished, feed, replay, closing, queue, delivered, late>>

\* The process dies or is redeployed: JobManager._jobs and every open response with it.
Restart ==
    /\ \E j \in JobIds : status[j] \in {"pending", "running", "done", "error"}
    /\ status' = [j \in JobIds |-> IF status[j] = "absent" THEN "absent" ELSE "lost"]
    /\ phase' = [s \in Subscribers |-> IF phase[s] \in {"replay", "live"} THEN "gone" ELSE phase[s]]
    /\ UNCHANGED <<events, finished, feed, replay, closing, queue, delivered, late>>

-------------------------------------------------------------------------------
TaskStep(j) == \/ Start(j)
               \/ \E e \in Progress : Report(j, e)
               \/ Done(j)
               \/ Finish(j)
               \/ Fail(j)

StreamStep(s) == ReplayOne(s) \/ ReplayDone(s) \/ TakeEvent(s) \/ TakeEnd(s)

Next == \/ \E j \in JobIds : Submit(j) \/ TaskStep(j) \/ Cancel(j)
        \/ \E s \in Subscribers :
              \/ \E j \in JobIds : Open(s, j)
              \/ StreamStep(s)
              \/ Disconnect(s)
        \/ Restart

\* The event loop runs every ready callback (FIFO), every collector await has a timeout,
\* and a connected client reads: the tasks and the generators keep stepping.
Fairness == /\ \A j \in JobIds : WF_vars(TaskStep(j))
            /\ \A s \in Subscribers : WF_vars(StreamStep(s))

Spec == Init /\ [][Next]_vars
FairSpec == Spec /\ Fairness

-------------------------------------------------------------------------------
(* Properties *)

\* Everything the subscriber has received, or will: in the order it comes.
Line(s) == delivered[s] \o replay[s] \o queue[s]

\* jobs.py claims "no gaps, no dups": for every registered subscriber the delivered items,
\* the rest of the snapshot and the queue together are exactly the job's events, in order,
\* with one _END behind them iff the task ended while the subscriber was registered.
NoGapNoDup ==
    \A s \in Subscribers : phase[s] \in {"replay", "live"} =>
        Line(s) = IF finished[feed[s]] /\ ~late[s]
                    THEN Append(events[feed[s]], END)
                    ELSE events[feed[s]]

\* A stream that ended by itself (rather than by its client leaving) has delivered every
\* event the job will ever have, whatever order joining, publishing and finishing came in.
EndedIsComplete ==
    \A s \in Subscribers : phase[s] = "ended" =>
        finished[feed[s]] /\ delivered[s] = events[feed[s]]

\* What a client saw as the last event agrees with what polling the job answers, once its
\* stream has ended: "error" was last exactly if the job has failed, and a job that is done
\* showed "done" last.  A task that is cancelled in its exit stack has shown "done" and stays
\* "running"; but what failed never reads as done, in either direction.
OutcomeAgrees ==
    \A s \in Subscribers : phase[s] = "ended" /\ status[feed[s]] # "lost" =>
        LET d == delivered[s]
            last == IF d = <<>> THEN END ELSE d[Len(d)]
        IN /\ status[feed[s]] = "error" <=> last = "error"
           /\ status[feed[s]] = "done" => last = "done"

\* frontend/src/api.js: "Consume the SSE stream to completion.  Resolves on the terminal
\* `done`/`error` event."  Nothing follows a terminal event in a job's log.  The code breaks
\* it: what raises in the exit stack, after "done", is published as "error".
TerminalIsLast ==
    \A j \in JobIds : \A i \in DOMAIN events[j] :
        events[j][i] \in {"done", "error"} => i = Len(events[j])

\* A finished job is final: once finished_at is set neither its events nor what it was
\* answered as changes again, except that a restart forgets it.
FinishedIsFinal ==
    [][\A j \in JobIds : finished[j] =>
          /\ finished'[j]
          /\ events'[j] = events[j]
          /\ status'[j] \in {status[j], "lost"}]_vars

\* stream(): "Yield past events (replay) then live events until the job ends."  Every open
\* stream ends or is closed by its client; the one exception is a stream opened on a job
\* whose task had already been cancelled, whose _END was published before it joined.
StreamsEnd ==
    \A s \in Subscribers :
        phase[s] \in {"replay", "live"}
            ~> \/ phase[s] \in {"ended", "gone"}
               \/ late[s] /\ status[feed[s]] = "running"

\* Why the fan-out is right: a subscriber that joined after the task ended has nothing
\* queued and never will; one that is closing joined late; the snapshot is used up before
\* the queue is read.
TaskOrder ==
    \A j \in JobIds : /\ status[j] \in {"done", "error"} => finished[j]
                      /\ status[j] \in {"absent", "pending"} => ~finished[j]

StreamOrder ==
    \A s \in Subscribers :
        /\ phase[s] = "idle" => delivered[s] = <<>> /\ replay[s] = <<>> /\ queue[s] = <<>>
        /\ phase[s] # "idle" /\ late[s] => finished[feed[s]]
        /\ phase[s] # "idle" /\ closing[s] => late[s]
        /\ phase[s] \in {"replay", "live"} /\ late[s] => queue[s] = <<>>
        /\ phase[s] = "live" => replay[s] = <<>> /\ ~closing[s]

\* The inductive invariant: the fan-out's order facts with the two promises they carry.
FanOutInv == TypeOK /\ TaskOrder /\ StreamOrder /\ NoGapNoDup /\ EndedIsComplete

-------------------------------------------------------------------------------
\* The detailed fan-out implements the abstract feed: no snapshots and no queues, only a log
\* that every reader walks from its first entry to its last.
FeedMode(s) == CASE phase[s] \in {"replay", "live"} -> "open"
                 [] phase[s] = "ended" -> "ended"
                 [] phase[s] = "gone" -> "gone"
                 [] OTHER -> "idle"

Abstract == INSTANCE ProgressFeed
               WITH Feeds <- JobIds, Readers <- Subscribers, Entries <- Event,
                    log <- events, over <- finished, source <- feed, seen <- delivered,
                    mode <- [s \in Subscribers |-> FeedMode(s)]

ImplementsFeed == Abstract!Spec
===============================================================================
