----------------------------- MODULE RateLimiter ------------------------------
(***************************************************************************)
(* The token bucket that throttles the requests of a scoring run to one    *)
(* host (ratelimit.py).  Every run of the pipeline makes a RateLimiter of  *)
(* its own, so one host has a bucket per run.  A collector awaits          *)
(* acquire(host) before each request; it queues for the bucket's asyncio   *)
(* lock, which is handed on in order of arrival and held across the sleep  *)
(* for a missing token.  A collector that exceeds its time is cancelled,   *)
(* wherever in acquire it is.                                              *)
(*                                                                         *)
(* Time is counted in ticks and tokens in units: a token is Cost units, a  *)
(* tick brings Gain units, so the rate is Gain * Second / Cost tokens per  *)
(* second.                                                                 *)
(***************************************************************************)
EXTENDS Naturals, Sequences, FiniteSets, SequencesExt

CONSTANTS Runs,        \* scoring runs under way
          Collectors,  \* the collectors of a run that ask this host
          Second,      \* ticks in a second
          Gain, Cost,  \* units gained per tick, units per token
          Ceiling,     \* requests per second the host tolerates
          MaxRequests, \* bound: acquires of one collector
          MaxTime      \* bound: from here the clock only moves for a sleeper

ASSUME RateAssumption == /\ Second \in Nat \ {0} /\ Gain \in Nat \ {0} /\ Cost \in Nat \ {0}
                         /\ Ceiling \in Nat /\ MaxRequests \in Nat /\ MaxTime \in Nat

VARIABLES now,     \* time.monotonic()
          tokens,  \* units in each run's bucket
          updated, \* when each bucket was refilled last
          queue,   \* the collectors at each bucket's lock; the first holds it
          due,     \* when the holder's sleep ends; 0 while it does not sleep
          asked,   \* acquires of each collector so far
          sent     \* history: when each run's acquires returned

vars == <<now, tokens, updated, queue, due, asked, sent>>

\* capacity = tokens = max(1.0, rate)
Capacity == IF Gain * Second > Cost THEN Gain * Second ELSE Cost

TypeOK == /\ now \in Nat
          /\ tokens \in [Runs -> 0 .. Capacity]
          /\ updated \in [Runs -> Nat]
          /\ queue \in [Runs -> Seq(Collectors)]
          /\ due \in [Runs -> Nat]
          /\ asked \in [Runs -> [Collectors -> 0 .. MaxRequests]]
          /\ sent \in [Runs -> Seq(Nat)]

\* A bucket is made full at its first use: as if it had been full all along.
Init == /\ now = 0
        /\ tokens = [r \in Runs |-> Capacity]
        /\ updated = [r \in Runs |-> 0]
        /\ queue = [r \in Runs |-> <<>>]
        /\ due = [r \in Runs |-> 0]
        /\ asked = [r \in Runs |-> [c \in Collectors |-> 0]]
        /\ sent = [r \in Runs |-> <<>>]

Waits(r, c) == \E i \in DOMAIN queue[r] : queue[r][i] = c

\* Mutant of HolderRuns: a wake-up that comes late is lost.
WokenOnTime(r) == queue[r] # <<>> /\ (due[r] = 0 \/ due[r] = now)

\* The holder of the lock runs: it is awake, or its sleep is over.
HolderRuns(r) == queue[r] # <<>> /\ due[r] <= now

\* Mutant of Refilled: the burst is not capped.
Overflowing(r) == tokens[r] + Gain * (now - updated[r])

\* min(capacity, tokens + elapsed * rate)
Refilled(r) == LET gained == tokens[r] + Gain * (now - updated[r])
               IN IF gained > Capacity THEN Capacity ELSE gained

\* Mutant of Deficit: the sleep is rounded down.
DeficitDown(r) == (Cost - Refilled(r)) \div Gain

\* The sleep for a missing token, in whole ticks.
Deficit(r) == (Cost - Refilled(r) + Gain - 1) \div Gain

-------------------------------------------------------------------------------
\* A collector calls acquire and queues for the lock.
Acquire(r, c) ==
    /\ ~Waits(r, c) /\ asked[r][c] < MaxRequests
    /\ queue' = [queue EXCEPT ![r] = Append(@, c)]
    /\ asked' = [asked EXCEPT ![r][c] = @ + 1]
    /\ UNCHANGED <<now, tokens, updated, due, sent>>

\* Mutant of Grant: `updated` is not moved on.
GrantKeepsUpdated(r) ==
    /\ HolderRuns(r) /\ Refilled(r) >= Cost
    /\ tokens' = [tokens EXCEPT ![r] = Refilled(r) - Cost]
    /\ sent' = [sent EXCEPT ![r] = Append(@, now)]
    /\ queue' = [queue EXCEPT ![r] = Tail(@)]
    /\ due' = [due EXCEPT ![r] = 0]
    /\ UNCHANGED <<now, updated, asked>>

\* The holder takes a token and returns; the lock goes to the next.
Grant(r) ==
    /\ HolderRuns(r) /\ Refilled(r) >= Cost
    /\ tokens' = [tokens EXCEPT ![r] = Refilled(r) - Cost]
    /\ updated' = [updated EXCEPT ![r] = now]
    /\ sent' = [sent EXCEPT ![r] = Append(@, now)]
    /\ queue' = [queue EXCEPT ![r] = Tail(@)]
    /\ due' = [due EXCEPT ![r] = 0]
    /\ UNCHANGED <<now, asked>>

\* There is no token: the holder refills and sleeps, still holding the lock.
Sleep(r) ==
    /\ HolderRuns(r) /\ Refilled(r) < Cost
    /\ tokens' = [tokens EXCEPT ![r] = Refilled(r)]
    /\ updated' = [updated EXCEPT ![r] = now]
    /\ due' = [due EXCEPT ![r] = now + Deficit(r)]
    /\ UNCHANGED <<now, queue, asked, sent>>

\* Mutant of Cancel: the sleep of a cancelled holder is left to whoever is next.
CancelKeepsDue(r, c) ==
    /\ \E i \in DOMAIN queue[r] :
          queue[r][i] = c /\ queue' = [queue EXCEPT ![r] = RemoveAt(@, i)]
    /\ UNCHANGED <<now, tokens, updated, due, asked, sent>>

\* wait_for cancels a collector in acquire: it leaves the queue, and the lock if it held it.
Cancel(r, c) ==
    /\ \E i \in DOMAIN queue[r] :
          /\ queue[r][i] = c
          /\ queue' = [queue EXCEPT ![r] = RemoveAt(@, i)]
          /\ due' = [due EXCEPT ![r] = IF i = 1 THEN 0 ELSE @]
    /\ UNCHANGED <<now, tokens, updated, asked, sent>>

Tick == /\ now < MaxTime \/ \E r \in Runs : due[r] > now
        /\ now' = now + 1
        /\ UNCHANGED <<tokens, updated, queue, due, asked, sent>>

Next == \/ \E r \in Runs, c \in Collectors : Acquire(r, c) \/ Cancel(r, c)
        \/ \E r \in Runs : Grant(r) \/ Sleep(r)
        \/ Tick

Spec == Init /\ [][Next]_vars

\* The event loop runs a task that is ready, and the clock moves.
FairSpec == Spec /\ WF_vars(Tick) /\ \A r \in Runs : WF_vars(Grant(r) \/ Sleep(r))

-------------------------------------------------------------------------------
(* Properties *)

\* "allow a modest 1-second burst, then steady-state": in any stretch of time a bucket lets
\* through one burst and what the rate brings meanwhile, whoever waits, sleeps or is
\* cancelled on the way.
Throttled ==
    \A r \in Runs : \A i, k \in DOMAIN sent[r] :
        i <= k => (k - i + 1) * Cost <= Capacity + Gain * (sent[r][k] - sent[r][i])

\* A holder that has slept finds its token: nothing drains the bucket while it sleeps, and
\* an acquire sleeps at most once.
SleptEnough == \A r \in Runs : due[r] # 0 /\ due[r] <= now => Refilled(r) >= Cost

\* A collector that is not cancelled gets its turn, also behind one that is cancelled while
\* it sleeps with the lock held.
Served == \A r \in Runs, c \in Collectors : Waits(r, c) ~> ~Waits(r, c)

\* ratelimit.py: "EDGAR is throttled below its stated ceiling".  In the last second the
\* process sent the host no more requests than the host tolerates.
UnderCeiling ==
    Cardinality(UNION {{<<r, i>> : i \in {k \in DOMAIN sent[r] : sent[r][k] + Second > now}} :
                          r \in Runs}) <= Ceiling

-------------------------------------------------------------------------------
(* Why these hold *)

\* What a bucket has let through since an earlier request, with what is left in it, is at
\* most what it held and gained.
Budget(r) ==
    /\ updated[r] <= now
    /\ \A i \in DOMAIN sent[r] :
          /\ sent[r][i] <= updated[r]
          /\ (Len(sent[r]) - i + 1) * Cost + tokens[r] <= Capacity + Gain * (updated[r] - sent[r][i])

\* A sleeping holder's token is there when its sleep ends.
Paid(r) == due[r] # 0 => /\ queue[r] # <<>> /\ updated[r] <= due[r]
                         /\ Cost <= tokens[r] + Gain * (due[r] - updated[r])

\* The inductive invariant.
LimiterInv == /\ TypeOK /\ Throttled
              /\ \A r \in Runs : Budget(r) /\ Paid(r)
===============================================================================
