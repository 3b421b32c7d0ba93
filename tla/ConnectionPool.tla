---------------------------- MODULE ConnectionPool ----------------------------
(***************************************************************************)
(* The connection pool of the API process and who borrows from it          *)
(* (storage.get_store, api.store_dep, pipeline.run_pipeline).              *)
(*                                                                         *)
(* A request borrows a connection in a thread of its own and gives it back *)
(* when its handler has ended, which takes a turn of the event loop.  A    *)
(* scoring run borrows on the event loop itself: while it waits in         *)
(* getconn, nothing else runs there.  It keeps the connection until it     *)
(* ends, across everything it awaits.                                      *)
(***************************************************************************)
EXTENDS Naturals, Sequences, FiniteSets, SequencesExt

CONSTANTS Jobs,      \* scoring runs
          Requests,  \* HTTP requests that take a store
          None,      \* the event loop is not in getconn
          PoolSize   \* POOL_MAX_SIZE

ASSUME PoolAssumption == /\ Jobs \cap Requests = {} /\ None \notin Jobs
                         /\ IsFiniteSet(Jobs) /\ IsFiniteSet(Requests)
                         /\ PoolSize \in Nat \ {0}

Borrowers == Jobs \cup Requests

VARIABLES state, \* of each borrower: idle, waiting in getconn, in setup (its store is being
                 \* made), holding a store, ended or failed
          line,  \* who waits in getconn, first come first served
          free,  \* connections nobody has
          loop   \* the run whose get_store the event loop is executing

vars == <<state, line, free, loop>>

States == {"idle", "waiting", "setup", "holding", "ended", "failed"}

TypeOK == /\ state \in [Borrowers -> States]
          /\ line \in Seq(Borrowers)
          /\ free \in 0 .. PoolSize
          /\ loop \in Jobs \cup {None}

Init == /\ state = [b \in Borrowers |-> "idle"]
        /\ line = <<>>
        /\ free = PoolSize
        /\ loop = None

\* The loop goes on when the run that executes get_store is through with it.
LoopAfter(b) == IF loop = b THEN None ELSE loop

\* putconn, which is psycopg_pool's: b ends; its connection goes to the first in line, if
\* anyone waits.
GiveBack(b, how) ==
    IF line = <<>>
      THEN /\ free' = free + 1
           /\ state' = [state EXCEPT ![b] = how]
           /\ UNCHANGED line
      ELSE /\ state' = [state EXCEPT ![b] = how, ![Head(line)] = "setup"]
           /\ line' = Tail(line)
           /\ UNCHANGED free

-------------------------------------------------------------------------------
\* get_store: a request's thread, or a run on the event loop, calls getconn.
Ask(b) ==
    /\ loop = None /\ state[b] = "idle"
    /\ IF free > 0
         THEN /\ free' = free - 1
              /\ state' = [state EXCEPT ![b] = "setup"]
              /\ UNCHANGED line
         ELSE /\ line' = Append(line, b)
              /\ state' = [state EXCEPT ![b] = "waiting"]
              /\ UNCHANGED free
    /\ loop' = IF b \in Jobs THEN b ELSE None

\* PostgresStore has been made on the connection.
Ready(b) ==
    /\ state[b] = "setup"
    /\ state' = [state EXCEPT ![b] = "holding"]
    /\ loop' = LoopAfter(b)
    /\ UNCHANGED <<line, free>>

\* Mutant of SetupFails: the exception leaves the connection checked out.
SetupLeaks(b) ==
    /\ state[b] = "setup"
    /\ state' = [state EXCEPT ![b] = "failed"]
    /\ loop' = LoopAfter(b)
    /\ UNCHANGED <<line, free>>

\* The schema statements fail: get_store puts the connection back and raises.
SetupFails(b) ==
    /\ state[b] = "setup"
    /\ GiveBack(b, "failed")
    /\ loop' = LoopAfter(b)

\* Mutant of TimeOut: getconn waits without limit.
WaitsForever(b) == FALSE /\ UNCHANGED vars

\* getconn gives up (PoolTimeout): the run or the request fails.
TimeOut(b) ==
    /\ state[b] = "waiting"
    /\ \E i \in DOMAIN line : line[i] = b /\ line' = RemoveAt(line, i)
    /\ state' = [state EXCEPT ![b] = "failed"]
    /\ loop' = LoopAfter(b)
    /\ UNCHANGED free

\* The run or the handler has ended, with or without an exception, and store.close() gives
\* the connection back; both take a turn of the loop.
Close(b) ==
    /\ loop = None /\ state[b] = "holding"
    /\ GiveBack(b, "ended")
    /\ UNCHANGED loop

Next == \E b \in Borrowers :
           Ask(b) \/ Ready(b) \/ SetupFails(b) \/ TimeOut(b) \/ Close(b)

Spec == Init /\ [][Next]_vars

\* What is begun goes on: threads and the loop run, getconn's clock runs, and runs and
\* handlers end (every collector has a time limit).
FairSpec == /\ Spec
            /\ \A b \in Borrowers : /\ WF_vars(Ready(b) \/ SetupFails(b))
                                    /\ WF_vars(TimeOut(b))
                                    /\ WF_vars(Close(b))

-------------------------------------------------------------------------------
(* Properties *)

Borrowed == {b \in Borrowers : state[b] \in {"setup", "holding"}}

\* "Never leak a checked-out connection": every connection is free or with a borrower that
\* is still going to give it back, through failures of the setup and timeouts.
NoLeak == free + Cardinality(Borrowed) = PoolSize

\* The event loop stalls in getconn while those who hold the connections need it to give
\* them back; still every borrower ends.  (It is getconn's timeout that breaks the circle.)
EveryoneEnds == \A b \in Borrowers : state[b] # "idle" ~> state[b] \in {"ended", "failed"}

\* How the exchange of psycopg_pool keeps its line: nobody waits beside a free connection, and
\* exactly the waiting are in line, once each.
LineKept ==
    /\ line # <<>> => free = 0
    /\ \A b \in Borrowers : state[b] = "waiting" <=> \E i \in DOMAIN line : line[i] = b
    /\ \A i, k \in DOMAIN line : line[i] = line[k] => i = k

\* The inductive invariant.
PoolInv == TypeOK /\ NoLeak /\ LineKept
===============================================================================
