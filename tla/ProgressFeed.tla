----------------------------- MODULE ProgressFeed -----------------------------
(***************************************************************************)
(* What the SSE progress stream promises, without saying how: each feed is *)
(* an append-only log that is closed once; a reader sees the log's entries *)
(* from the first one on, each exactly once and in order, and a reader     *)
(* that is told the feed is over has seen all of it.                       *)
(***************************************************************************)
EXTENDS Naturals, Sequences

CONSTANTS Feeds, Readers, Entries

VARIABLES log,     \* what each feed has published
          over,    \* the feed is closed
          mode,    \* "idle", "open", "ended" (told the feed is over) or "gone"
          source,  \* the feed a reader is attached to
          seen     \* what each reader has been given

vars == <<log, over, mode, source, seen>>

Init == /\ log = [f \in Feeds |-> <<>>]
        /\ over = [f \in Feeds |-> FALSE]
        /\ mode = [r \in Readers |-> "idle"]
        /\ source = [r \in Readers |-> "none"]
        /\ seen = [r \in Readers |-> <<>>]

\* An open feed publishes one entry, or its last, or is closed without one.
Publish(f) == /\ ~over[f]
              /\ \/ \E e \in Entries : log' = [log EXCEPT ![f] = Append(@, e)]
                 \/ log' = log
              /\ over' \in {over, [over EXCEPT ![f] = TRUE]}
              /\ UNCHANGED <<mode, source, seen>>

Attach(r, f) == /\ mode[r] = "idle"
                /\ mode' = [mode EXCEPT ![r] = "open"]
                /\ source' = [source EXCEPT ![r] = f]
                /\ UNCHANGED <<log, over, seen>>

Read(r) == /\ mode[r] = "open"
           /\ Len(seen[r]) < Len(log[source[r]])
           /\ seen' = [seen EXCEPT ![r] = Append(@, log[source[r]][Len(@) + 1])]
           /\ UNCHANGED <<log, over, mode, source>>

ReachEnd(r) == /\ mode[r] = "open"
               /\ over[source[r]] /\ seen[r] = log[source[r]]
               /\ mode' = [mode EXCEPT ![r] = "ended"]
               /\ UNCHANGED <<log, over, source, seen>>

\* Some open readers leave, or are cut off, at once.
Leave(R) == /\ \A r \in R : mode[r] = "open"
            /\ mode' = [r \in Readers |-> IF r \in R THEN "gone" ELSE mode[r]]
            /\ UNCHANGED <<log, over, source, seen>>

Next == \/ \E f \in Feeds : Publish(f)
        \/ \E r \in Readers : \/ \E f \in Feeds : Attach(r, f)
                              \/ Read(r)
                              \/ ReachEnd(r)
        \/ \E R \in SUBSET Readers : Leave(R)

Spec == Init /\ [][Next]_vars
===============================================================================
