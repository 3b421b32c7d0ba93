----------------------------- MODULE MonitorProofs -----------------------------
(***************************************************************************)
(* For any book, any processes and any window of the ledger: the counts of *)
(* a sweep add up, the health verdict is earned, and the incomplete runs   *)
(* it names are the ones that died or still run.                           *)
(***************************************************************************)
EXTENDS MonitorLedger, FiniteSetTheorems, SequenceTheorems, TLAPS

-------------------------------------------------------------------------------
(* The inductive invariant. *)

Sweeps == [stage : {"idle", "sweeping", "scoring"}, run : RunIds \cup {None}, dry : BOOLEAN,
           elapsed : 0 .. MaxSweep, at : Vendors \cup {None}, depth : Depths \cup {None},
           acted : [Vendors -> Actions \cup {None, "listed"}], wrote : SUBSET Vendors]

\* A sweep has stored a score for each vendor it says it re-scored, and for none besides them
\* and those whose run raised.
SweepOK(s) ==
    /\ s.stage = "idle" => s.run = None
    /\ s.stage # "idle" => /\ s.run # None
                           /\ \A v \in Vendors : s.acted[v] \in Actions \cup {"listed"}
                           /\ \A v \in Vendors : s.acted[v] = "rescored" => v \in s.wrote
                           /\ \A v \in s.wrote : s.acted[v] \in {"rescored", "error"}
                           /\ s.dry => s.wrote = {}
                           /\ ~s.dry => \A v \in Vendors : s.acted[v] # "would_rescore"
    /\ s.stage = "scoring" => ~s.dry /\ s.at \in Vendors /\ s.acted[s.at] = "listed"

ProcOK == /\ proc \in [Processes -> Sweeps]
          /\ \A p \in Processes : SweepOK(proc[p])

Active(p) == proc[p].stage # "idle"
LedgerTyped == ledger \in Seq(Rows) /\ Len(ledger) <= Window

\* Whose row it is: a run that goes on has only opened, one that died has not closed, and any other
\* live one has closed after it opened.
RowsOK ==
    /\ \A p, q \in Processes : Active(p) /\ Active(q) /\ proc[p].run = proc[q].run => p = q
    /\ \A p \in Processes : Active(p) =>
         /\ proc[p].run \notin died
         /\ \A i \in DOMAIN ledger : ledger[i].run = proc[p].run
                                       => ledger[i].event = "started" /\ ledger[i].dry = proc[p].dry
    /\ \A i \in DOMAIN ledger : ledger[i].run \in died => ledger[i].event = "started"
    /\ \A i \in Live("started") :
         \/ ledger[i].run \in died
         \/ \E p \in Processes : Active(p) /\ ledger[i].run = proc[p].run
         \/ \E j \in Live("finished") \cup Live("failed") : i < j /\ ledger[j].run = ledger[i].run

\* The history variable is what the newest finished row that is still there says.
LastSuccess(l) ==
    /\ l \in Live("finished") /\ \A k \in Live("finished") : k <= l
    /\ success \in [since : 0 .. Tolerance + 1, broken : BOOLEAN]
    /\ success.since = ledger[l].age
    /\ (success.broken = TRUE) <=> (\E i \in Live("failed") : l < i)
HealthOK == IF Live("finished") = {} THEN success = None ELSE \E l \in DOMAIN ledger : LastSuccess(l)

MInv == ProcOK /\ LedgerTyped /\ RowsOK /\ HealthOK /\ died \subseteq RunsIn(ledger)

-------------------------------------------------------------------------------
(* The ledger's append. *)

Row(run, event, dry, failed) == [run |-> run, event |-> event, dry |-> dry, age |-> 0, failed |-> failed]

\* One row more at the end, and one fewer at the front when the window is full.
Shifted(k, row) ==
    /\ k \in {0, 1}
    /\ Len(ledger') = Len(ledger) + 1 - k /\ Len(ledger') \in Nat \ {0}
    /\ \A j \in 1 .. Len(ledger) - k : ledger'[j] = ledger[j + k]
    /\ ledger'[Len(ledger')] = row

LEMMA PutRow ==
    ASSUME LedgerTyped, NEW run \in RunIds, NEW event \in {"started", "finished", "failed"},
           NEW dry \in BOOLEAN, NEW failed \in Nat, PutMonitorRun(run, event, dry, failed)
    PROVE  LedgerTyped' /\ \E k \in {0, 1} : Shifted(k, Row(run, event, dry, failed))
<1> DEFINE row == Row(run, event, dry, failed)
           longer == Append(ledger, row)
<1>1. row \in Rows
  BY LedgerAssumption DEF Row, Rows
<1>2. ledger' = Recent(longer)
  BY DEF PutMonitorRun, Row
<1> HIDE DEF row
<1>3. ledger \in Seq(Rows) /\ Len(ledger) \in Nat /\ Len(ledger) <= Window /\ Window \in Nat \ {0}
  BY LenProperties, LedgerAssumption DEF LedgerTyped
<1>4. /\ longer \in Seq(Rows) /\ Len(longer) = Len(ledger) + 1
      /\ \A i \in 1 .. Len(ledger) : longer[i] = ledger[i]
      /\ longer[Len(ledger) + 1] = row
  BY <1>1, <1>3
<1>5. CASE Len(longer) > Window
  <2>1. ledger' = Tail(longer) /\ longer # <<>>
    <3>1. ledger' = Tail(longer)
      BY <1>2, <1>5 DEF Recent
    <3> HIDE DEF longer
    <3>2. longer # <<>>
      BY <1>3, <1>4
    <3> QED BY <3>1, <3>2
  <2>2. /\ ledger' \in Seq(Rows) /\ Len(ledger') = Len(longer) - 1
        /\ \A i \in 1 .. Len(ledger') : ledger'[i] = longer[i + 1]
    BY <1>4, <2>1, HeadTailProperties
  <2>3. Shifted(1, row)
    BY <1>3, <1>4, <1>5, <2>2 DEF Shifted
  <2> QED BY <1>3, <1>4, <2>2, <2>3 DEF LedgerTyped, row
<1>6. CASE ~(Len(longer) > Window)
  <2>1. ledger' = longer
    BY <1>2, <1>6 DEF Recent
  <2>2. Shifted(0, row)
    BY <1>3, <1>4, <2>1 DEF Shifted
  <2> QED BY <1>3, <1>4, <1>6, <2>1, <2>2 DEF LedgerTyped, row
<1> QED BY <1>5, <1>6
\* Every row that is there now is the new one or was there, and those that were there keep their order.
LEMMA ShiftedRows ==
    ASSUME LedgerTyped, NEW k \in {0, 1}, NEW row, Shifted(k, row), LedgerTyped'
    PROVE  /\ Len(ledger') \in DOMAIN ledger' /\ ledger'[Len(ledger')] = row
           /\ DOMAIN ledger \subseteq Nat /\ \A i \in DOMAIN ledger' : i \in Nat /\ i <= Len(ledger')
           /\ \A i \in DOMAIN ledger' : \/ i = Len(ledger')
                                       \/ \E o \in DOMAIN ledger : o = i + k /\ ledger'[i] = ledger[o]
           /\ \A j \in DOMAIN ledger : \/ j <= k
                                      \/ \E c \in DOMAIN ledger' : /\ c = j - k /\ c < Len(ledger')
                                                                 /\ ledger'[c] = ledger[j]
<1>1. /\ DOMAIN ledger = 1 .. Len(ledger) /\ Len(ledger) \in Nat
      /\ DOMAIN ledger' = 1 .. Len(ledger') /\ Len(ledger') \in Nat
  BY LenProperties DEF LedgerTyped
<1>2. /\ Len(ledger') = Len(ledger) + 1 - k /\ Len(ledger') # 0
      /\ \A j \in 1 .. Len(ledger) - k : ledger'[j] = ledger[j + k]
      /\ ledger'[Len(ledger')] = row
  BY DEF Shifted
<1>3. ASSUME NEW i \in DOMAIN ledger', i # Len(ledger')
      PROVE  i + k \in DOMAIN ledger /\ ledger'[i] = ledger[i + k]
  <2>1. i \in 1 .. Len(ledger) - k
    BY <1>1, <1>2, <1>3
  <2> QED BY <1>1, <1>2, <2>1
<1>4. ASSUME NEW j \in DOMAIN ledger, j > k
      PROVE  j - k \in DOMAIN ledger' /\ ledger'[j - k] = ledger[j] /\ j - k < Len(ledger')
  <2>1. j - k \in 1 .. Len(ledger) - k /\ (j - k) + k = j
    BY <1>1, <1>4
  <2>2. ledger'[j - k] = ledger[j]
    BY <1>2, <2>1
  <2> QED BY <1>1, <1>2, <2>1, <2>2
<1> QED BY <1>1, <1>2, <1>3, <1>4

\* What RowsOK says of a process is about its run alone.
SameRuns == \A p \in Processes : /\ Active(p)' <=> Active(p)
                               /\ proc'[p].run = proc[p].run /\ proc'[p].dry = proc[p].dry

\* A run opens under an id that nobody uses.
LEMMA RowsOpened ==
    ASSUME LedgerTyped, LedgerTyped', RowsOK, NEW p \in Processes, ~Active(p), NEW run \in RunIds,
           NEW dry \in BOOLEAN,
           run \notin RunsIn(ledger), \A q \in Processes : proc[q].run # run,
           NEW k \in {0, 1}, Shifted(k, Row(run, "started", dry, 0)), died \subseteq RunsIn(ledger),
           died' = died \cap RunsIn(ledger'), Active(p)', proc'[p].run = run, proc'[p].dry = dry,
           \A q \in Processes \ {p} : proc'[q] = proc[q]
    PROVE  RowsOK'
<1> DEFINE n == Len(ledger')
<1>1. /\ n \in DOMAIN ledger' /\ ledger'[n] = Row(run, "started", dry, 0)
      /\ DOMAIN ledger \subseteq Nat /\ \A i \in DOMAIN ledger' : i \in Nat /\ i <= n
      /\ \A i \in DOMAIN ledger' : i = n \/ \E o \in DOMAIN ledger : o = i + k /\ ledger'[i] = ledger[o]
      /\ \A j \in DOMAIN ledger : j <= k \/ \E c \in DOMAIN ledger' : c = j - k /\ c < n /\ ledger'[c] = ledger[j]
  BY ShiftedRows
<1> HIDE DEF n
<1>2. /\ ledger'[n].run = run /\ ledger'[n].event = "started" /\ ledger'[n].dry = dry
  BY <1>1 DEF Row
<1>3. /\ died' \subseteq died /\ run \notin died
      /\ \A i \in DOMAIN ledger' : ledger'[i].run \in died => ledger'[i].run \in died'
      /\ \A i \in DOMAIN ledger : ledger[i].run # run
  BY DEF RunsIn
<1>4. \A q \in Processes : Active(q)' => q = p \/ (Active(q) /\ proc'[q] = proc[q] /\ q # p)
  BY DEF Active
<1>5. \A q, r \in Processes : Active(q)' /\ Active(r)' /\ proc'[q].run = proc'[r].run => q = r
  BY <1>4 DEF RowsOK
<1>6. \A q \in Processes : Active(q)' =>
        /\ proc'[q].run \notin died'
        /\ \A i \in DOMAIN ledger' : ledger'[i].run = proc'[q].run
                                      => ledger'[i].event = "started" /\ ledger'[i].dry = proc'[q].dry
  BY <1>1, <1>2, <1>3, <1>4 DEF RowsOK
<1>7. \A i \in DOMAIN ledger' : ledger'[i].run \in died' => ledger'[i].event = "started"
  BY <1>1, <1>2, <1>3 DEF RowsOK
<1>8. ASSUME NEW i \in DOMAIN ledger', ledger'[i].event = "started", ~ledger'[i].dry
      PROVE  \/ ledger'[i].run \in died'
             \/ \E q \in Processes : Active(q)' /\ ledger'[i].run = proc'[q].run
             \/ \E j \in DOMAIN ledger' : /\ i < j /\ ledger'[j].run = ledger'[i].run /\ ~ledger'[j].dry
                                         /\ ledger'[j].event \in {"finished", "failed"}
  <2>1. CASE i = n
    BY <1>2, <2>1
  <2>2. CASE i # n
    <3>1. PICK o \in DOMAIN ledger : o = i + k /\ ledger'[i] = ledger[o]
      BY <1>1, <2>2
    <3>2. o \in Live("started")
      BY <1>8, <3>1 DEF Live
    <3>3. CASE ledger[o].run \in died
      BY <1>3, <3>1, <3>3
    <3>4. CASE \E q \in Processes : Active(q) /\ ledger[o].run = proc[q].run
      <4>1. PICK q \in Processes : Active(q) /\ ledger[o].run = proc[q].run
        BY <3>4
      <4>2. CASE q = p
        BY <4>1, <4>2
      <4>3. CASE q # p
        BY <3>1, <4>1, <4>3 DEF Active
      <4> QED BY <4>2, <4>3
    <3>5. CASE \E j \in Live("finished") \cup Live("failed") : o < j /\ ledger[j].run = ledger[o].run
      <4>1. PICK j \in DOMAIN ledger : /\ o < j /\ ledger[j].run = ledger[o].run /\ ~ledger[j].dry
                                      /\ ledger[j].event \in {"finished", "failed"}
        BY <3>5 DEF Live
      <4>2. i \in Nat /\ j \in Nat /\ o = i + k
        BY <1>1, <3>1
      <4>3. ~(j <= k)
        BY <4>1, <4>2
      <4>4. PICK c \in DOMAIN ledger' : c = j - k /\ ledger'[c] = ledger[j]
        BY <1>1, <4>3
      <4>5. i < c
        BY <4>1, <4>2, <4>4
      <4> QED BY <3>1, <4>1, <4>4, <4>5
    <3> QED BY <3>2, <3>3, <3>4, <3>5 DEF RowsOK
  <2> QED BY <2>1, <2>2
<1> QED BY <1>5, <1>6, <1>7, <1>8 DEF RowsOK, Live

\* A run closes with a row of its own.
LEMMA RowsClosed ==
    ASSUME LedgerTyped, LedgerTyped', RowsOK, NEW p \in Processes, Active(p), proc[p].dry \in BOOLEAN,
           NEW event \in {"finished", "failed"}, NEW failed \in Nat,
           NEW k \in {0, 1}, Shifted(k, Row(proc[p].run, event, proc[p].dry, failed)),
           died' = died \cap RunsIn(ledger'), ~Active(p)',
           \A q \in Processes \ {p} : proc'[q] = proc[q]
    PROVE  RowsOK'
<1> DEFINE n == Len(ledger')
<1>1. /\ n \in DOMAIN ledger' /\ ledger'[n] = Row(proc[p].run, event, proc[p].dry, failed)
      /\ DOMAIN ledger \subseteq Nat /\ \A i \in DOMAIN ledger' : i \in Nat /\ i <= n
      /\ \A i \in DOMAIN ledger' : i = n \/ \E o \in DOMAIN ledger : o = i + k /\ ledger'[i] = ledger[o]
      /\ \A j \in DOMAIN ledger : j <= k \/ \E c \in DOMAIN ledger' : c = j - k /\ c < n /\ ledger'[c] = ledger[j]
  BY ShiftedRows
<1> HIDE DEF n
<1>2. /\ ledger'[n].run = proc[p].run /\ ledger'[n].event = event /\ ledger'[n].dry = proc[p].dry
  BY <1>1 DEF Row
<1>3. /\ died' \subseteq died /\ proc[p].run \notin died
      /\ \A i \in DOMAIN ledger' : ledger'[i].run \in died => ledger'[i].run \in died'
  BY DEF RunsIn, RowsOK
<1>4. \A q \in Processes : Active(q)' => q # p /\ Active(q) /\ proc'[q] = proc[q] /\ proc[q].run # proc[p].run
  BY DEF Active, RowsOK
<1>5. \A q, r \in Processes : Active(q)' /\ Active(r)' /\ proc'[q].run = proc'[r].run => q = r
  BY <1>4 DEF RowsOK
<1>6. \A q \in Processes : Active(q)' =>
        /\ proc'[q].run \notin died'
        /\ \A i \in DOMAIN ledger' : ledger'[i].run = proc'[q].run
                                      => ledger'[i].event = "started" /\ ledger'[i].dry = proc'[q].dry
  BY <1>1, <1>2, <1>3, <1>4 DEF RowsOK
<1>7. \A i \in DOMAIN ledger' : ledger'[i].run \in died' => ledger'[i].event = "started"
  BY <1>1, <1>2, <1>3 DEF RowsOK
<1>8. ASSUME NEW i \in DOMAIN ledger', ledger'[i].event = "started", ~ledger'[i].dry
      PROVE  \/ ledger'[i].run \in died'
             \/ \E q \in Processes : Active(q)' /\ ledger'[i].run = proc'[q].run
             \/ \E j \in DOMAIN ledger' : /\ i < j /\ ledger'[j].run = ledger'[i].run /\ ~ledger'[j].dry
                                         /\ ledger'[j].event \in {"finished", "failed"}
  <2>1. i # n
    BY <1>2, <1>8
  <2>2. PICK o \in DOMAIN ledger : o = i + k /\ ledger'[i] = ledger[o]
    BY <1>1, <2>1
  <2>3. o \in Live("started")
    BY <1>8, <2>2 DEF Live
  <2>4. CASE ledger[o].run \in died
    BY <1>3, <2>2, <2>4
  <2>5. CASE \E q \in Processes : Active(q) /\ ledger[o].run = proc[q].run
    <3>1. PICK q \in Processes : Active(q) /\ ledger[o].run = proc[q].run
      BY <2>5
    <3>2. CASE q = p
      <4>1. ~proc[p].dry
        BY <1>8, <2>2, <3>1, <3>2 DEF RowsOK
      <4>2. i < n
        BY <1>1, <2>1
      <4> QED BY <1>1, <1>2, <2>2, <3>1, <3>2, <4>1, <4>2
    <3>3. CASE q # p
      BY <2>2, <3>1, <3>3 DEF Active
    <3> QED BY <3>2, <3>3
  <2>6. CASE \E j \in Live("finished") \cup Live("failed") : o < j /\ ledger[j].run = ledger[o].run
    <3>1. PICK j \in DOMAIN ledger : /\ o < j /\ ledger[j].run = ledger[o].run /\ ~ledger[j].dry
                                    /\ ledger[j].event \in {"finished", "failed"}
      BY <2>6 DEF Live
    <3>2. i \in Nat /\ j \in Nat /\ o = i + k
      BY <1>1, <2>2
    <3>3. ~(j <= k)
      BY <3>1, <3>2
    <3>4. PICK c \in DOMAIN ledger' : c = j - k /\ ledger'[c] = ledger[j]
      BY <1>1, <3>3
    <3>5. i < c
      BY <3>1, <3>2, <3>4
    <3> QED BY <2>2, <3>1, <3>4, <3>5
  <2> QED BY <2>3, <2>4, <2>5, <2>6 DEF RowsOK
<1> QED BY <1>5, <1>6, <1>7, <1>8 DEF RowsOK, Live

\* A run dies, and its row stays open.
LEMMA RowsOrphaned ==
    ASSUME RowsOK, NEW p \in Processes, Active(p), UNCHANGED ledger, ~Active(p)',
           died' = died \cup ({proc[p].run} \cap RunsIn(ledger)),
           \A q \in Processes \ {p} : proc'[q] = proc[q]
    PROVE  RowsOK'
<1>1. \A q \in Processes : Active(q)' => q # p /\ Active(q) /\ proc'[q] = proc[q] /\ proc[q].run # proc[p].run
  BY DEF Active, RowsOK
<1>2. \A i \in DOMAIN ledger : ledger[i].run \in died' <=> ledger[i].run \in died \/ ledger[i].run = proc[p].run
  BY DEF RunsIn
<1>3. \A q, r \in Processes : Active(q)' /\ Active(r)' /\ proc'[q].run = proc'[r].run => q = r
  BY <1>1 DEF RowsOK
<1>4. \A q \in Processes : Active(q)' =>
        /\ proc'[q].run \notin died'
        /\ \A i \in DOMAIN ledger' : ledger'[i].run = proc'[q].run
                                      => ledger'[i].event = "started" /\ ledger'[i].dry = proc'[q].dry
  BY <1>1 DEF RowsOK
<1>5. \A i \in DOMAIN ledger' : ledger'[i].run \in died' => ledger'[i].event = "started"
  BY <1>2 DEF RowsOK
<1>6. ASSUME NEW i \in Live("started")
      PROVE  \/ ledger[i].run \in died'
             \/ \E q \in Processes : Active(q)' /\ ledger[i].run = proc'[q].run
             \/ \E j \in Live("finished") \cup Live("failed") : i < j /\ ledger[j].run = ledger[i].run
  <2>1. i \in DOMAIN ledger
    BY DEF Live
  <2>2. CASE ledger[i].run \in died
    BY <1>2, <2>1, <2>2
  <2>3. CASE \E q \in Processes : Active(q) /\ ledger[i].run = proc[q].run
    <3>1. PICK q \in Processes : Active(q) /\ ledger[i].run = proc[q].run
      BY <2>3
    <3>2. CASE q = p
      BY <1>2, <2>1, <3>1, <3>2
    <3>3. CASE q # p
      BY <3>1, <3>3 DEF Active
    <3> QED BY <3>2, <3>3
  <2> QED BY <2>2, <2>3 DEF RowsOK
<1>7. \A event : Live(event)' = Live(event)
  BY DEF Live
<1> QED BY <1>3, <1>4, <1>5, <1>6, <1>7 DEF RowsOK

\* The clock and the sweeps' own steps.
LEMMA RowsSteady ==
    ASSUME RowsOK, SameRuns, UNCHANGED died, DOMAIN ledger' = DOMAIN ledger,
           \A i \in DOMAIN ledger : /\ ledger'[i].run = ledger[i].run /\ ledger'[i].event = ledger[i].event
                                  /\ ledger'[i].dry = ledger[i].dry
    PROVE  RowsOK' /\ \A event : Live(event)' = Live(event)
<1>1. \A event : Live(event)' = Live(event)
  BY DEF Live
<1>2. \A q, r \in Processes : Active(q)' /\ Active(r)' /\ proc'[q].run = proc'[r].run => q = r
  BY DEF RowsOK, SameRuns
<1>3. \A q \in Processes : Active(q)' =>
        /\ proc'[q].run \notin died'
        /\ \A i \in DOMAIN ledger' : ledger'[i].run = proc'[q].run
                                      => ledger'[i].event = "started" /\ ledger'[i].dry = proc'[q].dry
  BY DEF RowsOK, SameRuns
<1>4. \A i \in DOMAIN ledger' : ledger'[i].run \in died' => ledger'[i].event = "started"
  BY DEF RowsOK
<1>5. ASSUME NEW i \in Live("started")
      PROVE  \/ ledger'[i].run \in died'
             \/ \E q \in Processes : Active(q)' /\ ledger'[i].run = proc'[q].run
             \/ \E j \in Live("finished") \cup Live("failed") : i < j /\ ledger'[j].run = ledger'[i].run
  <2>1. \A j \in DOMAIN ledger : ledger'[j].run = ledger[j].run
    OBVIOUS
  <2>2. Live("started") \subseteq DOMAIN ledger /\ Live("finished") \cup Live("failed") \subseteq DOMAIN ledger
    BY DEF Live
  <2>3. \/ ledger[i].run \in died
        \/ \E q \in Processes : Active(q) /\ ledger[i].run = proc[q].run
        \/ \E j \in Live("finished") \cup Live("failed") : i < j /\ ledger[j].run = ledger[i].run
    BY DEF RowsOK
  <2> QED BY <2>1, <2>2, <2>3 DEF SameRuns
<1> QED BY <1>1, <1>2, <1>3, <1>4, <1>5 DEF RowsOK

-------------------------------------------------------------------------------
(* A run gets an id that no row and no process has. *)

LEMMA CountTo ==
    ASSUME NEW n \in Nat
    PROVE  IsFiniteSet(1 .. n) /\ Cardinality(1 .. n) = n
<1>1. 1 \in Int /\ n \in Int
  OBVIOUS
<1>2. /\ IsFiniteSet(1 .. n)
      /\ Cardinality(1 .. n) = IF 1 > n THEN 0 ELSE n - 1 + 1
  BY <1>1, FS_Interval, Zenon
<1>3. (IF 1 > n THEN 0 ELSE n - 1 + 1) = n
  OBVIOUS
<1> QED BY <1>2, <1>3

\* There are more ids than rows and processes, and the process that starts has none.
LEMMA FreshRun ==
    ASSUME LedgerTyped, ProcOK, NEW p \in Processes, ~Active(p)
    PROVE  \E run \in RunIds : run \notin RunsIn(ledger) \cup {proc[q].run : q \in Processes}
<1> DEFINE f == [i \in DOMAIN ledger |-> ledger[i].run]
           g == [q \in Processes |-> proc[q].run]
           others == {proc[q].run : q \in Processes}
           taken == RunsIn(ledger) \cup (others \ {None})
<1>1. /\ DOMAIN ledger = 1 .. Len(ledger) /\ Len(ledger) \in Nat /\ Len(ledger) <= Window
      /\ Window \in Nat \ {0}
  BY LenProperties, LedgerAssumption DEF LedgerTyped
<1>2. IsFiniteSet(RunsIn(ledger)) /\ Cardinality(RunsIn(ledger)) <= Len(ledger)
      /\ Cardinality(RunsIn(ledger)) \in Nat
  <2>1. f \in Surjection(DOMAIN ledger, RunsIn(ledger))
    BY DEF RunsIn, Surjection
  <2>2. IsFiniteSet(1 .. Len(ledger)) /\ Cardinality(1 .. Len(ledger)) = Len(ledger)
    BY <1>1, CountTo
  <2> QED BY <1>1, <2>1, <2>2, FS_Surjection, FS_CardinalityType
<1>3. IsFiniteSet(Processes) /\ Cardinality(Processes) \in Nat
  BY LedgerAssumption, FS_AddElement, FS_CardinalityType DEF Processes
<1>4. IsFiniteSet(others) /\ Cardinality(others) <= Cardinality(Processes)
  <2>1. g \in Surjection(Processes, others)
    BY DEF Surjection
  <2> QED BY <1>3, <2>1, FS_Surjection
<1>5. None \in others
  <2>1. proc[p].run = None
    BY DEF ProcOK, SweepOK, Active
  <2> QED BY <2>1
<1> HIDE DEF others
<1>6. /\ IsFiniteSet(others \ {None}) /\ Cardinality(others \ {None}) = Cardinality(others) - 1
      /\ Cardinality(others) \in Nat
  BY <1>4, <1>5, FS_RemoveElement, FS_CardinalityType
<1>7. IsFiniteSet(taken) /\ Cardinality(taken) < Window + Cardinality(Processes)
  <2>1. /\ IsFiniteSet(taken)
        /\ Cardinality(taken) = Cardinality(RunsIn(ledger)) + Cardinality(others \ {None})
                                  - Cardinality(RunsIn(ledger) \cap (others \ {None}))
    BY <1>2, <1>6, FS_Union
  <2>2. Cardinality(RunsIn(ledger) \cap (others \ {None})) \in Nat
    BY <1>2, FS_Intersection, FS_CardinalityType
  <2> QED BY <1>1, <1>2, <1>3, <1>4, <1>6, <2>1, <2>2
<1>8. /\ RunIds \subseteq Nat /\ Cardinality(RunIds) = Window + Cardinality(Processes)
  <2>1. Window + Cardinality(Processes) \in Nat
    BY <1>1, <1>3
  <2> QED BY <2>1, CountTo DEF RunIds
<1>9. PICK run \in RunIds : run \notin taken
  <2> HIDE DEF taken
  <2>1. SUFFICES ASSUME RunIds \subseteq taken PROVE FALSE
    OBVIOUS
  <2>2. Cardinality(RunIds) <= Cardinality(taken)
    BY <1>7, <2>1, FS_Subset
  <2>3. Cardinality(taken) \in Nat
    BY <1>7, FS_CardinalityType
  <2> QED BY <1>1, <1>3, <1>7, <1>8, <2>2, <2>3
<1>10. run # None
  BY <1>8, LedgerAssumption
<1> QED BY <1>9, <1>10 DEF others

-------------------------------------------------------------------------------
(* The newest success. *)

\* A new row leaves the newest success behind it, replaces it, or pushes the last one out of the window.
LEMMA HealthPut ==
    ASSUME LedgerTyped, LedgerTyped', HealthOK, NEW run \in RunIds,
           NEW event \in {"started", "finished", "failed"}, NEW dry \in BOOLEAN, NEW failed \in Nat,
           PutMonitorRun(run, event, dry, failed), NEW k \in {0, 1}, Shifted(k, Row(run, event, dry, failed))
    PROVE  HealthOK'
<1> DEFINE n == Len(ledger')
<1>1. /\ n \in DOMAIN ledger' /\ ledger'[n] = Row(run, event, dry, failed)
      /\ DOMAIN ledger \subseteq Nat /\ \A i \in DOMAIN ledger' : i \in Nat /\ i <= n
      /\ \A i \in DOMAIN ledger' : i = n \/ \E o \in DOMAIN ledger : o = i + k /\ ledger'[i] = ledger[o]
      /\ \A j \in DOMAIN ledger : j <= k \/ \E c \in DOMAIN ledger' : c = j - k /\ c < n /\ ledger'[c] = ledger[j]
  BY ShiftedRows
<1>2. \A i \in DOMAIN ledger' : 1 <= i
  BY LenProperties DEF LedgerTyped
<1> HIDE DEF n
<1>3. /\ ledger'[n].event = event /\ ledger'[n].dry = dry /\ ledger'[n].age = 0
  BY <1>1 DEF Row
<1>4. 0 \in 0 .. Tolerance + 1
  BY LedgerAssumption
<1>5. CASE event = "finished" /\ ~dry
  <2>1. n \in Live("finished")'
    BY <1>1, <1>3, <1>5 DEF Live
  <2>2. success' = [since |-> 0, broken |-> FALSE]
    BY <1>1, <1>3, <1>5 DEF PutMonitorRun, Completed
  <2>3. ~\E i \in Live("failed")' : n < i
    BY <1>1 DEF Live
  <2>4. \A c \in Live("finished")' : c <= n
    BY <1>1 DEF Live
  <2> QED BY <1>1, <1>3, <1>4, <2>1, <2>2, <2>3, <2>4 DEF HealthOK, LastSuccess
<1>6. CASE ~(event = "finished" /\ ~dry)
  <2>1. CASE Live("finished")' = {}
    <3>1. success' = None
      BY <2>1 DEF PutMonitorRun, Completed, Live
    <3> QED BY <2>1, <3>1 DEF HealthOK
  <2>2. CASE Live("finished")' # {}
    <3>1. PICK first \in Live("finished")' : TRUE
      BY <2>2
    <3>2. \A c \in Live("finished")' : c \in DOMAIN ledger' /\ \E o \in Live("finished") : o = c + k
      BY <1>1, <1>3, <1>6 DEF Live
    <3>3. PICK l \in DOMAIN ledger : LastSuccess(l)
      BY <3>1, <3>2 DEF HealthOK
    <3>4. ~(l <= k)
      BY <1>1, <1>2, <3>1, <3>2, <3>3 DEF LastSuccess
    <3>5. PICK c \in DOMAIN ledger' : c = l - k /\ c < n /\ ledger'[c] = ledger[l]
      BY <1>1, <3>4
    <3>6. c \in Live("finished")' /\ l \in Nat /\ c \in Nat
      BY <1>1, <3>3, <3>5 DEF LastSuccess, Live
    <3>7. \A d \in Live("finished")' : d <= c
      <4> SUFFICES ASSUME NEW d \in Live("finished")' PROVE d <= c
        OBVIOUS
      <4>1. PICK o \in Live("finished") : o = d + k
        BY <3>2
      <4>2. o <= l /\ d \in Nat
        BY <1>1, <3>2, <3>3 DEF LastSuccess
      <4> QED BY <3>5, <3>6, <4>1, <4>2
    <3>8. CASE event = "failed" /\ ~dry
      <4>1. success' = [success EXCEPT !.broken = TRUE]
        BY <2>2, <3>8 DEF PutMonitorRun, Completed, Live
      <4>2. n \in Live("failed")' /\ c < n
        BY <1>1, <1>3, <3>5, <3>8 DEF Live
      <4> QED BY <3>3, <3>5, <3>6, <3>7, <4>1, <4>2, <2>2 DEF HealthOK, LastSuccess
    <3>9. CASE ~(event = "failed" /\ ~dry)
      <4>1. success' = success
        BY <1>6, <2>2, <3>9 DEF PutMonitorRun, Completed, Live
      <4>2. ASSUME NEW i \in Live("failed"), l < i PROVE \E j \in Live("failed")' : c < j
        <5>1. i \in DOMAIN ledger /\ i \in Nat
          BY <1>1 DEF Live
        <5>2. ~(i <= k)
          BY <3>4, <3>6, <4>2, <5>1
        <5>3. PICK j \in DOMAIN ledger' : j = i - k /\ ledger'[j] = ledger[i]
          BY <1>1, <5>1, <5>2
        <5>4. j \in Live("failed")' /\ c < j
          BY <3>5, <3>6, <4>2, <5>1, <5>3 DEF Live
        <5> QED BY <5>4
      <4>3. ASSUME NEW j \in Live("failed")', c < j PROVE \E i \in Live("failed") : l < i
        <5>1. j # n /\ j \in DOMAIN ledger' /\ j \in Nat
          BY <1>1, <1>3, <3>9 DEF Live
        <5>2. PICK i \in DOMAIN ledger : i = j + k /\ ledger'[j] = ledger[i]
          BY <1>1, <5>1
        <5>3. i \in Live("failed") /\ l < i
          BY <3>5, <3>6, <4>3, <5>1, <5>2 DEF Live
        <5> QED BY <5>3
      <4> QED BY <2>2, <3>3, <3>5, <3>6, <3>7, <4>1, <4>2, <4>3 DEF HealthOK, LastSuccess
    <3> QED BY <3>8, <3>9
  <2> QED BY <2>1, <2>2
<1> QED BY <1>5, <1>6

LEMMA HealthSteady ==
    ASSUME HealthOK, UNCHANGED <<ledger, success>>
    PROVE  HealthOK'
<1>1. \A event : Live(event)' = Live(event)
  BY DEF Live
<1> QED BY <1>1 DEF HealthOK, LastSuccess

-------------------------------------------------------------------------------
(* The sweeps. *)

\* One process takes a step of its own.
LEMMA ProcStep ==
    ASSUME ProcOK, NEW p \in Processes, NEW s \in Sweeps, SweepOK(s), proc' = [proc EXCEPT ![p] = s]
    PROVE  ProcOK' /\ proc'[p] = s /\ \A q \in Processes \ {p} : proc'[q] = proc[q]
<1>1. proc \in [Processes -> Sweeps]
  BY DEF ProcOK
<1>2. /\ proc' \in [Processes -> Sweeps] /\ proc'[p] = s
      /\ \A q \in Processes \ {p} : proc'[q] = proc[q]
  BY <1>1
<1>3. \A q \in Processes : SweepOK(proc[q])'
  BY <1>2 DEF ProcOK, SweepOK
<1> QED BY <1>2, <1>3 DEF ProcOK

LEMMA IdleOK == Idle \in Sweeps /\ SweepOK(Idle)
BY LedgerAssumption DEF Idle, Sweeps, SweepOK

-------------------------------------------------------------------------------
(* Every action preserves the invariant. *)

LEMMA StartStep ==
    ASSUME MInv, NEW p \in Processes, NEW dry \in BOOLEAN, Start(p, dry)
    PROVE  MInv'
<1> DEFINE taken == RunsIn(ledger) \cup {proc[q].run : q \in Processes}
           run == CHOOSE r \in RunIds : r \notin taken
           s == [run |-> run, dry |-> dry, stage |-> "sweeping", elapsed |-> 0, at |-> None,
                 depth |-> None, wrote |-> {}, acted |-> [v \in Vendors |-> "listed"]]
<1>1. ProcOK /\ LedgerTyped /\ RowsOK /\ HealthOK /\ died \subseteq RunsIn(ledger) /\ ~Active(p)
  BY DEF MInv, Start, Active
<1>2. run \in RunIds /\ run \notin taken
  <2>1. \E r \in RunIds : r \notin taken
    BY <1>1, FreshRun
  <2> QED BY <2>1
<1>3. PutMonitorRun(run, "started", dry, 0) /\ proc' = [proc EXCEPT ![p] = s]
  BY DEF Start
<1>4. run \notin RunsIn(ledger) /\ \A q \in Processes : proc[q].run # run
  BY <1>2
<1> HIDE DEF run, taken
<1>5. s \in Sweeps /\ SweepOK(s)
  BY <1>2, LedgerAssumption DEF Sweeps, SweepOK, RunIds, Actions
<1>6. s.stage # "idle" /\ s.run = run /\ s.dry = dry
  OBVIOUS
<1> HIDE DEF s
<1>7. ProcOK' /\ proc'[p] = s /\ \A q \in Processes \ {p} : proc'[q] = proc[q]
  BY <1>1, <1>3, <1>5, ProcStep
<1>8. LedgerTyped' /\ \E k \in {0, 1} : Shifted(k, Row(run, "started", dry, 0))
  BY <1>1, <1>2, <1>3, PutRow
<1>9. PICK k \in {0, 1} : Shifted(k, Row(run, "started", dry, 0))
  BY <1>8
<1>10. HealthOK'
  BY <1>1, <1>2, <1>3, <1>8, <1>9, HealthPut
<1>11. died' = died \cap RunsIn(ledger') /\ Active(p)'
  BY <1>3, <1>6, <1>7 DEF PutMonitorRun, Active
<1>12. RowsOK'
  BY <1>1, <1>2, <1>4, <1>6, <1>7, <1>8, <1>9, <1>11, RowsOpened
<1> QED BY <1>7, <1>8, <1>10, <1>11, <1>12 DEF MInv

\* Finish and Raise: the run's last row is written, and the process is gone.
LEMMA CloseStep ==
    ASSUME MInv, NEW p \in Processes, Active(p), NEW event \in {"finished", "failed"}, NEW failed \in Nat,
           PutMonitorRun(proc[p].run, event, proc[p].dry, failed), proc' = [proc EXCEPT ![p] = Idle]
    PROVE  MInv'
<1>1. ProcOK /\ LedgerTyped /\ RowsOK /\ HealthOK /\ died \subseteq RunsIn(ledger)
  BY DEF MInv
<1>2. proc[p].run \in RunIds /\ proc[p].dry \in BOOLEAN /\ event \in {"started", "finished", "failed"}
  BY <1>1 DEF ProcOK, SweepOK, Sweeps, Active
<1>3. ProcOK' /\ proc'[p] = Idle /\ \A q \in Processes \ {p} : proc'[q] = proc[q]
  BY <1>1, IdleOK, ProcStep
<1>4. LedgerTyped' /\ \E k \in {0, 1} : Shifted(k, Row(proc[p].run, event, proc[p].dry, failed))
  BY <1>1, <1>2, PutRow
<1>5. PICK k \in {0, 1} : Shifted(k, Row(proc[p].run, event, proc[p].dry, failed))
  BY <1>4
<1>6. HealthOK'
  BY <1>1, <1>2, <1>4, <1>5, HealthPut
<1>7. died' = died \cap RunsIn(ledger') /\ ~Active(p)'
  BY <1>3 DEF PutMonitorRun, Active, Idle
<1>8. RowsOK'
  BY <1>1, <1>2, <1>3, <1>4, <1>5, <1>7, RowsClosed
<1> QED BY <1>3, <1>4, <1>6, <1>7, <1>8 DEF MInv

LEMMA FailedCount ==
    ASSUME NEW p \in Processes
    PROVE  Counts(p).failed \in Nat
<1>1. IsFiniteSet(Acted(p, {"error"}))
  BY LedgerAssumption, FS_Subset DEF Acted
<1> QED BY <1>1, FS_CardinalityType DEF Counts

LEMMA KillStep ==
    ASSUME MInv, NEW p \in Processes, Kill(p)
    PROVE  MInv'
<1>1. ProcOK /\ LedgerTyped /\ RowsOK /\ HealthOK /\ died \subseteq RunsIn(ledger)
  BY DEF MInv
<1>2. /\ Active(p) /\ died' = died \cup ({proc[p].run} \cap RunsIn(ledger))
      /\ proc' = [proc EXCEPT ![p] = Idle] /\ UNCHANGED <<ledger, success>>
  BY DEF Kill, Active, Fault
<1>3. ProcOK' /\ proc'[p] = Idle /\ \A q \in Processes \ {p} : proc'[q] = proc[q]
  BY <1>1, <1>2, IdleOK, ProcStep
<1>4. ~Active(p)'
  BY <1>3 DEF Active, Idle
<1>5. RowsOK'
  BY <1>1, <1>2, <1>3, <1>4, RowsOrphaned
<1>6. HealthOK'
  BY <1>1, <1>2, HealthSteady
<1>7. LedgerTyped' /\ died' \subseteq RunsIn(ledger')
  BY <1>1, <1>2 DEF LedgerTyped, RunsIn
<1> QED BY <1>3, <1>5, <1>6, <1>7 DEF MInv

\* A step of a sweep that keeps its run and writes no row of the ledger.
LEMMA SweepStep ==
    ASSUME MInv, NEW p \in Processes, Active(p), NEW s \in Sweeps, SweepOK(s), s.stage # "idle",
           s.run = proc[p].run, s.dry = proc[p].dry,
           proc' = [proc EXCEPT ![p] = s], UNCHANGED <<ledger, died, success>>
    PROVE  MInv'
<1>1. ProcOK /\ LedgerTyped /\ RowsOK /\ HealthOK /\ died \subseteq RunsIn(ledger)
  BY DEF MInv
<1>2. ProcOK' /\ proc'[p] = s /\ \A q \in Processes \ {p} : proc'[q] = proc[q]
  BY <1>1, ProcStep
<1>3. SameRuns
  BY <1>2 DEF SameRuns, Active
<1>4. RowsOK'
  BY <1>1, <1>3, RowsSteady
<1>5. HealthOK' /\ LedgerTyped' /\ died' \subseteq RunsIn(ledger')
  BY <1>1, HealthSteady DEF LedgerTyped, RunsIn
<1> QED BY <1>1, <1>2, <1>4, <1>5 DEF MInv

\* A plan has a depth, declared or not.
LEMMA PlanDepth ==
    ASSUME NEW v \in Vendors
    PROVE  PlanOf(v).depth \in Depths
<1>1. \A tier : /\ PlanRow(tier).depth \in Depths
                /\ PlanRow(tier) = [depth |-> PlanRow(tier).depth, cadence |-> PlanRow(tier).cadence]
  BY DEF PlanRow, Depths
<1>2. \A tier, age : PlanFor(tier, age).depth = PlanRow(tier).depth
  BY <1>1 DEF PlanFor
<1> QED BY <1>1, <1>2 DEF PlanOf

LEMMA OwnStep ==
    ASSUME MInv, NEW p \in Processes,
           \/ Rescore(p) \/ VendorFails(p)
           \/ \E v \in Vendors : Skip(p, v) \/ Take(p, v)
    PROVE  MInv'
<1> DEFINE old == proc[p]
<1>1. old \in Sweeps /\ SweepOK(old) /\ proc \in [Processes -> Sweeps]
  BY DEF MInv, ProcOK
<1>2. ASSUME NEW v \in Vendors, Skip(p, v) PROVE MInv'
  <2> DEFINE s == [old EXCEPT !.acted[v] = "skipped"]
  <2>1. proc' = [proc EXCEPT ![p] = s] /\ old.stage = "sweeping" /\ old.acted[v] = "listed"
    BY <1>1, <1>2 DEF Skip, IsNext, Todo
  <2>2. s \in Sweeps /\ s.stage = "sweeping" /\ s.run = old.run /\ s.dry = old.dry
    BY <1>1, <2>1 DEF Sweeps, Actions
  <2>3. SweepOK(s)
    BY <1>1, <2>1 DEF Sweeps, SweepOK, Actions
  <2> HIDE DEF s
  <2> QED BY <1>2, <2>1, <2>2, <2>3, SweepStep DEF Skip, Active
<1>3. ASSUME NEW v \in Vendors, Take(p, v), old.dry PROVE MInv'
  <2> DEFINE s == [old EXCEPT !.acted[v] = "would_rescore"]
  <2>1. proc' = [proc EXCEPT ![p] = s] /\ old.stage = "sweeping" /\ old.acted[v] = "listed"
    BY <1>1, <1>3 DEF Take, IsNext, Todo
  <2>2. s \in Sweeps /\ s.stage = "sweeping" /\ s.run = old.run /\ s.dry = old.dry
    BY <1>1, <2>1 DEF Sweeps, Actions
  <2>3. SweepOK(s)
    BY <1>1, <1>3, <2>1 DEF Sweeps, SweepOK, Actions
  <2> HIDE DEF s
  <2> QED BY <1>3, <2>1, <2>2, <2>3, SweepStep DEF Take, Active
<1>4. ASSUME NEW v \in Vendors, Take(p, v), ~old.dry PROVE MInv'
  <2> DEFINE s == [old EXCEPT !.stage = "scoring", !.at = v, !.depth = PlanOf(v).depth]
  <2>1. proc' = [proc EXCEPT ![p] = s] /\ old.stage = "sweeping" /\ old.acted[v] = "listed"
    BY <1>1, <1>4 DEF Take, IsNext, Todo
  <2>4. PlanOf(v).depth \in Depths
    BY PlanDepth
  <2>2. s \in Sweeps /\ s.stage = "scoring" /\ s.run = old.run /\ s.dry = old.dry
    BY <1>1, <2>1, <2>4 DEF Sweeps
  <2>3. SweepOK(s)
    BY <1>1, <1>4, <2>1 DEF Sweeps, SweepOK
  <2> HIDE DEF s
  <2> QED BY <1>4, <2>1, <2>2, <2>3, SweepStep DEF Take, Active
<1>5. ASSUME NEW action \in {"rescored", "error"}, NEW stored \in BOOLEAN,
             action = "rescored" => stored, old.stage = "scoring",
             proc' = [proc EXCEPT ![p] = Noted(p, action, stored)],
             UNCHANGED <<ledger, died, success>>
      PROVE  MInv'
  <2> DEFINE s == Noted(p, action, stored)
  <2>1. old.at \in Vendors /\ ~old.dry /\ old.acted[old.at] = "listed"
    BY <1>1, <1>5 DEF SweepOK
  <2>2. s \in Sweeps /\ s.stage = "sweeping" /\ s.run = old.run /\ s.dry = old.dry
    BY <1>1, <1>5, <2>1 DEF Sweeps, Actions, Noted
  <2>3. SweepOK(s)
    BY <1>1, <1>5, <2>1 DEF Sweeps, SweepOK, Actions, Noted
  <2>4. proc' = [proc EXCEPT ![p] = s]
    BY <1>5
  <2> HIDE DEF s
  <2> QED BY <1>5, <2>2, <2>3, <2>4, SweepStep DEF Active
<1>6. CASE Rescore(p)
  BY <1>5, <1>6 DEF Rescore
<1>7. CASE VendorFails(p)
  <2>1. PICK stored \in BOOLEAN : proc' = [proc EXCEPT ![p] = Noted(p, "error", stored)]
    BY <1>7, Zenon DEF VendorFails
  <2>. QED BY <1>5, <1>7, <2>1 DEF VendorFails
<1> QED BY <1>2, <1>3, <1>4, <1>6, <1>7

\* The rest of the world moves no sweep and writes no row.
LEMMA WorldStep ==
    ASSUME MInv, UNCHANGED <<proc, ledger, died, success>>
    PROVE  MInv'
<1>1. SameRuns
  BY DEF SameRuns, Active
<1>2. RowsOK'
  BY <1>1, RowsSteady DEF MInv
<1>3. HealthOK'
  BY HealthSteady DEF MInv
<1>4. ProcOK'
  BY DEF MInv, ProcOK, SweepOK
<1> QED BY <1>2, <1>3, <1>4 DEF MInv, LedgerTyped, RunsIn

LEMMA TickStep ==
    ASSUME MInv, Tick
    PROVE  MInv'
<1>1. ProcOK /\ LedgerTyped /\ RowsOK /\ HealthOK /\ died \subseteq RunsIn(ledger)
  BY DEF MInv
<1>2. /\ DOMAIN ledger = 1 .. Len(ledger) /\ Len(ledger) \in Nat /\ ledger \in [1 .. Len(ledger) -> Rows]
  BY <1>1, LenProperties DEF LedgerTyped
<1>3. \A n \in 0 .. Tolerance + 1 : Capped(n, Tolerance + 1) \in 0 .. Tolerance + 1
  BY LedgerAssumption DEF Capped
<1>4. ledger' = [i \in DOMAIN ledger |->
                   [ledger[i] EXCEPT !.age = IF ledger[i].event = "finished"
                                               THEN Capped(@, Tolerance + 1) ELSE @]]
  BY DEF Tick
<1>5. ledger' \in [1 .. Len(ledger) -> Rows]
  <2> SUFFICES ASSUME NEW i \in 1 .. Len(ledger) PROVE ledger'[i] \in Rows
    BY <1>2, <1>4
  <2>1. ledger[i] \in Rows
    BY <1>2
  <2> QED BY <1>2, <1>3, <1>4, <2>1 DEF Rows
<1>6. \A i \in DOMAIN ledger :
        /\ ledger'[i].run = ledger[i].run /\ ledger'[i].event = ledger[i].event
        /\ ledger'[i].dry = ledger[i].dry
        /\ ledger[i].event = "finished" => ledger'[i].age = Capped(ledger[i].age, Tolerance + 1)
  <2> SUFFICES ASSUME NEW i \in DOMAIN ledger
               PROVE  /\ ledger'[i].run = ledger[i].run /\ ledger'[i].event = ledger[i].event
                      /\ ledger'[i].dry = ledger[i].dry
                      /\ ledger[i].event = "finished" => ledger'[i].age = Capped(ledger[i].age, Tolerance + 1)
    OBVIOUS
  <2>1. ledger[i] \in Rows
    BY <1>2
  <2> QED BY <1>4, <2>1 DEF Rows
<1>7. LedgerTyped' /\ DOMAIN ledger' = DOMAIN ledger
  <2>1. ledger' \in Seq(Rows) /\ Len(ledger') = Len(ledger)
    BY <1>2, <1>5, LenProperties
  <2> QED BY <1>1, <1>2, <1>5, <2>1 DEF LedgerTyped
<1>8. ProcOK' /\ SameRuns
  <2>1. /\ proc \in [Processes -> Sweeps]
        /\ \A p \in Processes : proc[p].stage # "idle" => proc[p].elapsed < MaxSweep
        /\ proc' = [p \in Processes |->
                      [proc[p] EXCEPT !.elapsed = IF proc[p].stage = "idle" THEN 0 ELSE @ + 1]]
    BY <1>1 DEF ProcOK, Tick
  <2>2. ASSUME NEW p \in Processes
        PROVE  /\ proc'[p] \in Sweeps /\ SweepOK(proc[p])'
               /\ proc'[p].stage = proc[p].stage /\ proc'[p].run = proc[p].run /\ proc'[p].dry = proc[p].dry
    <3>1. proc[p] \in Sweeps /\ SweepOK(proc[p])
      BY <1>1 DEF ProcOK
    <3>2. /\ proc'[p] \in Sweeps /\ proc'[p].stage = proc[p].stage /\ proc'[p].run = proc[p].run
          /\ proc'[p].dry = proc[p].dry /\ proc'[p].acted = proc[p].acted
          /\ proc'[p].wrote = proc[p].wrote /\ proc'[p].at = proc[p].at
      <4> DEFINE e == IF proc[p].stage = "idle" THEN 0 ELSE proc[p].elapsed + 1
      <4>1. proc'[p] = [proc[p] EXCEPT !.elapsed = e]
        BY <2>1
      <4>2. e \in 0 .. MaxSweep
        BY <2>1, <3>1, LedgerAssumption DEF Sweeps
      <4> HIDE DEF e
      <4> QED BY <3>1, <4>1, <4>2 DEF Sweeps
    <3>3. SweepOK(proc[p])'
      BY <3>1, <3>2 DEF SweepOK
    <3> QED BY <3>2, <3>3
  <2> QED BY <2>1, <2>2 DEF ProcOK, SameRuns, Active
<1>9. RowsOK' /\ \A event : Live(event)' = Live(event)
  BY <1>1, <1>6, <1>7, <1>8, RowsSteady DEF Tick
<1>10. died' \subseteq RunsIn(ledger')
  BY <1>1, <1>6, <1>7 DEF RunsIn, Tick
<1>11. HealthOK'
  <2>1. CASE Live("finished") = {}
    <3>1. success = None
      BY <1>1, <2>1 DEF HealthOK
    <3>2. success' = None
      BY <3>1 DEF Tick
    <3> QED BY <1>9, <2>1, <3>2 DEF HealthOK
  <2>2. CASE Live("finished") # {}
    <3>1. PICK l \in DOMAIN ledger : LastSuccess(l)
      BY <1>1, <2>2 DEF HealthOK
    <3>2. success' = [success EXCEPT !.since = Capped(@, Tolerance + 1)]
      BY <3>1, LedgerAssumption DEF LastSuccess, Tick
    <3>3. /\ success' \in [since : 0 .. Tolerance + 1, broken : BOOLEAN]
          /\ success'.broken = success.broken /\ success'.since = Capped(success.since, Tolerance + 1)
      BY <1>3, <3>1, <3>2 DEF LastSuccess
    <3>4. ledger'[l].age = Capped(ledger[l].age, Tolerance + 1)
      BY <1>6, <3>1 DEF LastSuccess, Live
    <3>5. LastSuccess(l)'
      BY <1>9, <3>1, <3>3, <3>4 DEF LastSuccess
    <3> QED BY <1>7, <1>9, <2>2, <3>1, <3>5 DEF HealthOK
  <2> QED BY <2>1, <2>2
<1> QED BY <1>7, <1>8, <1>9, <1>10, <1>11 DEF MInv

LEMMA NextStep == MInv /\ [Next]_vars => MInv'
<1> SUFFICES ASSUME MInv, [Next]_vars PROVE MInv'
  OBVIOUS
<1>1. ASSUME NEW p \in Processes, NEW dry \in BOOLEAN, Start(p, dry) PROVE MInv'
  BY <1>1, StartStep
<1>2. ASSUME NEW p \in Processes, Sweep(p) PROVE MInv'
  <2>1. CASE Finish(p)
    <3>1. /\ Active(p) /\ proc' = [proc EXCEPT ![p] = Idle]
          /\ PutMonitorRun(proc[p].run, "finished", proc[p].dry, Counts(p).failed)
      BY <2>1 DEF Finish, Active
    <3> QED BY <3>1, FailedCount, CloseStep
  <2>2. CASE Rescore(p) \/ \E v \in Vendors : Skip(p, v) \/ Take(p, v)
    BY <2>2, OwnStep
  <2> QED BY <1>2, <2>1, <2>2 DEF Sweep
<1>3. ASSUME NEW p \in Processes, VendorFails(p) PROVE MInv'
  BY <1>3, OwnStep
<1>4. ASSUME NEW p \in Processes, Raise(p) PROVE MInv'
  <2>1. /\ Active(p) /\ proc' = [proc EXCEPT ![p] = Idle]
        /\ PutMonitorRun(proc[p].run, "failed", proc[p].dry, 0)
    BY <1>4 DEF Raise, Active
  <2> QED BY <2>1, CloseStep
<1>5. ASSUME NEW p \in Processes, Kill(p) PROVE MInv'
  BY <1>5, KillStep
<1>6. ASSUME NEW v \in Vendors,
             \/ ApiScore(v)
             \/ \E exposure \in Exposures[v] : Declare(v, exposure)
             \/ \E c \in CanFail[v] : Change(v, c)
      PROVE  MInv'
  BY <1>6, WorldStep DEF ApiScore, Declare, Change
<1>7. CASE Tick
  BY <1>7, TickStep
<1>8. CASE UNCHANGED vars
  BY <1>8, WorldStep DEF vars
<1> QED BY <1>1, <1>2, <1>3, <1>4, <1>5, <1>6, <1>7, <1>8 DEF Next, Processes

LEMMA InitInv == Init => MInv
<1> SUFFICES ASSUME Init PROVE MInv
  OBVIOUS
<1>1. ProcOK /\ \A p \in Processes : ~Active(p)
  BY IdleOK DEF Init, ProcOK, Active, Idle
<1>2. ledger = <<>> /\ died = {} /\ success = None
  BY DEF Init
<1>3. LedgerTyped /\ DOMAIN ledger = {}
  BY <1>2, LedgerAssumption DEF LedgerTyped
<1>4. RowsOK
  BY <1>1, <1>2, <1>3 DEF RowsOK, Live
<1>5. HealthOK
  BY <1>2, <1>3 DEF HealthOK, Live
<1> QED BY <1>1, <1>2, <1>3, <1>4, <1>5 DEF MInv

\* The invariant of the ledger and the sweeps, in every behaviour.
THEOREM MonitorInvariant == Spec => []MInv
BY InitInv, NextStep, PTL DEF Spec

-------------------------------------------------------------------------------
(* What follows from it. *)

\* However many sweeps overlap and whichever vendors fail, a sweep at its end has counted every
\* vendor once, and has stored the scores it reports and besides them at most some of those that
\* it reports as failed.
THEOREM CountsAddUpHolds == Spec => []CountsAddUp
<1>1. ASSUME MInv PROVE CountsAddUp
  <2> SUFFICES ASSUME NEW p \in Processes, proc[p].stage = "sweeping", Todo(p) = {}
               PROVE  /\ Counts(p).considered = Cardinality(Vendors)
                      /\ Counts(p).rescored + Counts(p).failed <= Counts(p).considered
                      /\ IF proc[p].dry THEN proc[p].wrote = {}
                         ELSE /\ Acted(p, {"rescored"}) \subseteq proc[p].wrote
                              /\ proc[p].wrote \subseteq Acted(p, {"rescored", "error"})
    BY DEF CountsAddUp
  <2> DEFINE done == Acted(p, {"rescored", "would_rescore"})
             bad == Acted(p, {"error"})
  <2>1. SweepOK(proc[p]) /\ proc[p] \in Sweeps
    BY <1>1 DEF MInv, ProcOK
  <2>2. \A v \in Vendors : proc[p].acted[v] \in Actions
    BY <2>1 DEF SweepOK, Todo
  <2>3. Acted(p, Actions) = Vendors
    BY <2>2 DEF Acted
  <2>4. IsFiniteSet(Vendors) /\ done \subseteq Vendors /\ bad \subseteq Vendors /\ done \cap bad = {}
    BY LedgerAssumption DEF Acted
  <2>5. IF proc[p].dry THEN proc[p].wrote = {}
        ELSE /\ Acted(p, {"rescored"}) \subseteq proc[p].wrote
             /\ proc[p].wrote \subseteq Acted(p, {"rescored", "error"})
    BY <2>1 DEF SweepOK, Acted, Sweeps
  <2>6. /\ Counts(p).considered = Cardinality(Vendors)
        /\ Counts(p).rescored = Cardinality(done) /\ Counts(p).failed = Cardinality(bad)
    BY <2>3 DEF Counts
  <2> HIDE DEF done, bad
  <2>7. /\ IsFiniteSet(done) /\ IsFiniteSet(bad) /\ IsFiniteSet(done \cup bad)
        /\ Cardinality(done \cup bad) <= Cardinality(Vendors)
    BY <2>4, FS_Subset
  <2>8. Cardinality(done \cup bad) = Cardinality(done) + Cardinality(bad) - Cardinality(done \cap bad)
    BY <2>7, FS_Union
  <2>9. Cardinality(done \cap bad) = 0
    BY <2>4, FS_EmptySet
  <2>10. /\ Cardinality(done) \in Nat /\ Cardinality(bad) \in Nat /\ Cardinality(Vendors) \in Nat
         /\ Cardinality(done \cup bad) \in Nat
    BY <2>4, <2>7, FS_CardinalityType
  <2>11. Counts(p).rescored + Counts(p).failed <= Counts(p).considered
    BY <2>6, <2>7, <2>8, <2>9, <2>10
  <2> QED BY <2>5, <2>6, <2>11
<1> QED BY <1>1, MonitorInvariant, PTL

\* The health report names a run as incomplete only when it died or still runs, and misses none
\* that died while its start can be fetched.
THEOREM OrphansExactHolds == Spec => []OrphansExact
<1>1. ASSUME MInv PROVE OrphansExact
  <2> DEFINE running == {proc[p].run : p \in {q \in Processes : proc[q].stage # "idle"}}
  <2>1. RowsOK
    BY <1>1 DEF MInv
  <2>2. ASSUME NEW run \in IncompleteRuns PROVE run \in died \cup running
    <3>1. PICK i \in Live("started") : ledger[i].run = run
      BY DEF IncompleteRuns
    <3>2. ~\E j \in Live("finished") \cup Live("failed") : ledger[j].run = run
      BY DEF IncompleteRuns
    <3> QED BY <2>1, <3>1, <3>2 DEF RowsOK, Active
  <2>3. ASSUME NEW i \in Live("started"), ledger[i].run \in died
        PROVE  ledger[i].run \in IncompleteRuns
    <3>1. ~\E j \in Live("finished") \cup Live("failed") : ledger[j].run = ledger[i].run
      BY <2>1, <2>3 DEF RowsOK, Live
    <3> QED BY <3>1 DEF IncompleteRuns
  <2> HIDE DEF running
  <2>4. IncompleteRuns \subseteq died \cup running
    BY <2>2
  <2> QED BY <2>3, <2>4 DEF OrphansExact, running
<1> QED BY <1>1, MonitorInvariant, PTL

\* The health verdict follows the last live sweep that completed: dry runs and killed runs leave it
\* alone, a failed one spoils it, and age and the window end it.
THEOREM HealthIsEarnedHolds == Spec => []HealthIsEarned
<1>1. ASSUME MInv PROVE HealthIsEarned
  <2>1. HealthOK /\ LedgerTyped
    BY <1>1 DEF MInv
  <2>2. CASE Live("finished") = {}
    BY <2>1, <2>2 DEF HealthOK, HealthIsEarned, Healthy
  <2>3. CASE Live("finished") # {}
    <3>1. PICK l \in DOMAIN ledger : LastSuccess(l)
      BY <2>1, <2>3 DEF HealthOK
    <3>2. DOMAIN ledger \subseteq Nat
      BY <2>1, LenProperties DEF LedgerTyped
    <3>3. \A i \in Live("finished") \cup Live("failed") : i \in Nat
      BY <3>2 DEF Live
    <3>4. LastRow("finished") = l
      <4>1. \A m \in Live("finished") : (\A j \in Live("finished") : j <= m) => m = l
        BY <3>1, <3>3 DEF LastSuccess
      <4> QED BY <3>1, <4>1 DEF LastSuccess, LastRow
    <3>5. success # None
      BY <3>1, LedgerAssumption DEF LastSuccess
    <3>6. \A i \in Live("failed") : i # l
      BY <3>1 DEF LastSuccess, Live
    <3>7. (\A i \in Live("failed") : i < l) <=> ~success.broken
      BY <3>1, <3>3, <3>6 DEF LastSuccess
    <3> QED BY <2>3, <3>1, <3>4, <3>5, <3>7 DEF HealthIsEarned, Healthy, LastSuccess
  <2> QED BY <2>2, <2>3
<1> QED BY <1>1, MonitorInvariant, PTL

===============================================================================
