----------------------------- MODULE RecordProofs -----------------------------
(***************************************************************************)
(* Proofs about VendorRecord, for any runs, targets, disputes and bounds:  *)
(* first what holds whoever writes, then what holds while the API process  *)
(* is the only writer (no sweep is running): the card is one run's.        *)
(***************************************************************************)
EXTENDS VendorRecord, TLAPS

-------------------------------------------------------------------------------
(* Types *)

\* The locals of a run that is entered, and of one that ends, are locals.
LEMMA NewRunType == NewRun \in Locals
BY DEF NewRun, Locals, Outcomes, Kinds

LEMMA EndedType == ASSUME TypeOK, NEW r \in Runs PROVE Ended(r) \in Locals
<1>1. run[r].since \in Nat
  BY DEF TypeOK, Locals
<1> QED BY <1>1, NewRunType DEF Ended, Locals

\* What the readers answer are rows of the tables.
LEMMA NewestType == ASSUME TypeOK PROVE Newest(profiles) \subseteq ProfileRows
BY DEF TypeOK, Newest

LEMMA AcceptedType == AcceptedTargets \in [Targets -> Kinds \cup {None}]
BY DEF AcceptedTargets, AcceptedKind, Kinds

LEMMA TypeInit == Init => TypeOK
BY NewRunType, RecordAssumption DEF Init, TypeOK, Stages

\* Each action keeps the types.
LEMMA TypeBegin ==
    ASSUME TypeOK, NEW r \in Runs, NEW vouched \in BOOLEAN, NEW crit \in Levels \cup {None},
           NEW since \in Nat, Begin(r, vouched, crit, since)
    PROVE  /\ stage' \in [Runs -> Stages] /\ run' \in [Runs -> Locals]
           /\ \A q \in Runs : stage'[q] = "scored" => run'[q].score \in ScoreRows
<1>1. [NewRun EXCEPT !.vouched = vouched, !.crit = crit, !.since = since] \in Locals
  BY NewRunType DEF Locals
<1> QED BY <1>1 DEF Begin, TypeOK, Stages

LEMMA TypeRun ==
    ASSUME TypeOK, NEW r \in Runs, RunStep(r)
    PROVE  TypeOK'
<1> USE DEF Runs
<1>0. /\ run[r] \in Locals /\ Ended(r) \in Locals /\ clock + 1 \in Nat
      /\ \A l \in Locals : run' = [run EXCEPT ![r] = l] => run' \in [Runs -> Locals]
      /\ \A s \in Stages : stage' = [stage EXCEPT ![r] = s] => stage' \in [Runs -> Stages]
  <2>1. run \in [Runs -> Locals] /\ stage \in [Runs -> Stages] /\ clock \in Nat
    BY DEF TypeOK
  <2>2. Ended(r) \in Locals
    BY EndedType
  <2> QED BY <2>1, <2>2
<1>1. CASE Collect(r)
  <2>1. PICK seen \in [Targets -> Outcomes], gate \in {"none", "ambiguous", "finding"} :
           run' = [run EXCEPT ![r].seen = seen, ![r].gate = gate]
    BY <1>1 DEF Collect
  <2>2. [run[r] EXCEPT !.seen = seen, !.gate = gate] \in Locals
    BY <1>0 DEF Locals
  <2>3. run' \in [Runs -> Locals]
    BY <2>1, <2>2 DEF TypeOK
  <2> QED BY <1>1, <2>3 DEF Collect, TypeOK, Stages, tables
<1>2. CASE BuildProfile(r)
  <2>1. run' \in [Runs -> Locals]
    <3>1. CASE UNCHANGED run
      BY <3>1 DEF TypeOK
    <3>2. ASSUME NEW crit \in CarriedForward(r) \cup (IF FailingReads THEN {run[r].crit} ELSE {}),
                 run' = [run EXCEPT ![r].profile = [crit |-> crit, at |-> clock + 1]]
          PROVE  run' \in [Runs -> Locals]
      <4>1. crit \in Levels \cup {None}
        BY <1>0, NewestType DEF CarriedForward, Locals, ProfileRows
      <4>2. [run[r] EXCEPT !.profile = [crit |-> crit, at |-> clock + 1]] \in Locals
        BY <1>0, <4>1 DEF Locals, ProfileRows
      <4> QED BY <3>2, <4>2 DEF TypeOK
    <3> QED BY <1>2, <3>1, <3>2 DEF BuildProfile
  <2> QED BY <1>2, <2>1, <1>0 DEF BuildProfile, TypeOK, Stages
<1>3. CASE LoadAccepted(r)
  <2>1. [run[r] EXCEPT !.accepted = AcceptedTargets] \in Locals
    BY <1>0, AcceptedType DEF Locals
  <2>2. run' \in [Runs -> Locals]
    BY <1>3, <2>1 DEF LoadAccepted, TypeOK
  <2> QED BY <1>3, <2>2 DEF LoadAccepted, TypeOK, Stages, tables
<1>4. CASE Score(r)
  <2>1. Normalized(r) \in SUBSET FindingRows
    BY DEF Normalized, FindingRows, Charge, Charges
  <2> DEFINE charged == {n \in Normalized(r) : n.charge # "none"}
             row == [run |-> r, at |-> clock + 1, blocked |-> Blocked(r),
                     charged |-> {<<n.target, n.charge>> : n \in charged}]
             locals == [Ended(r) EXCEPT !.crit = run[r].crit, !.profile = run[r].profile,
                                        !.score = row, !.unsaved = Normalized(r)]
  <2>2. row \in ScoreRows
    BY <1>0, <2>1 DEF ScoreRows, FindingRows, Blocked
  <2>3. locals \in Locals
    <3> HIDE DEF row
    <3> QED BY <1>0, <2>1, <2>2 DEF Locals
  <2>4. run' = [run EXCEPT ![r] = locals]
    BY <1>4 DEF Score
  <2>5. run' \in [Runs -> Locals]
    <3> HIDE DEF locals
    <3> QED BY <1>0, <2>3, <2>4
  <2>6. run'[r].score = row /\ \A q \in Runs \ {r} : run'[q] = run[q] /\ stage'[q] = stage[q]
    <3>1. locals.score = row
      <4> HIDE DEF row
      <4> QED BY <1>0 DEF Locals
    <3> HIDE DEF locals, row
    <3> QED BY <1>4, <2>4, <3>1 DEF Score, TypeOK
  <2>7. \A q \in Runs : stage'[q] = "scored" => run'[q].score \in ScoreRows
    <3> HIDE DEF locals, row
    <3> QED BY <2>2, <2>6 DEF TypeOK
  <2>8. stage' \in [Runs -> Stages] /\ clock' \in Nat
    BY <1>4, <1>0 DEF Score, TypeOK, Stages
  <2> HIDE DEF locals, row
  <2> QED BY <1>4, <2>5, <2>7, <2>8 DEF Score, TypeOK
<1>5. CASE PutScore(r)
  <2>1. [run[r] EXCEPT !.score = None] \in Locals
    BY <1>0 DEF Locals
  <2>2. run' \in [Runs -> Locals]
    BY <1>5, <2>1 DEF PutScore, TypeOK
  <2>3. scores' \in Seq(ScoreRows)
    <3>1. run[r].score \in ScoreRows
      BY <1>5, <1>0 DEF PutScore, TypeOK, Locals
    <3> QED BY <1>5, <3>1 DEF PutScore, TypeOK
  <2> QED BY <1>5, <2>2, <2>3, <1>0 DEF PutScore, TypeOK, Stages
<1>6. CASE PutFinding(r)
  <2>1. PICK row \in run[r].unsaved : /\ findings' = Append(findings, row)
                                      /\ run' = [run EXCEPT ![r].unsaved = @ \ {row}]
    BY <1>6 DEF PutFinding
  <2>2. row \in FindingRows /\ [run[r] EXCEPT !.unsaved = @ \ {row}] \in Locals
    BY <1>0 DEF Locals
  <2>3. run' \in [Runs -> Locals] /\ findings' \in Seq(FindingRows)
    BY <2>1, <2>2 DEF TypeOK
  <2> QED BY <1>6, <2>3 DEF PutFinding, TypeOK
<1>7. CASE PutProfile(r)
  <2>1. run' \in [Runs -> Locals]
    BY <1>7, <1>0 DEF PutProfile
  <2>2. profiles' \in Seq(ProfileRows) /\ declared' \in Levels \cup {None}
    <3>1. run[r].profile \in ProfileRows \cup {None} /\ run[r].crit \in Levels \cup {None}
      BY <1>0 DEF Locals
    <3>2. CASE run[r].profile = None
      BY <1>7, <3>2 DEF PutProfile, TypeOK
    <3>3. CASE run[r].profile # None
      <4>1. profiles' \in Seq(ProfileRows)
        <5>1. profiles \in Seq(ProfileRows)
          BY DEF TypeOK
        <5>2. profiles' = Append(profiles, run[r].profile) /\ run[r].profile \in ProfileRows
          BY <1>7, <3>1, <3>3 DEF PutProfile
        <5> QED BY <5>1, <5>2
      <4>2. declared' \in Levels \cup {None}
        BY <1>7, <3>1, <3>3 DEF PutProfile, TypeOK
      <4> QED BY <4>1, <4>2
    <3> QED BY <3>2, <3>3
  <2> QED BY <1>7, <2>1, <2>2 DEF PutProfile, TypeOK, Stages
<1>8. CASE Abort(r)
  BY <1>8, <1>0 DEF Abort, TypeOK, Stages, tables
<1> QED BY <1>1, <1>2, <1>3, <1>4, <1>5, <1>6, <1>7, <1>8 DEF RunStep

\* The handlers' actions keep the types.
LEMMA TypeHandlers ==
    ASSUME TypeOK,
           \/ \E d \in Disputes, t \in Targets, kind \in Kinds : SubmitDispute(d, t, kind)
           \/ \E i \in DOMAIN disputes : Reject(i) \/ Accept(i)
           \/ \E crit \in Levels \cup {None} : Declare(crit)
           \/ SetSize
           \/ StoreCopy
    PROVE  TypeOK'
<1>0. Len(disputes) \in Nat /\ clock + 1 \in Nat /\ (copies < MaxCopies => copies + 1 \in 0 .. MaxCopies)
  BY RecordAssumption DEF TypeOK
<1>1. ASSUME NEW d \in Disputes, NEW t \in Targets, NEW kind \in Kinds, SubmitDispute(d, t, kind)
      PROVE  TypeOK'
  <2>1. disputes' \in Seq(DisputeRows)
    BY <1>1 DEF SubmitDispute, PutDispute, TypeOK, DisputeRows, Events
  <2> QED BY <1>1, <2>1 DEF SubmitDispute, TypeOK
<1>2. ASSUME NEW i \in DOMAIN disputes, NEW event \in {"accepted", "rejected"}, Decide(i, event)
      PROVE  disputes' \in Seq(DisputeRows) /\ Len(disputes') \in Nat
  <2>1. disputes[i] \in DisputeRows
    BY DEF TypeOK
  <2>2. [id |-> disputes[i].id, target |-> disputes[i].target, kind |-> disputes[i].kind,
         event |-> event] \in DisputeRows
    BY <2>1 DEF DisputeRows, Events
  <2> QED BY <1>2, <2>2 DEF Decide, PutDispute, TypeOK
<1>3. ASSUME NEW i \in DOMAIN disputes, Reject(i)
      PROVE  TypeOK'
  BY <1>2, <1>3 DEF Reject, TypeOK
<1>4. ASSUME NEW i \in DOMAIN disputes, Accept(i)
      PROVE  TypeOK'
  <2>1. disputes' \in Seq(DisputeRows) /\ Len(disputes') \in Nat
    BY <1>2, <1>4 DEF Accept
  <2>2. /\ stage' \in [Runs -> Stages] /\ run' \in [Runs -> Locals]
        /\ \A q \in Runs : stage'[q] = "scored" => run'[q].score \in ScoreRows
    <3>1. CASE UNCHANGED <<stage, run>>
      BY <3>1 DEF TypeOK
    <3>2. ASSUME NEW r \in ApiRuns, Begin(r, TRUE, None, Len(disputes'))
          PROVE  <2>2!:
      BY <2>1, <3>2, TypeBegin DEF Runs
    <3> QED BY <1>4, <3>1, <3>2 DEF Accept
  <2> QED BY <1>4, <2>1, <2>2 DEF Accept, TypeOK
<1>5. ASSUME NEW crit \in Levels \cup {None}, Declare(crit)
      PROVE  TypeOK'
  <2>1. copying' \in [row : ProfileRows, declares : BOOLEAN]
    BY <1>0, <1>5 DEF Declare, ProfileRows
  <2> QED BY <1>0, <1>5, <2>1 DEF Declare, TypeOK
<1>6. CASE SetSize
  <2>1. PICK row \in Newest(profiles) :
           copying' = [row |-> [crit |-> row.crit, at |-> clock + 1], declares |-> FALSE]
    BY <1>6 DEF SetSize
  <2>2. copying' \in [row : ProfileRows, declares : BOOLEAN]
    BY <1>0, <2>1, NewestType DEF ProfileRows
  <2> QED BY <1>0, <1>6, <2>2 DEF SetSize, TypeOK
<1>7. CASE StoreCopy
  <2>1. copying \in [row : ProfileRows, declares : BOOLEAN]
    BY <1>7 DEF StoreCopy, TypeOK
  <2>2. copying.row \in ProfileRows /\ copying.row.crit \in Levels \cup {None}
    BY <2>1 DEF ProfileRows
  <2>3. profiles' \in Seq(ProfileRows)
    <3>1. profiles \in Seq(ProfileRows)
      BY DEF TypeOK
    <3>2. profiles' = Append(profiles, copying.row) \/ profiles' = profiles
      BY <1>7 DEF StoreCopy
    <3> QED BY <2>2, <3>1, <3>2
  <2>4. declared' \in Levels \cup {None}
    BY <1>7, <2>2 DEF StoreCopy, TypeOK
  <2> QED BY <1>7, <2>3, <2>4 DEF StoreCopy, TypeOK
<1> QED BY <1>1, <1>3, <1>4, <1>5, <1>6, <1>7

LEMMA TypeStep == TypeOK /\ [Next]_vars => TypeOK'
<1> SUFFICES ASSUME TypeOK, [Next]_vars PROVE TypeOK'
  OBVIOUS
<1>0. Len(disputes) \in Nat
  BY DEF TypeOK
<1>1. ASSUME NEW r \in ApiRuns, NEW vouched \in BOOLEAN, NEW crit \in Levels \cup {None},
             RequestScore(r, vouched, crit)
      PROVE  TypeOK'
  BY <1>0, <1>1, TypeBegin DEF RequestScore, TypeOK, Runs, tables
<1>2. ASSUME NEW r \in SweepRuns, SweepScore(r)
      PROVE  TypeOK'
  BY <1>0, <1>2, TypeBegin DEF SweepScore, TypeOK, Runs, tables
<1>3. CASE UNCHANGED vars
  BY <1>3 DEF TypeOK, vars, tables
<1> QED BY <1>1, <1>2, <1>3, TypeRun, TypeHandlers DEF Next

\* Every table, every run's locals and the locks keep to their types, and a run that is
\* about to store a score has one.
THEOREM TypeCorrect == Spec => []TypeOK
BY TypeInit, TypeStep, PTL DEF Spec
-------------------------------------------------------------------------------
(* Findings, scores and decisions *)

\* Only the run that acts moves; what the others hold stays.
LEMMA OthersStay ==
    ASSUME TypeOK, NEW r \in Runs, RunStep(r), NEW q \in Runs, q # r
    PROVE  run'[q] = run[q] /\ stage'[q] = stage[q]
BY DEF TypeOK, RunStep, Collect, BuildProfile, LoadAccepted, Score, PutScore, PutFinding,
       PutProfile, Abort

\* A run that is entered moves alone, and starts with fresh locals.
LEMMA BeginMoves ==
    ASSUME TypeOK, NEW r \in Runs, NEW vouched, NEW crit, NEW since, Begin(r, vouched, crit, since)
    PROVE  /\ \A q \in Runs \ {r} : run'[q] = run[q] /\ stage'[q] = stage[q]
           /\ stage[r] = "idle" /\ stage'[r] = "collecting"
           /\ run'[r].unsaved = {} /\ run'[r].since = since
<1>1. run \in [Runs -> Locals] /\ stage \in [Runs -> Stages]
  BY DEF TypeOK
<1>2. run'[r] = [NewRun EXCEPT !.vouched = vouched, !.crit = crit, !.since = since]
  BY <1>1 DEF Begin
<1> QED BY <1>1, <1>2 DEF Begin, NewRun

\* Rows are only ever appended: a score by a run at "scored", a finding by a run that is
\* publishing it; no other action touches the two tables.
LEMMA RowStep ==
    ASSUME TypeOK, NEW r \in Runs, RunStep(r)
    PROVE  /\ \/ scores' = scores
              \/ stage[r] = "scored" /\ PutScore(r) /\ findings' = findings
           /\ \/ findings' = findings
              \/ stage[r] = "publishing" /\ PutFinding(r) /\ scores' = scores
BY DEF RunStep, Collect, BuildProfile, LoadAccepted, Score, PutScore, PutFinding, PutProfile,
       Abort, tables

\* What the engine hands to the stores agrees with the score it hands them.
LEMMA ScoreAgrees ==
    ASSUME TypeOK, NEW r \in Runs, Score(r)
    PROVE  /\ run'[r].unsaved = Normalized(r)
           /\ run'[r].score.run = r
           /\ \A f \in Normalized(r) : Agrees(f, run'[r].score)
<1> DEFINE charged == {n \in Normalized(r) : n.charge # "none"}
           row == [run |-> r, at |-> clock + 1, blocked |-> Blocked(r),
                   charged |-> {<<n.target, n.charge>> : n \in charged}]
           locals == [Ended(r) EXCEPT !.crit = run[r].crit, !.profile = run[r].profile,
                                      !.score = row, !.unsaved = Normalized(r)]
<1>1. run' = [run EXCEPT ![r] = locals] /\ run \in [Runs -> Locals]
  BY DEF Score, TypeOK
<1>2. locals.score = row /\ locals.unsaved = Normalized(r)
  <2>1. Ended(r) \in Locals
    BY EndedType
  <2> HIDE DEF row
  <2> QED BY <2>1 DEF Locals
<1>3. run'[r] = locals
  <2> HIDE DEF locals
  <2> QED BY <1>1
<1>4. ASSUME NEW f \in Normalized(r)
      PROVE  Agrees(f, row)
  <2>1. f.run = r
    BY DEF Normalized
  <2>2. f.charge # "none" => <<f.target, f.charge>> \in row.charged
    OBVIOUS
  <2>3. <<f.target, f.charge>> \in row.charged => f.charge # "none"
    OBVIOUS
  <2> QED BY <2>1, <2>2, <2>3 DEF Agrees
<1>5. row.run = r
  OBVIOUS
<1> HIDE DEF row, locals
<1> QED BY <1>2, <1>3, <1>4, <1>5

\* A run's own step keeps its rows in order.
LEMMA OwnRows ==
    ASSUME TypeOK, NEW r \in Runs, RunRows(r), RunStep(r)
    PROVE  RunRows(r)'
<1>0. run \in [Runs -> Locals] /\ stage \in [Runs -> Stages]
  BY DEF TypeOK
<1>1. ASSUME stage[r] \in Early \/ stage'[r] \in {"done", "dead"},
             stage'[r] \notin {"scored", "publishing"},
             stage'[r] \in Early => stage[r] \in Early,
             run'[r].unsaved = {}, UNCHANGED <<scores, findings>>
      PROVE  RunRows(r)'
  BY <1>1 DEF RunRows, Early
<1>2. CASE Collect(r)
  <2>1. run'[r].unsaved = run[r].unsaved
    BY <1>0, <1>2 DEF Collect, Locals
  <2> QED BY <1>0, <1>1, <1>2, <2>1 DEF Collect, RunRows, Early, tables
<1>3. CASE BuildProfile(r)
  <2>1. run'[r].unsaved = run[r].unsaved
    BY <1>0, <1>3 DEF BuildProfile, Locals
  <2> QED BY <1>0, <1>1, <1>3, <2>1 DEF BuildProfile, RunRows, Early
<1>4. CASE LoadAccepted(r)
  <2>1. run'[r].unsaved = run[r].unsaved
    BY <1>0, <1>4 DEF LoadAccepted, Locals
  <2> QED BY <1>0, <1>1, <1>4, <2>1 DEF LoadAccepted, RunRows, Early, tables
<1>5. CASE Score(r)
  <2>1. /\ \A f \in Normalized(r) : f.run = r
        /\ \A f, g \in Normalized(r) : f.target = g.target => f = g
    BY DEF Normalized
  <2>2. stage[r] = "advised" /\ stage'[r] = "scored" /\ UNCHANGED <<scores, findings>>
    BY <1>0, <1>5 DEF Score
  <2> QED BY <1>5, <2>1, <2>2, ScoreAgrees DEF RunRows, Early, Agrees
<1>6. CASE PutScore(r)
  <2>1. /\ run'[r].unsaved = run[r].unsaved /\ findings' = findings
        /\ stage[r] = "scored" /\ stage'[r] = "publishing"
    BY <1>0, <1>6 DEF PutScore, Locals
  <2>2. scores \in Seq(ScoreRows) /\ scores' = Append(scores, run[r].score)
    BY <1>6 DEF PutScore, TypeOK
  <2>3. Len(scores) + 1 \in DOMAIN scores' /\ scores'[Len(scores) + 1] = run[r].score
    BY <2>2
  <2>4. \A f \in run[r].unsaved : \E k \in DOMAIN scores' : Agrees(f, scores'[k])
    BY <2>1, <2>3 DEF RunRows
  <2> QED BY <2>1, <2>4 DEF RunRows, Early, Agrees
<1>7. CASE PutFinding(r)
  <2>1. PICK row \in run[r].unsaved : /\ findings' = Append(findings, row)
                                      /\ run' = [run EXCEPT ![r].unsaved = @ \ {row}]
    BY <1>7 DEF PutFinding
  <2>2. /\ run'[r].unsaved = run[r].unsaved \ {row} /\ scores' = scores
        /\ stage[r] = "publishing" /\ stage'[r] = "publishing"
    BY <1>0, <1>7, <2>1 DEF PutFinding, Locals
  <2>3. ASSUME NEW f \in run[r].unsaved \ {row}, NEW i \in DOMAIN findings',
               findings'[i].run = r
        PROVE  findings'[i].target # f.target
    <3>1. f.target # row.target
      BY <2>2 DEF RunRows
    <3>2. CASE i \in DOMAIN findings
      <4>1. findings'[i] = findings[i]
        BY <2>1, <3>2 DEF TypeOK
      <4> QED BY <2>2, <2>3, <3>2, <4>1 DEF RunRows
    <3>3. CASE i \notin DOMAIN findings
      <4>1. findings \in Seq(FindingRows)
        BY DEF TypeOK
      <4>2. findings'[i] = row
        <5> HIDE DEF TypeOK
        <5> QED BY <2>1, <2>3, <3>3, <4>1
      <4> QED BY <3>1, <4>2
    <3> QED BY <3>2, <3>3
  <2> QED BY <2>2, <2>3 DEF RunRows, Early, Agrees
<1>8. CASE PutProfile(r)
  <2>1. run'[r].unsaved = {}
    BY <1>0, <1>8 DEF PutProfile, Ended, NewRun
  <2> QED BY <1>0, <1>1, <1>8, <2>1 DEF PutProfile, Early
<1>9. CASE Abort(r)
  <2>1. run'[r].unsaved = {}
    BY <1>0, <1>9 DEF Abort, Ended, NewRun
  <2> QED BY <1>0, <1>1, <1>9, <2>1 DEF Abort, Early, tables
<1> QED BY <1>2, <1>3, <1>4, <1>5, <1>6, <1>7, <1>8, <1>9 DEF RunStep
\* A run's rows stay in order while another run steps.
LEMMA OtherRows ==
    ASSUME TypeOK, NEW r \in Runs, RunRows(r), RunStep(r), NEW q \in Runs, q # r, RunRows(q)
    PROVE  RunRows(q)'
<1>1. run'[q] = run[q] /\ stage'[q] = stage[q]
  BY OthersStay
<1>2. CASE scores' = scores /\ findings' = findings
  BY <1>1, <1>2 DEF RunRows, Agrees
<1>3. CASE stage[r] = "scored" /\ PutScore(r) /\ findings' = findings
  <2>1. /\ scores \in Seq(ScoreRows) /\ scores' = Append(scores, run[r].score)
        /\ run[r].score.run = r
    BY <1>3 DEF PutScore, TypeOK, RunRows
  <2>2. /\ \A k \in DOMAIN scores : k \in DOMAIN scores' /\ scores'[k] = scores[k]
        /\ \A k \in DOMAIN scores' : k \in DOMAIN scores \/ scores'[k].run = r
    BY <2>1
  <2>3. \A f : (\E k \in DOMAIN scores : Agrees(f, scores[k]))
                 => \E k \in DOMAIN scores' : Agrees(f, scores'[k])
    BY <2>2
  <2> QED BY <1>1, <1>3, <2>2, <2>3 DEF RunRows, Agrees
<1>4. CASE stage[r] = "publishing" /\ PutFinding(r) /\ scores' = scores
  <2>1. PICK row \in run[r].unsaved : findings' = Append(findings, row)
    BY <1>4 DEF PutFinding
  <2>2. row.run = r /\ findings \in Seq(FindingRows)
    BY DEF RunRows, TypeOK
  <2>3. \A i \in DOMAIN findings' : \/ i \in DOMAIN findings /\ findings'[i] = findings[i]
                                    \/ findings'[i].run = r
    BY <2>1, <2>2
  <2> QED BY <1>1, <1>4, <2>3 DEF RunRows, Agrees
<1> QED BY <1>2, <1>3, <1>4, RowStep

\* Every run's rows stay in order whatever happens.
LEMMA RowsStep ==
    ASSUME TypeOK, \A r \in Runs : RunRows(r), [Next]_vars
    PROVE  \A r \in Runs : RunRows(r)'
<1> SUFFICES ASSUME NEW q \in Runs PROVE RunRows(q)'
  OBVIOUS
<1>1. ASSUME NEW r \in Runs, RunStep(r)
      PROVE  RunRows(q)'
  BY <1>1, OwnRows, OtherRows
<1>2. ASSUME NEW r \in Runs, NEW vouched, NEW crit, NEW since, Begin(r, vouched, crit, since),
             UNCHANGED <<scores, findings>>
      PROVE  RunRows(q)'
  BY <1>2, BeginMoves DEF RunRows, Early, Agrees
<1>3. ASSUME UNCHANGED <<stage, run, scores, findings>>
      PROVE  RunRows(q)'
  BY <1>3 DEF RunRows, Agrees
<1>4. ASSUME NEW i \in DOMAIN disputes, Accept(i)
      PROVE  RunRows(q)'
  BY <1>2, <1>3, <1>4 DEF Accept, Runs
<1> QED BY <1>1, <1>2, <1>3, <1>4 DEF Next, Runs, RequestScore, SweepScore, SubmitDispute,
            Reject, Declare, SetSize, StoreCopy, vars, tables

\* FindingsBacked survives the steps of the runs.
LEMMA BackedByRun ==
    ASSUME TypeOK, FindingsBacked, NEW r \in Runs, RunRows(r), RunStep(r)
    PROVE  FindingsBacked'
<1>1. CASE scores' = scores /\ findings' = findings
  BY <1>1 DEF FindingsBacked
<1>2. CASE PutScore(r) /\ findings' = findings
  <2>1. scores \in Seq(ScoreRows) /\ scores' = Append(scores, run[r].score)
    BY <1>2 DEF PutScore, TypeOK
  <2>2. \A k \in DOMAIN scores : k \in DOMAIN scores' /\ scores'[k] = scores[k]
    BY <2>1
  <2> HIDE DEF PutScore
  <2> QED BY <1>2, <2>2 DEF FindingsBacked
<1>3. CASE stage[r] = "publishing" /\ PutFinding(r) /\ scores' = scores
  <2>1. PICK row \in run[r].unsaved : findings' = Append(findings, row)
    BY <1>3 DEF PutFinding
  <2>2. findings \in Seq(FindingRows) /\ Len(findings) \in Nat
    BY DEF TypeOK
  <2>3. /\ row.run = r
        /\ \E k \in DOMAIN scores : Agrees(row, scores[k])
        /\ \A i \in DOMAIN findings : ~(findings[i].run = r /\ findings[i].target = row.target)
    BY <1>3 DEF RunRows
  <2>4. /\ DOMAIN findings' = DOMAIN findings \cup {Len(findings) + 1}
        /\ findings'[Len(findings) + 1] = row
        /\ \A i \in DOMAIN findings : findings'[i] = findings[i]
    BY <2>1, <2>2
  <2>5. ASSUME NEW i \in DOMAIN findings'
        PROVE  \E k \in DOMAIN scores' : Agrees(findings'[i], scores'[k])
    BY <1>3, <2>3, <2>4 DEF FindingsBacked, Agrees
  <2>6. ASSUME NEW i \in DOMAIN findings', NEW k \in DOMAIN findings',
               findings'[k].run = findings'[i].run, findings'[k].target = findings'[i].target
        PROVE  k = i
    BY <2>3, <2>4, <2>6 DEF FindingsBacked
  <2> QED BY <2>5, <2>6 DEF FindingsBacked, Agrees
<1> QED BY <1>1, <1>2, <1>3, RowStep

LEMMA BackedStep ==
    ASSUME TypeOK, FindingsBacked, \A r \in Runs : RunRows(r), [Next]_vars
    PROVE  FindingsBacked'
<1>1. CASE \E r \in Runs : RunStep(r)
  BY <1>1, BackedByRun
<1>2. CASE UNCHANGED <<scores, findings>>
  BY <1>2 DEF FindingsBacked
<1> QED BY <1>1, <1>2 DEF Next, RequestScore, SweepScore, SubmitDispute, Reject, Accept,
            Declare, SetSize, StoreCopy, vars, tables

\* The dispute log only grows, by a first event of a dispute or by a decision on it.
LEMMA LogStep ==
    ASSUME TypeOK, [Next]_vars
    PROVE  \/ disputes' = disputes
           \/ \E d \in Disputes, t \in Targets, kind \in Kinds :
                 At(d) = {} /\ PutDispute(d, t, kind, "submitted")
           \/ \E i \in DOMAIN disputes, event \in {"accepted", "rejected"} : Decide(i, event)
BY DEF Next, RunStep, Collect, BuildProfile, LoadAccepted, Score, PutScore, PutFinding,
       PutProfile, Abort, RequestScore, SweepScore, SubmitDispute, Reject, Accept, Declare,
       SetSize, StoreCopy, vars, tables

LEMMA FinalStep ==
    ASSUME TypeOK, AdjudicationFinal, [Next]_vars
    PROVE  AdjudicationFinal'
<1>0. disputes \in Seq(DisputeRows) /\ Len(disputes) \in Nat
  BY DEF TypeOK
<1>1. CASE disputes' = disputes
  BY <1>1 DEF AdjudicationFinal
<1>2. ASSUME NEW d, NEW t, NEW kind, At(d) = {}, PutDispute(d, t, kind, "submitted")
      PROVE  AdjudicationFinal'
  <2>1. /\ DOMAIN disputes' = 1 .. Len(disputes) + 1
        /\ \A i \in DOMAIN disputes : disputes'[i] = disputes[i] /\ disputes[i].id # d
        /\ disputes'[Len(disputes) + 1].id = d
    BY <1>0, <1>2 DEF PutDispute, At
  <2> QED BY <1>0, <2>1 DEF AdjudicationFinal
<1>3. ASSUME NEW n \in DOMAIN disputes, NEW event \in {"accepted", "rejected"}, Decide(n, event)
      PROVE  AdjudicationFinal'
  <2>1. disputes[n].event = "submitted" /\ \A k \in DOMAIN disputes : disputes[k].id = disputes[n].id => k <= n
    BY <1>3 DEF Decide, IsLatest, At
  <2>2. \A k \in DOMAIN disputes : disputes[k].id = disputes[n].id => k = n
    BY <1>0, <2>1 DEF AdjudicationFinal
  <2> DEFINE row == [id |-> disputes[n].id, target |-> disputes[n].target,
                     kind |-> disputes[n].kind, event |-> event]
  <2>3. disputes' = Append(disputes, row)
    BY <1>3 DEF Decide, PutDispute
  <2>4. /\ DOMAIN disputes' = 1 .. Len(disputes) + 1
        /\ \A i \in DOMAIN disputes : disputes'[i] = disputes[i]
        /\ disputes'[Len(disputes) + 1] = row
    <3> HIDE DEF row
    <3> QED BY <1>0, <2>3
  <2>5. ASSUME NEW i \in DOMAIN disputes', NEW k \in DOMAIN disputes', i < k,
               disputes'[i].id = disputes'[k].id
        PROVE  /\ disputes'[i].event = "submitted" /\ disputes'[k].event # "submitted"
               /\ disputes'[i].target = disputes'[k].target
               /\ disputes'[i].kind = disputes'[k].kind
    <3>1. CASE k \in DOMAIN disputes
      BY <1>0, <2>4, <2>5, <3>1 DEF AdjudicationFinal
    <3>2. CASE k = Len(disputes) + 1
      <4>1. i = n
        BY <1>0, <2>2, <2>4, <2>5, <3>2
      <4> QED BY <2>1, <2>4, <3>2, <4>1
    <3> QED BY <1>0, <2>4, <3>1, <3>2
  <2> QED BY <2>5 DEF AdjudicationFinal
<1> QED BY <1>1, <1>2, <1>3, LogStep

LEMMA RecordInvInit == Init => RecordInv
<1> SUFFICES ASSUME Init PROVE RecordInv
  OBVIOUS
<1>1. TypeOK
  BY TypeInit
<1>2. FindingsBacked /\ AdjudicationFinal
  BY DEF Init, FindingsBacked, AdjudicationFinal
<1>3. \A r \in Runs : RunRows(r)
  BY DEF Init, RunRows, NewRun, Early
<1> QED BY <1>1, <1>2, <1>3 DEF RecordInv

LEMMA RecordInvStep == RecordInv /\ [Next]_vars => RecordInv'
BY TypeStep, RowsStep, BackedStep, FinalStep DEF RecordInv

\* The inductive invariant of the vendor record.
THEOREM RecordCorrect == Spec => []RecordInv
BY RecordInvInit, RecordInvStep, PTL DEF Spec

\* A finding is stored only behind the score it belongs to, agrees with it, and is stored once.
THEOREM FindingsBackedHolds == Spec => []FindingsBacked
<1>1. RecordInv => FindingsBacked
  BY DEF RecordInv
<1> QED BY <1>1, RecordCorrect, PTL

\* A dispute is decided at most once, about what was submitted.
THEOREM AdjudicationFinalHolds == Spec => []AdjudicationFinal
<1>1. RecordInv => AdjudicationFinal
  BY DEF RecordInv
<1> QED BY <1>1, RecordCorrect, PTL
-------------------------------------------------------------------------------
(* Accepted refutes *)

\* The log of disputes keeps what it has.
LEMMA LogGrows ==
    ASSUME TypeOK, [Next]_vars
    PROVE  /\ Len(disputes) \in Nat /\ Len(disputes') \in Nat /\ Len(disputes) <= Len(disputes')
           /\ \A i \in 1 .. Len(disputes) : disputes'[i] = disputes[i]
<1>1. disputes \in Seq(DisputeRows)
  BY DEF TypeOK
<1>2. disputes' = disputes \/ \E e : disputes' = Append(disputes, e)
  BY LogStep DEF PutDispute, Decide
<1> QED BY <1>1, <1>2

\* An accepted event is the last of its dispute, so its target is refuted.
LEMMA AcceptedCounts ==
    ASSUME TypeOK, AdjudicationFinal, NEW i \in DOMAIN disputes, disputes[i].event = "accepted"
    PROVE  AcceptedTargets[disputes[i].target] # None
<1>1. disputes[i] \in DisputeRows /\ DOMAIN disputes \subseteq Nat
  BY DEF TypeOK
<1>2. IsLatest(i)
  BY <1>1 DEF IsLatest, At, AdjudicationFinal
<1>3. i \in AcceptedOn(disputes[i].target) /\ disputes[i].target \in Targets
  BY <1>1, <1>2 DEF AcceptedOn, DisputeRows
<1>4. None \notin Kinds
  BY RecordAssumption
<1> QED BY <1>3, <1>4 DEF AcceptedTargets, AcceptedKind, Kinds

\* The engine does not charge a refuted target in full.
LEMMA RefutedNotFull ==
    ASSUME TypeOK, NEW r \in Runs, Score(r), NEW t \in Targets, run[r].accepted[t] # None
    PROVE  <<t, "full">> \notin run'[r].score.charged
<1>1. run[r].accepted[t] \in Kinds
  BY DEF TypeOK, Locals
<1>2. Charge(r, t) # "full"
  BY <1>1 DEF Charge, Kinds
<1> DEFINE charged == {n \in Normalized(r) : n.charge # "none"}
           row == [run |-> r, at |-> clock + 1, blocked |-> Blocked(r),
                   charged |-> {<<n.target, n.charge>> : n \in charged}]
           locals == [Ended(r) EXCEPT !.crit = run[r].crit, !.profile = run[r].profile,
                                      !.score = row, !.unsaved = Normalized(r)]
<1>3. run' = [run EXCEPT ![r] = locals] /\ run \in [Runs -> Locals]
  BY DEF Score, TypeOK
<1>4. locals.score = row
  <2>1. Ended(r) \in Locals
    BY EndedType
  <2> HIDE DEF row
  <2> QED BY <2>1 DEF Locals
<1>5. run'[r].score = row
  <2> HIDE DEF locals
  <2> QED BY <1>3, <1>4
<1>6. <<t, "full">> \notin row.charged
  BY <1>2 DEF Normalized
<1> HIDE DEF row
<1> QED BY <1>5, <1>6

\* A run's own step keeps what it has to honour.
LEMMA OwnHonours ==
    ASSUME RecordInv, NEW r \in Runs, Honours(r), RunStep(r)
    PROVE  Honours(r)' /\ run'[r].since = run[r].since
<1> USE DEF RecordInv
<1>0. run \in [Runs -> Locals] /\ stage \in [Runs -> Stages] /\ run[r] \in Locals
  BY DEF TypeOK
<1>1. disputes' = disputes /\ disputes \in Seq(DisputeRows) /\ run[r].since \in Nat
  BY <1>0 DEF TypeOK, Locals, RunStep, Collect, BuildProfile, LoadAccepted, Score, PutScore, PutFinding, PutProfile,
         Abort, tables
<1>2. ASSUME run'[r].since = run[r].since, stage'[r] \notin {"advised", "scored"}
      PROVE  Honours(r)'
  BY <1>1, <1>2 DEF Honours
<1>3. CASE Collect(r) \/ BuildProfile(r)
  <2>1. Collect(r) => run'[r].since = run[r].since /\ stage'[r] = "collected"
    BY <1>0 DEF Collect, Locals
  <2>2. BuildProfile(r) => run'[r].since = run[r].since /\ stage'[r] = "built"
    BY <1>0 DEF BuildProfile, Locals
  <2> QED BY <1>2, <1>3, <2>1, <2>2
<1>4. CASE LoadAccepted(r)
  <2>1. /\ run'[r].since = run[r].since /\ run'[r].accepted = AcceptedTargets
        /\ stage'[r] = "advised"
    BY <1>0, <1>4 DEF LoadAccepted, Locals
  <2> QED BY <1>1, <2>1, AcceptedCounts DEF Honours
<1>5. CASE Score(r)
  <2>1. stage[r] = "advised" /\ stage'[r] = "scored"
    BY <1>0, <1>5 DEF Score
  <2>2. run'[r].since = run[r].since
    <3>1. Ended(r) \in Locals /\ Ended(r).since = run[r].since
      BY <1>0, EndedType, NewRunType DEF Ended, Locals
    <3> QED BY <1>0, <1>5, <3>1 DEF Score, Locals
  <2>3. ASSUME NEW i \in 1 .. run[r].since, disputes[i].event = "accepted"
        PROVE  <<disputes[i].target, "full">> \notin run'[r].score.charged
    <3>1. disputes[i].target \in Targets
      <4>1. i \in DOMAIN disputes
        BY <1>1 DEF Honours
      <4>2. disputes[i] \in DisputeRows
        BY <1>1, <4>1
      <4> QED BY <4>2 DEF DisputeRows
    <3> QED BY <1>5, <2>1, <2>3, <3>1, RefutedNotFull DEF Honours
  <2> QED BY <1>1, <2>1, <2>2, <2>3 DEF Honours
<1>6. CASE PutScore(r) \/ PutFinding(r)
  BY <1>0, <1>2, <1>6 DEF PutScore, PutFinding, Locals
<1>7. CASE PutProfile(r) \/ Abort(r)
  <2>1. Ended(r).since = run[r].since
    BY NewRunType DEF Ended, Locals
  <2> QED BY <1>0, <1>2, <1>7, <2>1 DEF PutProfile, Abort
<1> QED BY <1>3, <1>4, <1>5, <1>6, <1>7 DEF RunStep

\* A run that is entered has to honour what is stored, and nothing has it yet.
LEMMA BeginHonours ==
    ASSUME TypeOK, NEW r \in Runs, NEW vouched, NEW crit, NEW since \in 0 .. Len(disputes'),
           Begin(r, vouched, crit, since)
    PROVE  Honours(r)'
BY BeginMoves DEF Honours

LEMMA HonoursStep ==
    ASSUME HonourInv, [Next]_vars, NEW q \in Runs
    PROVE  Honours(q)' /\ (stage[q] # "idle" => run'[q].since = run[q].since)
<1> USE DEF HonourInv, RecordInv
<1>0. run[q].since \in Nat /\ Honours(q)
  BY DEF TypeOK, Locals
<1>1. ASSUME run'[q] = run[q], stage'[q] = stage[q]
      PROVE  Honours(q)' /\ run'[q].since = run[q].since
  BY <1>0, <1>1, LogGrows DEF Honours
<1>2. ASSUME NEW r \in Runs, RunStep(r)
      PROVE  Honours(q)' /\ run'[q].since = run[q].since
  BY <1>1, <1>2, OwnHonours, OthersStay
<1>3. ASSUME NEW r \in Runs, NEW vouched, NEW crit, NEW since \in 0 .. Len(disputes'),
             Begin(r, vouched, crit, since)
      PROVE  Honours(q)' /\ (stage[q] # "idle" => run'[q].since = run[q].since)
  BY <1>1, <1>3, BeginHonours, BeginMoves
<1>4. ASSUME UNCHANGED <<stage, run>>
      PROVE  Honours(q)' /\ run'[q].since = run[q].since
  BY <1>1, <1>4
<1>5. ASSUME NEW r \in ApiRuns, NEW vouched \in BOOLEAN, NEW crit, RequestScore(r, vouched, crit)
      PROVE  Honours(q)' /\ (stage[q] # "idle" => run'[q].since = run[q].since)
  <2>1. Len(disputes) \in 0 .. Len(disputes')
    BY <1>5, LogGrows
  <2> QED BY <1>3, <1>5, <2>1 DEF RequestScore, Runs
<1>6. ASSUME NEW r \in SweepRuns, SweepScore(r)
      PROVE  Honours(q)' /\ (stage[q] # "idle" => run'[q].since = run[q].since)
  <2>1. Len(disputes) \in 0 .. Len(disputes')
    BY <1>6, LogGrows
  <2> QED BY <1>3, <1>6, <2>1 DEF SweepScore, Runs
<1>7. ASSUME NEW i \in DOMAIN disputes, Accept(i)
      PROVE  Honours(q)' /\ (stage[q] # "idle" => run'[q].since = run[q].since)
  <2>1. Len(disputes') \in 0 .. Len(disputes')
    BY LogGrows
  <2> QED BY <1>3, <1>4, <1>7, <2>1 DEF Accept, Runs
<1> QED BY <1>2, <1>4, <1>5, <1>6, <1>7
        DEF Next, SubmitDispute, Reject, Declare, SetSize, StoreCopy, vars

LEMMA AcceptedStep ==
    ASSUME HonourInv, [Next]_vars
    PROVE  AcceptedHonoured'
<1> USE DEF HonourInv, RecordInv
<1>0. scores \in Seq(ScoreRows) /\ \A r \in Runs : run[r].since \in Nat /\ run[r].since <= Len(disputes)
  BY DEF TypeOK, Locals, Honours
<1>1. \A k \in DOMAIN scores :
          /\ scores[k].run \in Runs /\ stage[scores[k].run] # "idle"
          /\ run'[scores[k].run].since = run[scores[k].run].since
  <2>1. \A k \in DOMAIN scores : scores[k].run \in Runs
    <3>1. \A k \in DOMAIN scores : scores[k] \in ScoreRows
      BY <1>0
    <3> QED BY <3>1 DEF ScoreRows
  <2> QED BY <2>1, HonoursStep DEF RunRows, Early
<1>2. CASE scores' = scores
  <2> SUFFICES ASSUME NEW k \in DOMAIN scores, NEW i \in 1 .. run[scores[k].run].since,
                      disputes'[i].event = "accepted"
               PROVE  <<disputes'[i].target, "full">> \notin scores[k].charged
    BY <1>1, <1>2 DEF AcceptedHonoured
  <2>1. disputes'[i] = disputes[i]
    BY <1>0, <1>1, LogGrows
  <2> QED BY <2>1 DEF AcceptedHonoured
<1>3. ASSUME NEW r \in Runs, stage[r] = "scored", PutScore(r)
      PROVE  AcceptedHonoured'
  <2>1. /\ DOMAIN scores' = DOMAIN scores \cup {Len(scores) + 1}
        /\ scores'[Len(scores) + 1] = run[r].score
        /\ \A k \in DOMAIN scores : scores'[k] = scores[k]
    BY <1>0, <1>3 DEF PutScore
  <2>2. run[r].score.run = r /\ run'[r].since = run[r].since /\ disputes' = disputes
    BY <1>3, HonoursStep DEF RunRows, PutScore
  <2>3. \A i \in 1 .. run[r].since : disputes[i].event = "accepted" =>
           <<disputes[i].target, "full">> \notin run[r].score.charged
    BY <1>3 DEF Honours
  <2> QED BY <1>1, <2>1, <2>2, <2>3 DEF AcceptedHonoured
<1>4. scores' = scores \/ \E r \in Runs : stage[r] = "scored" /\ PutScore(r)
  BY RowStep DEF Next, RequestScore, SweepScore, SubmitDispute, Reject, Accept,
         Declare, SetSize, StoreCopy, vars, tables
<1> QED BY <1>2, <1>3, <1>4

LEMMA HonourInit == Init => HonourInv
<1>1. Init => AcceptedHonoured /\ \A r \in Runs : Honours(r)
  BY DEF Init, AcceptedHonoured, Honours, NewRun
<1> QED BY <1>1, RecordInvInit DEF HonourInv

LEMMA HonourStep == HonourInv /\ [Next]_vars => HonourInv'
BY RecordInvStep, HonoursStep, AcceptedStep DEF HonourInv

\* Whatever the number of runs, processes, targets and disputes, no score of a run that began
\* after a refute was accepted charges its target in full.
THEOREM AcceptedHonouredHolds == Spec => []AcceptedHonoured
<1>1. HonourInv => AcceptedHonoured
  BY DEF HonourInv
<1> QED BY <1>1, HonourInit, HonourStep, PTL DEF Spec

-------------------------------------------------------------------------------
(* While the API process is the only writer *)

\* What a step of a run does to the locals that its stored rows come from.
LEMMA LocalsStep ==
    ASSUME TypeOK, NEW r \in Runs, RunStep(r), stage'[r] \in LastStretch
    PROVE  /\ run'[r].crit = run[r].crit
           /\ BuildProfile(r) \/ run'[r].profile = run[r].profile
           /\ Score(r) => run'[r].score.at = clock + 1
           /\ ~Abort(r) /\ ~PutProfile(r)
<1>0. run \in [Runs -> Locals] /\ stage \in [Runs -> Stages] /\ run[r] \in Locals
  BY DEF TypeOK
<1>1. CASE Collect(r)
  BY <1>0, <1>1 DEF Collect, Locals, LastStretch, Score, Abort, PutProfile
<1>2. CASE BuildProfile(r)
  BY <1>0, <1>2 DEF BuildProfile, Locals, LastStretch, Score, Abort, PutProfile
<1>3. CASE LoadAccepted(r)
  BY <1>0, <1>3 DEF LoadAccepted, Locals, LastStretch, Score, Abort, PutProfile
<1>4. CASE Score(r)
  <2> DEFINE row == [run |-> r, at |-> clock + 1, blocked |-> Blocked(r),
                     charged |-> {<<n.target, n.charge>> :
                                     n \in {m \in Normalized(r) : m.charge # "none"}}]
             locals == [Ended(r) EXCEPT !.crit = run[r].crit, !.profile = run[r].profile,
                                        !.score = row, !.unsaved = Normalized(r)]
  <2>1. run' = [run EXCEPT ![r] = locals]
    BY <1>4 DEF Score
  <2>2. row.at = clock + 1
    OBVIOUS
  <2>3. locals.crit = run[r].crit /\ locals.profile = run[r].profile /\ locals.score = row
    <3>1. Ended(r) \in Locals
      BY EndedType
    <3> HIDE DEF row
    <3> QED BY <3>1 DEF Locals
  <2>4. run'[r] = locals
    <3> HIDE DEF locals
    <3> QED BY <1>0, <2>1
  <2>5. stage'[r] = "scored"
    BY <1>0, <1>4 DEF Score
  <2> HIDE DEF row, locals
  <2>6. ~Abort(r) /\ ~PutProfile(r)
    BY <1>0, <2>5 DEF Abort, PutProfile
  <2> QED BY <2>2, <2>3, <2>4, <2>6
<1>5. CASE PutScore(r)
  BY <1>0, <1>5 DEF PutScore, Locals, LastStretch, Score, Abort, PutProfile
<1>6. CASE PutFinding(r)
  BY <1>0, <1>6 DEF PutFinding, Locals, LastStretch, Score, Abort, PutProfile
<1>7. CASE PutProfile(r) \/ Abort(r)
  BY <1>0, <1>7 DEF PutProfile, Abort, LastStretch
<1> QED BY <1>1, <1>2, <1>3, <1>4, <1>5, <1>6, <1>7 DEF RunStep

\* A run in its last stretch is alone in it, and no handler is between its two statements.
LEMMA HolderAlone ==
    ASSUME SweepRuns = {}, TypeOK, Alone, NEW r \in Runs,
           stage[r] \in LastStretch \/ Collect(r)
    PROVE  /\ copying = None
           /\ \A q \in Runs \ {r} : stage[q] \notin LastStretch
<1>1. r \in ApiRuns /\ r # None
  BY RecordAssumption DEF Runs
<1>2. \A q \in Runs : q # None
  BY RecordAssumption DEF Runs
<1> QED BY <1>1, <1>2 DEF Alone, Collect, LoopFree

LEMMA FreeAlone ==
    ASSUME SweepRuns = {}, Alone, LoopFree
    PROVE  \A q \in Runs : stage[q] \notin LastStretch
<1>1. \A q \in Runs : q # None
  BY RecordAssumption DEF Runs
<1> QED BY <1>1 DEF Alone, LoopFree

LEMMA AloneStep ==
    ASSUME SweepRuns = {}, TypeOK, Alone, [Next]_vars
    PROVE  Alone'
<1>0. stage \in [Runs -> Stages]
  BY DEF TypeOK
<1>1. ASSUME NEW r \in Runs, Collect(r)
      PROVE  Alone'
  <2>1. loop' = r /\ copying' = None /\ \A q \in Runs \ {r} : stage'[q] \notin LastStretch
    BY <1>0, <1>1, HolderAlone DEF Collect, LoopFree, Runs
  <2> QED BY <2>1 DEF Alone
<1>2. ASSUME NEW r \in Runs, stage[r] \in LastStretch, loop' = loop, copying' = copying,
             \A q \in Runs \ {r} : stage'[q] = stage[q]
      PROVE  Alone'
  BY <1>2 DEF Alone
<1>3. ASSUME NEW r \in Runs, PutProfile(r) \/ Abort(r)
      PROVE  Alone'
  BY <1>0, <1>3 DEF Alone, PutProfile, Abort, LastStretch
<1>4. ASSUME NEW r \in Runs, RunStep(r)
      PROVE  Alone'
  BY <1>0, <1>1, <1>2, <1>3, <1>4
     DEF RunStep, BuildProfile, LoadAccepted, Score, PutScore, PutFinding, LastStretch, tables
<1>5. ASSUME NEW r \in Runs, NEW vouched, NEW crit, NEW since, Begin(r, vouched, crit, since),
             loop' = loop, copying' = copying
      PROVE  Alone'
  BY <1>0, <1>5, BeginMoves DEF Alone, LastStretch
<1>6. ASSUME stage' = stage, loop' = loop, copying' # None => loop = None
      PROVE  Alone'
  BY <1>6 DEF Alone
<1>7. ASSUME NEW i \in DOMAIN disputes, Accept(i)
      PROVE  Alone'
  BY <1>5, <1>6, <1>7 DEF Accept, Runs, Alone
<1> QED BY <1>4, <1>5, <1>6, <1>7
        DEF Next, Runs, RequestScore, SweepScore, SubmitDispute, Reject, Decide, Declare, SetSize,
            StoreCopy, LoopFree, vars, tables, Alone
-------------------------------------------------------------------------------
(* Stamps *)

\* A run that is entered has built no profile.
LEMMA BeginFresh ==
    ASSUME TypeOK, NEW r \in Runs, NEW vouched, NEW crit, NEW since, Begin(r, vouched, crit, since)
    PROVE  run'[r].profile = None
<1>1. run'[r] = [NewRun EXCEPT !.vouched = vouched, !.crit = crit, !.since = since]
  BY DEF Begin, TypeOK
<1> QED BY <1>1 DEF NewRun

\* Time passes, and a table that is written at most at its end stays in the order of its stamps.
LEMMA OrderedStays ==
    ASSUME NEW S, \A x \in S : x.at \in Nat, NEW table \in Seq(S), Ordered(table),
           clock \in Nat, clock' \in Nat, clock <= clock'
    PROVE  /\ \A i \in DOMAIN table : table[i].at <= clock'
           /\ \A i, k \in DOMAIN table : i < k => table[i].at < table[k].at
<1>1. \A i \in DOMAIN table : table[i] \in S /\ table[i].at \in Nat
  OBVIOUS
<1>2. \A i \in DOMAIN table : table[i].at <= clock'
  BY <1>1 DEF Ordered
<1> QED BY <1>2 DEF Ordered

LEMMA AppendOrdered ==
    ASSUME NEW S, \A x \in S : x.at \in Nat, NEW table \in Seq(S), Ordered(table),
           NEW row \in S, NewerThan(row.at, table), clock \in Nat
    PROVE  Ordered(Append(table, row))
<1> DEFINE new == Append(table, row)
<1>1. /\ DOMAIN new = 1 .. Len(table) + 1 /\ DOMAIN table = 1 .. Len(table) /\ Len(table) \in Nat
      /\ \A i \in DOMAIN table : new[i] = table[i]
      /\ new[Len(table) + 1] = row
  OBVIOUS
<1> HIDE DEF new
<1>2. \A i \in DOMAIN new : new[i].at <= clock
  BY <1>1 DEF Ordered, NewerThan
<1>3. ASSUME NEW i \in DOMAIN new, NEW k \in DOMAIN new, i < k
      PROVE  new[i].at < new[k].at
  <2>1. i \in DOMAIN table
    BY <1>1, <1>3
  <2>2. CASE k \in DOMAIN table
    BY <1>1, <1>3, <2>1, <2>2 DEF Ordered
  <2>3. CASE k = Len(table) + 1
    BY <1>1, <2>1, <2>3 DEF NewerThan
  <2> QED BY <1>1, <2>2, <2>3
<1> QED BY <1>2, <1>3 DEF Ordered, new

\* A stamp taken now is newer than every row of an ordered table.
LEMMA FreshStamp ==
    ASSUME NEW S, \A x \in S : x.at \in Nat, NEW table \in Seq(S), Ordered(table), clock \in Nat
    PROVE  \A i \in DOMAIN table : table[i].at < clock + 1
<1>1. \A i \in DOMAIN table : table[i].at \in Nat
  OBVIOUS
<1> QED BY <1>1 DEF Ordered

LEMMA RowsAreStamped ==
    TypeOK => /\ \A x \in ScoreRows : x.at \in Nat
              /\ \A x \in ProfileRows : x.at \in Nat
              /\ scores \in Seq(ScoreRows) /\ profiles \in Seq(ProfileRows) /\ clock \in Nat
BY DEF TypeOK, ScoreRows, ProfileRows

\* The newest row of an ordered table is its last.
LEMMA NewestIsLast ==
    ASSUME NEW S, \A x \in S : x.at \in Nat, NEW table \in Seq(S), Ordered(table)
    PROVE  /\ \A row \in Newest(table) : table # <<>> /\ row = table[Len(table)]
<1> SUFFICES ASSUME NEW row \in Newest(table)
             PROVE  table # <<>> /\ row = table[Len(table)]
  OBVIOUS
<1>1. PICK i \in DOMAIN table : row = table[i]
  BY DEF Newest
<1>2. Len(table) \in DOMAIN table /\ i <= Len(table) /\ table # <<>>
  BY <1>1
<1>3. table[Len(table)].at <= row.at /\ row.at \in Nat /\ table[Len(table)].at \in Nat
  BY <1>1, <1>2 DEF Newest
<1>4. i = Len(table)
  BY <1>1, <1>2, <1>3 DEF Ordered
<1> QED BY <1>1, <1>2, <1>4

\* A run between two of its last statements is alone, so only its own stamps matter.
LEMMA Holder ==
    ASSUME SweepRuns = {}, TypeOK, Alone, NEW r \in Runs, RunStep(r), ~Abort(r)
    PROVE  /\ copying = None /\ copying' = None
           /\ \A q \in Runs \ {r} : stage'[q] \notin LastStretch /\ stage[q] \notin LastStretch
           /\ \A q \in Runs \ {r} : run'[q] = run[q] /\ stage'[q] = stage[q]
<1>1. stage[r] \in LastStretch \/ Collect(r)
  BY DEF RunStep, BuildProfile, LoadAccepted, Score, PutScore, PutFinding, PutProfile, LastStretch
<1>2. copying = None /\ \A q \in Runs \ {r} : stage[q] \notin LastStretch
  BY <1>1, HolderAlone
<1>3. copying' = copying
  BY DEF RunStep, Collect, BuildProfile, LoadAccepted, Score, PutScore, PutFinding, PutProfile,
         tables
<1> QED BY <1>2, <1>3, OthersStay

\* A step of a run keeps the stamps in order: no other writer stores a row between the
\* moment a run takes a stamp and the moment its row is stored.
LEMMA StampedByRun ==
    ASSUME SweepRuns = {}, TypeOK, Alone, Stamped, NEW r \in Runs, RunStep(r)
    PROVE  Stamped'
<1>0. run \in [Runs -> Locals] /\ stage \in [Runs -> Stages] /\ run[r] \in Locals
  BY DEF TypeOK
<1>1. /\ \A x \in ScoreRows : x.at \in Nat
      /\ \A x \in ProfileRows : x.at \in Nat
      /\ scores \in Seq(ScoreRows) /\ profiles \in Seq(ProfileRows) /\ clock \in Nat
  BY RowsAreStamped
<1>2. CASE Abort(r)
  <2>1. stage'[r] = "dead" /\ \A q \in Runs \ {r} : run'[q] = run[q] /\ stage'[q] = stage[q]
    BY <1>0, <1>2, OthersStay DEF Abort
  <2>2. UNCHANGED <<copying, scores, profiles, clock>>
    BY <1>2 DEF Abort, tables
  <2> QED BY <2>1, <2>2 DEF Stamped, Ordered, NewerThan, LastStretch
<1> SUFFICES ASSUME ~Abort(r) PROVE Stamped'
  BY <1>2
<1>3. /\ copying' = None
      /\ \A q \in Runs \ {r} : stage'[q] \notin LastStretch /\ stage'[q] # "scored"
                               /\ run'[q] = run[q] /\ stage'[q] = stage[q]
  BY Holder DEF LastStretch
\* What is left to show is about r.
<1>4. ASSUME Ordered(scores)', Ordered(profiles)',
             stage'[r] = "scored" => NewerThan(run[r].score.at, scores)',
             stage'[r] \in {"collecting", "collected"} => run'[r].profile = None,
             stage'[r] \in LastStretch /\ run'[r].profile # None
                => NewerThan(run[r].profile.at, profiles)'
      PROVE  Stamped'
  <2>1. ASSUME NEW q \in Runs
        PROVE  /\ stage'[q] = "scored" => NewerThan(run[q].score.at, scores)'
               /\ stage'[q] \in {"collecting", "collected"} => run'[q].profile = None
               /\ stage'[q] \in LastStretch /\ run'[q].profile # None
                     => NewerThan(run[q].profile.at, profiles)'
    <3>1. CASE q = r
      BY <1>4, <3>1
    <3>2. CASE q # r
      BY <1>3, <3>2 DEF Stamped
    <3> QED BY <3>1, <3>2
  <2> QED BY <1>3, <1>4, <2>1 DEF Stamped
<1>5. CASE Collect(r) \/ LoadAccepted(r) \/ PutFinding(r)
  <2>1. UNCHANGED <<scores, profiles, clock>> /\ stage[r] # "scored" /\ stage'[r] # "scored"
    BY <1>0, <1>5 DEF Collect, LoadAccepted, PutFinding, tables
  <2>2. run'[r].profile = run[r].profile
    <3>1. CASE Collect(r)
      BY <1>0, <3>1 DEF Collect, Locals
    <3>2. CASE LoadAccepted(r)
      BY <1>0, <3>2 DEF LoadAccepted, Locals
    <3>3. CASE PutFinding(r)
      BY <1>0, <3>3 DEF PutFinding, Locals
    <3> QED BY <1>5, <3>1, <3>2, <3>3
  <2>3. /\ Collect(r) => stage[r] = "collecting"
        /\ ~Collect(r) => stage[r] \in LastStretch /\ stage'[r] \notin {"collecting", "collected"}
    BY <1>0, <1>5 DEF Collect, LoadAccepted, PutFinding, LastStretch
  <2>4. Ordered(scores)' /\ Ordered(profiles)'
    BY <2>1 DEF Stamped, Ordered
  <2>5. stage'[r] \in {"collecting", "collected"} => run'[r].profile = None
    BY <2>2, <2>3 DEF Stamped
  <2>6. stage'[r] \in LastStretch /\ run'[r].profile # None
           => NewerThan(run[r].profile.at, profiles)'
    <3>1. CASE Collect(r)
      BY <2>2, <2>3, <3>1 DEF Stamped
    <3>2. CASE ~Collect(r)
      BY <2>1, <2>2, <2>3, <3>2 DEF Stamped, NewerThan
    <3> QED BY <3>1, <3>2
  <2> QED BY <1>4, <2>1, <2>4, <2>5, <2>6
<1>6. CASE BuildProfile(r)
  <2>1. UNCHANGED <<scores, profiles>> /\ clock' = clock + 1 /\ stage'[r] = "built"
    BY <1>0, <1>6 DEF BuildProfile
  <2>2. run'[r].profile # None => run'[r].profile.at = clock + 1
    <3>1. CASE run' = run
      BY <1>0, <1>6, <3>1 DEF Stamped, BuildProfile
    <3>2. CASE run' # run
      <4>1. PICK crit : run' = [run EXCEPT ![r].profile = [crit |-> crit, at |-> clock + 1]]
        BY <1>6, <3>2 DEF BuildProfile
      <4> QED BY <1>0, <4>1 DEF Locals
    <3> QED BY <3>1, <3>2
  <2>3. Ordered(scores)' /\ Ordered(profiles)'
    BY <1>1, <2>1, OrderedStays DEF Stamped, Ordered
  <2>4. run'[r].profile # None => NewerThan(run[r].profile.at, profiles)'
    <3>1. \A i \in DOMAIN profiles : profiles[i].at < clock + 1
      BY <1>1, FreshStamp DEF Stamped
    <3> QED BY <1>1, <2>1, <2>2, <3>1 DEF NewerThan
  <2> QED BY <1>4, <2>1, <2>3, <2>4
<1>7. CASE Score(r)
  <2>1. UNCHANGED <<scores, profiles>> /\ clock' = clock + 1 /\ stage'[r] = "scored"
        /\ stage[r] \in LastStretch
    BY <1>0, <1>7 DEF Score, LastStretch
  <2>2. run'[r].profile = run[r].profile /\ run'[r].score.at = clock + 1
    <3>1. ~BuildProfile(r) /\ stage'[r] \in LastStretch
      BY <1>7, <2>1 DEF Score, BuildProfile, LastStretch
    <3> QED BY <1>7, <3>1, LocalsStep
  <2>3. Ordered(scores)' /\ Ordered(profiles)'
    BY <1>1, <2>1, OrderedStays DEF Stamped, Ordered
  <2>4. NewerThan(run[r].score.at, scores)'
    <3>1. \A i \in DOMAIN scores : scores[i].at < clock + 1
      BY <1>1, FreshStamp DEF Stamped
    <3> QED BY <1>1, <2>1, <2>2, <3>1 DEF NewerThan
  <2>5. run'[r].profile # None => NewerThan(run[r].profile.at, profiles)'
    <3>1. run'[r].profile # None => run'[r].profile.at \in Nat
      BY <1>0, <1>1, <2>2 DEF Locals
    <3>2. run[r].profile # None => NewerThan(run[r].profile.at, profiles)
      BY <2>1 DEF Stamped
    <3> QED BY <1>1, <2>1, <2>2, <3>1, <3>2 DEF NewerThan
  <2> QED BY <1>4, <2>1, <2>3, <2>4, <2>5
<1>8. CASE PutScore(r)
  <2>1. /\ scores' = Append(scores, run[r].score) /\ UNCHANGED <<profiles, clock>>
        /\ stage[r] = "scored" /\ stage'[r] = "publishing"
    BY <1>0, <1>8 DEF PutScore
  <2>2. run'[r].profile = run[r].profile
    BY <1>0, <1>8 DEF PutScore, Locals
  <2>3. run[r].score \in ScoreRows
    BY <2>1 DEF TypeOK
  <2>4. Ordered(scores)'
    BY <1>1, <2>1, <2>3, AppendOrdered DEF Stamped, Ordered
  <2>5. Ordered(profiles)'
    BY <2>1 DEF Stamped, Ordered
  <2>6. run'[r].profile # None => NewerThan(run[r].profile.at, profiles)'
    <3>1. run[r].profile # None => NewerThan(run[r].profile.at, profiles)
      BY <2>1 DEF Stamped, LastStretch
    <3> QED BY <2>1, <2>2, <3>1 DEF NewerThan
  <2> QED BY <1>4, <2>1, <2>4, <2>5, <2>6
<1>9. CASE PutProfile(r)
  <2>1. /\ UNCHANGED <<scores, clock>> /\ stage[r] \in LastStretch /\ stage'[r] = "done"
        /\ run[r].profile = None => profiles' = profiles
        /\ run[r].profile # None => profiles' = Append(profiles, run[r].profile)
    BY <1>0, <1>9 DEF PutProfile, LastStretch
  <2>2. run[r].profile # None => run[r].profile \in ProfileRows
    BY <1>0 DEF Locals
  <2>3. Ordered(profiles)'
    BY <1>1, <2>1, <2>2, AppendOrdered DEF Stamped, Ordered
  <2>4. stage'[r] \notin LastStretch /\ Ordered(scores)'
    BY <2>1 DEF LastStretch, Stamped, Ordered
  <2> QED BY <1>4, <2>1, <2>3, <2>4
<1> QED BY <1>5, <1>6, <1>7, <1>8, <1>9 DEF RunStep

LEMMA StampedByBegin ==
    ASSUME TypeOK, Stamped, NEW r \in Runs, NEW vouched, NEW crit, NEW since,
           Begin(r, vouched, crit, since), UNCHANGED <<copying, scores, profiles, clock>>
    PROVE  Stamped'
<1>1. /\ \A q \in Runs \ {r} : run'[q] = run[q] /\ stage'[q] = stage[q]
      /\ stage'[r] = "collecting" /\ run'[r].profile = None
  BY BeginMoves, BeginFresh
<1>2. Ordered(scores)' /\ Ordered(profiles)' /\ (copying' # None => NewerThan(copying.row.at, profiles)')
  BY DEF Stamped, Ordered, NewerThan
<1>3. ASSUME NEW q \in Runs
      PROVE  /\ stage'[q] = "scored" => NewerThan(run[q].score.at, scores)'
             /\ stage'[q] \in {"collecting", "collected"} => run'[q].profile = None
             /\ stage'[q] \in LastStretch /\ run'[q].profile # None
                   => NewerThan(run[q].profile.at, profiles)'
  <2>1. CASE q = r
    BY <1>1, <2>1 DEF LastStretch
  <2>2. CASE q # r
    BY <1>1, <2>2 DEF Stamped, NewerThan
  <2> QED BY <2>1, <2>2
<1> QED BY <1>2, <1>3 DEF Stamped

\* A handler stamps its copy, and stores it, while no run is in its last stretch.
LEMMA StampedByHandler ==
    ASSUME SweepRuns = {}, TypeOK, Alone, Stamped,
           \/ \E crit \in Levels \cup {None} : Declare(crit)
           \/ SetSize
           \/ StoreCopy
    PROVE  Stamped'
<1>1. /\ \A x \in ScoreRows : x.at \in Nat
      /\ \A x \in ProfileRows : x.at \in Nat
      /\ scores \in Seq(ScoreRows) /\ profiles \in Seq(ProfileRows) /\ clock \in Nat
  BY RowsAreStamped
<1>2. UNCHANGED <<stage, run, scores>>
  BY DEF Declare, SetSize, StoreCopy
<1>3. \A q \in Runs : stage[q] \notin LastStretch /\ stage[q] # "scored"
  <2>1. \A q \in Runs : q # None
    BY RecordAssumption DEF Runs
  <2>2. LoopFree \/ (copying # None /\ loop = None)
    BY DEF Declare, SetSize, StoreCopy, Alone
  <2> QED BY <2>1, <2>2 DEF LoopFree, Alone, LastStretch
<1>4. ASSUME Ordered(scores)', Ordered(profiles)', copying' # None => NewerThan(copying.row.at, profiles)'
      PROVE  Stamped'
  BY <1>2, <1>3, <1>4 DEF Stamped
<1>5. CASE StoreCopy
  <2>1. /\ copying # None /\ copying' = None /\ clock' = clock
        /\ profiles' = profiles \/ profiles' = Append(profiles, copying.row)
    BY <1>5 DEF StoreCopy
  <2>2. copying.row \in ProfileRows
    BY <2>1 DEF TypeOK
  <2>3. Ordered(profiles)'
    BY <1>1, <2>1, <2>2, AppendOrdered DEF Stamped, Ordered
  <2> QED BY <1>2, <1>4, <2>1, <2>3 DEF Stamped, Ordered
<1>6. CASE ~StoreCopy
  <2>1. profiles' = profiles /\ clock' = clock + 1 /\ copying'.row.at = clock + 1
    BY <1>6 DEF Declare, SetSize
  <2>2. Ordered(scores)' /\ Ordered(profiles)'
    BY <1>1, <1>2, <2>1, OrderedStays DEF Stamped, Ordered
  <2>3. \A i \in DOMAIN profiles : profiles[i].at < clock + 1
    BY <1>1, FreshStamp DEF Stamped
  <2> QED BY <1>1, <1>4, <2>1, <2>2, <2>3 DEF NewerThan
<1> QED BY <1>5, <1>6

LEMMA StampedStep ==
    ASSUME SweepRuns = {}, TypeOK, Alone, Stamped, [Next]_vars
    PROVE  Stamped'
<1>1. CASE UNCHANGED <<stage, run, copying, scores, profiles, clock>>
  BY <1>1 DEF Stamped, Ordered, NewerThan
<1>2. ASSUME NEW i \in DOMAIN disputes, Accept(i)
      PROVE  Stamped'
  BY <1>1, <1>2, StampedByBegin DEF Accept, Runs
<1> QED BY <1>1, <1>2, StampedByRun, StampedByBegin, StampedByHandler
        DEF Next, Runs, RequestScore, SweepScore, SubmitDispute, Reject, vars, tables

-------------------------------------------------------------------------------
(* The card *)

LEMMA LastScoreRun == TypeOK /\ scores # <<>> => scores[Len(scores)].run \in Runs
<1> SUFFICES ASSUME TypeOK, scores # <<>> PROVE scores[Len(scores)].run \in Runs
  OBVIOUS
<1>1. scores \in Seq(ScoreRows)
  BY DEF TypeOK
<1>2. scores[Len(scores)] \in ScoreRows
  BY <1>1
<1> QED BY <1>2 DEF ScoreRows

LEMMA LastCardByRun ==
    ASSUME SweepRuns = {}, TypeOK, Alone, LastCard, NEW r \in Runs, RunRows(r), RunStep(r)
    PROVE  LastCard'
<1>0. /\ run \in [Runs -> Locals] /\ stage \in [Runs -> Stages]
      /\ scores \in Seq(ScoreRows) /\ findings \in Seq(FindingRows)
  BY DEF TypeOK
<1>1. \A q \in Runs \ {r} : stage'[q] = stage[q]
  BY OthersStay
<1>2. scores # <<>> => scores[Len(scores)].run \in Runs
  BY LastScoreRun
<1>3. CASE PutScore(r)
  <2>1. run[r].score \in ScoreRows /\ run[r].score.run = r /\ \A i \in DOMAIN findings : findings[i].run # r
    BY <1>3 DEF PutScore, TypeOK, RunRows
  <2>2. scores' = Append(scores, run[r].score) /\ findings' = findings
    BY <1>3 DEF PutScore
  <2>3. scores' # <<>> /\ scores'[Len(scores')] = run[r].score
    BY <1>0, <2>1, <2>2
  <2>4. \A q \in Runs \ {r} : stage'[q] \notin LastStretch
    <3>1. ~Abort(r)
      BY <1>0, <1>3 DEF PutScore, Abort
    <3> QED BY <3>1, Holder
  <2> QED BY <2>1, <2>2, <2>3, <2>4 DEF LastCard, LastStretch
<1>4. CASE PutFinding(r)
  <2>1. PICK row \in run[r].unsaved : findings' = Append(findings, row)
    BY <1>4 DEF PutFinding
  <2>2. row \in FindingRows /\ row.run = r
    BY <1>0, <2>1 DEF RunRows, Locals
  <2>3. findings'[Len(findings')] = row
    BY <1>0, <2>1, <2>2
  <2>4. scores' = scores /\ stage' = stage /\ stage[r] = "publishing"
    BY <1>4 DEF PutFinding
  <2>5. scores # <<>> /\ scores[Len(scores)].run = r
    BY <2>4 DEF LastCard
  <2> QED BY <2>2, <2>3, <2>4, <2>5 DEF LastCard
<1>5. CASE ~PutScore(r) /\ ~PutFinding(r)
  <2>1. scores' = scores /\ findings' = findings
    BY <1>5, RowStep
  <2>2. /\ stage'[r] # "publishing"
        /\ stage'[r] = "done" => stage[r] = "publishing"
    BY <1>0, <1>5 DEF RunStep, Collect, BuildProfile, LoadAccepted, Score, PutProfile, Abort
  <2> QED BY <1>1, <1>2, <2>1, <2>2 DEF LastCard
<1> QED BY <1>3, <1>4, <1>5

LEMMA LastCardStep ==
    ASSUME SweepRuns = {}, RecordInv, Alone, LastCard, [Next]_vars
    PROVE  LastCard'
<1>0. TypeOK /\ scores \in Seq(ScoreRows) /\ \A r \in Runs : RunRows(r)
  BY DEF RecordInv, TypeOK
<1>1. CASE UNCHANGED <<stage, scores, findings>>
  BY <1>1 DEF LastCard
<1>2. ASSUME NEW r \in Runs, NEW vouched, NEW crit, NEW since, Begin(r, vouched, crit, since),
             scores' = scores, findings' = findings
      PROVE  LastCard'
  <2>1. stage'[r] = "collecting" /\ \A q \in Runs \ {r} : stage'[q] = stage[q]
    BY <1>0, <1>2, BeginMoves
  <2>2. scores # <<>> => scores[Len(scores)].run \in Runs
    BY <1>0, LastScoreRun
  <2> QED BY <1>2, <2>1, <2>2 DEF LastCard
<1>3. ASSUME NEW i \in DOMAIN disputes, Accept(i)
      PROVE  LastCard'
  BY <1>1, <1>2, <1>3 DEF Accept, Runs
<1> QED BY <1>0, <1>1, <1>2, <1>3, LastCardByRun
        DEF Next, Runs, RequestScore, SweepScore, SubmitDispute, Reject, Declare, SetSize,
            StoreCopy, vars, tables

LEMMA SoloInit == SweepRuns = {} /\ Init => SoloInv
<1> SUFFICES ASSUME SweepRuns = {}, Init PROVE SoloInv
  OBVIOUS
<1>1. RecordInv
  BY RecordInvInit
<1>2. run \in [Runs -> Locals] /\ \A r \in Runs : run[r].profile = None /\ stage[r] = "idle"
  BY NewRunType DEF Init, NewRun
<1> QED BY <1>1, <1>2 DEF Init, SoloInv, Alone, Stamped, Ordered, NewerThan, LastCard, LastStretch

LEMMA SoloStep == SweepRuns = {} /\ SoloInv /\ [Next]_vars => SoloInv'
<1> SUFFICES ASSUME SweepRuns = {}, SoloInv, [Next]_vars PROVE SoloInv'
  OBVIOUS
<1>1. TypeOK
  BY DEF SoloInv, RecordInv
<1> QED BY <1>1, RecordInvStep, AloneStep, StampedStep, LastCardStep DEF SoloInv

\* SoloInv is enough: the newest score is the last, and so are its findings.
LEMMA SoloCard == SoloInv => CardIsOneRun
<1> SUFFICES ASSUME SoloInv, NEW s \in Newest(scores), stage[s.run] = "done",
                    \E i \in DOMAIN findings : findings[i].run = s.run
             PROVE  \A f \in CurrentFindings : f.run = s.run
  BY DEF CardIsOneRun
<1>1. /\ \A x \in ScoreRows : x.at \in Nat
      /\ scores \in Seq(ScoreRows)
  BY RowsAreStamped DEF SoloInv, RecordInv
<1>2. scores # <<>> /\ s = scores[Len(scores)]
  BY <1>1, NewestIsLast DEF SoloInv, Stamped
<1>3. findings[Len(findings)].run = s.run
  BY <1>2 DEF SoloInv, LastCard
<1> QED BY <1>3 DEF CurrentFindings

\* While no sweep runs, the card is one run's: a reader that joins the latest score with the
\* current findings never mixes two runs that have not failed.
THEOREM CardIsOneRunHolds ==
    ASSUME SweepRuns = {}
    PROVE  Spec => []CardIsOneRun
<1>1. Init => SoloInv
  BY SoloInit
<1>2. SoloInv /\ [Next]_vars => SoloInv'
  BY SoloStep
<1>3. SoloInv => CardIsOneRun
  BY SoloCard
<1> QED BY <1>1, <1>2, <1>3, PTL DEF Spec
===============================================================================
