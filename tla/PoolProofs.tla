------------------------------ MODULE PoolProofs ------------------------------
(***************************************************************************)
(* For every pool size and any number of runs and requests no connection   *)
(* leaks, given the line that the exchange of psycopg_pool keeps.          *)
(***************************************************************************)
EXTENDS ConnectionPool, FiniteSetTheorems, SequenceTheorems, TLAPS

\* A sequence without its i-th element.
LEMMA RemoveAtElements ==
    ASSUME NEW S, NEW s \in Seq(S), NEW i \in 1 .. Len(s)
    PROVE  /\ RemoveAt(s, i) \in Seq(S) /\ Len(RemoveAt(s, i)) = Len(s) - 1
           /\ \A k \in 1 .. Len(s) - 1 : RemoveAt(s, i)[k] = IF k < i THEN s[k] ELSE s[k + 1]
<1>0. Len(s) \in Nat
  OBVIOUS
<1> DEFINE left == SubSeq(s, 1, i - 1)
           right == SubSeq(s, i + 1, Len(s))
<1>1. left \in Seq(S) /\ Len(left) = i - 1 /\ \A k \in 1 .. i - 1 : left[k] = s[k]
  BY <1>0, SubSeqProperties
<1>2. right \in Seq(S) /\ Len(right) = Len(s) - i /\ \A k \in 1 .. Len(s) - i : right[k] = s[k + i]
  BY <1>0, SubSeqProperties
<1>3. RemoveAt(s, i) = left \o right
  BY DEF RemoveAt
<1> HIDE DEF left, right
<1>4. /\ left \o right \in Seq(S) /\ Len(left \o right) = Len(left) + Len(right)
      /\ \A k \in 1 .. Len(left) + Len(right) :
            (left \o right)[k] = IF k <= Len(left) THEN left[k] ELSE right[k - Len(left)]
  BY <1>1, <1>2, ConcatProperties
<1>5. Len(left) + Len(right) = Len(s) - 1
  BY <1>0, <1>1, <1>2
<1>6. ASSUME NEW k \in 1 .. Len(s) - 1
      PROVE  (left \o right)[k] = IF k < i THEN s[k] ELSE s[k + 1]
  <2>1. CASE k < i
    BY <1>0, <1>1, <1>4, <1>5, <2>1
  <2>2. CASE ~(k < i)
    <3>1. k - (i - 1) \in 1 .. Len(s) - i /\ (k - (i - 1)) + i = k + 1
      BY <1>0, <2>2
    <3>2. right[k - (i - 1)] = s[k + 1]
      BY <1>2, <3>1
    <3> QED BY <1>0, <1>1, <1>4, <1>5, <2>2, <3>2
  <2> QED BY <2>1, <2>2
<1> QED BY <1>3, <1>4, <1>5, <1>6

\* A borrower more, a borrower less, one in the place of another.
LEMMA BorrowedFinite == IsFiniteSet(Borrowed) /\ Cardinality(Borrowed) \in Nat
<1>1. IsFiniteSet(Borrowers)
  BY PoolAssumption, FS_Union DEF Borrowers
<1> QED BY <1>1, FS_Subset, FS_CardinalityType DEF Borrowed

LEMMA OneMore ==
    ASSUME NEW b, b \notin Borrowed, Borrowed' = Borrowed \cup {b}
    PROVE  Cardinality(Borrowed)' = Cardinality(Borrowed) + 1
BY BorrowedFinite, FS_AddElement

LEMMA OneLess ==
    ASSUME NEW b, b \in Borrowed, Borrowed' = Borrowed \ {b}
    PROVE  Cardinality(Borrowed)' = Cardinality(Borrowed) - 1
BY BorrowedFinite, FS_RemoveElement

LEMMA OneForAnother ==
    ASSUME NEW b, b \in Borrowed, NEW h, h \notin Borrowed,
           Borrowed' = (Borrowed \ {b}) \cup {h}
    PROVE  Cardinality(Borrowed)' = Cardinality(Borrowed)
<1>1. IsFiniteSet(Borrowed \ {b}) /\ Cardinality(Borrowed \ {b}) = Cardinality(Borrowed) - 1
  BY BorrowedFinite, FS_RemoveElement
<1>2. Cardinality((Borrowed \ {b}) \cup {h}) = Cardinality(Borrowed) - 1 + 1
  BY <1>1, FS_AddElement
<1> QED BY <1>2, BorrowedFinite

-------------------------------------------------------------------------------
\* What a connection that comes back does to the pool.
LEMMA GiveBackKeeps ==
    ASSUME PoolInv, NEW b \in Borrowers, state[b] \in {"setup", "holding"},
           NEW how \in {"ended", "failed"}, GiveBack(b, how), loop' \in Jobs \cup {None}
    PROVE  PoolInv'
<1>0. /\ state \in [Borrowers -> States] /\ line \in Seq(Borrowers) /\ Len(line) \in Nat
      /\ free \in Nat /\ free <= PoolSize /\ PoolSize \in Nat
      /\ free + Cardinality(Borrowed) = PoolSize /\ Cardinality(Borrowed) \in Nat
      /\ b \in Borrowed
  BY BorrowedFinite, PoolAssumption DEF PoolInv, TypeOK, NoLeak, Borrowed
<1>1. CASE line = <<>>
  <2>1. free' = free + 1 /\ state' = [state EXCEPT ![b] = how] /\ line' = line
    BY <1>1 DEF GiveBack
  <2>2. Borrowed' = Borrowed \ {b}
    BY <1>0, <2>1 DEF Borrowed
  <2>3. Cardinality(Borrowed)' = Cardinality(Borrowed) - 1 /\ Cardinality(Borrowed)' \in Nat
    BY <1>0, <2>2, OneLess, BorrowedFinite, FS_RemoveElement, FS_CardinalityType
  <2>4. NoLeak' /\ free' \in 0 .. PoolSize
    BY <1>0, <2>1, <2>3 DEF NoLeak
  <2>5. TypeOK'
    BY <1>0, <2>1, <2>4 DEF TypeOK, States
  <2>6. LineKept'
    BY <1>0, <1>1, <2>1 DEF PoolInv, LineKept
  <2> QED BY <2>4, <2>5, <2>6 DEF PoolInv
<1>2. CASE line # <<>>
  <2> DEFINE h == Head(line)
  <2>1. /\ state' = [state EXCEPT ![b] = how, ![h] = "setup"]
        /\ line' = Tail(line) /\ free' = free
    BY <1>2 DEF GiveBack
  <2>2. h = line[1] /\ 1 \in DOMAIN line /\ h \in Borrowers
    BY <1>0, <1>2
  <2> HIDE DEF h
  <2>3. state[h] = "waiting" /\ h # b
    BY <2>2 DEF PoolInv, LineKept
  <2>4. Borrowed' = (Borrowed \ {b}) \cup {h} /\ h \notin Borrowed
    BY <1>0, <2>1, <2>2, <2>3 DEF Borrowed
  <2>5. NoLeak'
    BY <1>0, <2>1, <2>4, OneForAnother DEF NoLeak
  <2>6. /\ line' \in Seq(Borrowers) /\ Len(line') = Len(line) - 1 /\ DOMAIN line' = 1 .. Len(line) - 1
        /\ \A k \in 1 .. Len(line) - 1 : line'[k] = line[k + 1] /\ k + 1 \in DOMAIN line
    BY <1>0, <1>2, <2>1
  <2>7. TypeOK'
    BY <1>0, <2>1, <2>2, <2>6 DEF PoolInv, TypeOK, States
  <2>8. \A q \in Borrowers : state'[q] = "waiting" <=> \E k \in DOMAIN line' : line'[k] = q
    <3> SUFFICES ASSUME NEW q \in Borrowers
                 PROVE  state'[q] = "waiting" <=> \E k \in DOMAIN line' : line'[k] = q
      OBVIOUS
    <3>1. state'[q] = "waiting" <=> state[q] = "waiting" /\ q # h
      BY <1>0, <2>1, <2>2, <2>3
    <3>2. ASSUME state[q] = "waiting", q # h
          PROVE  \E k \in DOMAIN line' : line'[k] = q
      <4>1. PICK k \in DOMAIN line : line[k] = q
        BY <3>2 DEF PoolInv, LineKept
      <4>2. k - 1 \in 1 .. Len(line) - 1 /\ (k - 1) + 1 = k
        BY <1>0, <2>2, <3>2, <4>1
      <4> QED BY <2>6, <4>1, <4>2
    <3>3. ASSUME NEW k \in DOMAIN line', line'[k] = q
          PROVE  state[q] = "waiting" /\ q # h
      <4>1. line[k + 1] = q /\ k + 1 \in DOMAIN line /\ k + 1 # 1
        BY <1>0, <2>6, <3>3
      <4> QED BY <2>2, <4>1 DEF PoolInv, LineKept
    <3> QED BY <3>1, <3>2, <3>3
  <2>9. \A i, k \in DOMAIN line' : line'[i] = line'[k] => i = k
    <3>1. ASSUME NEW i \in DOMAIN line', NEW k \in DOMAIN line', line'[i] = line'[k]
          PROVE  i = k
      <4>1. i + 1 \in DOMAIN line /\ k + 1 \in DOMAIN line /\ line[i + 1] = line[k + 1]
        BY <2>6, <3>1
      <4>2. i + 1 = k + 1
        BY <4>1 DEF PoolInv, LineKept
      <4> QED BY <1>0, <2>6, <4>2
    <3> QED BY <3>1
  <2>10. free' = 0
    BY <1>2, <2>1 DEF PoolInv, LineKept
  <2> QED BY <2>5, <2>7, <2>8, <2>9, <2>10 DEF PoolInv, LineKept
<1> QED BY <1>1, <1>2

LEMMA AskKeeps ==
    ASSUME PoolInv, NEW b \in Borrowers, Ask(b)
    PROVE  PoolInv'
<1>0. /\ state \in [Borrowers -> States] /\ line \in Seq(Borrowers) /\ Len(line) \in Nat
      /\ free \in Nat /\ free <= PoolSize /\ PoolSize \in Nat
      /\ free + Cardinality(Borrowed) = PoolSize /\ Cardinality(Borrowed) \in Nat
      /\ b \notin Borrowed /\ state[b] = "idle" /\ loop' \in Jobs \cup {None}
  BY BorrowedFinite, PoolAssumption DEF Ask, PoolInv, TypeOK, NoLeak, Borrowed
<1>1. CASE free > 0
  <2>1. free' = free - 1 /\ state' = [state EXCEPT ![b] = "setup"] /\ line' = line
    BY <1>1 DEF Ask
  <2>2. Borrowed' = Borrowed \cup {b}
    BY <1>0, <2>1 DEF Borrowed
  <2>3. NoLeak'
    <3>1. Cardinality(Borrowed)' = Cardinality(Borrowed) + 1
      BY <1>0, <2>2, OneMore
    <3> QED BY <1>0, <1>1, <2>1, <3>1 DEF NoLeak
  <2>4. TypeOK'
    BY <1>0, <1>1, <2>1 DEF TypeOK, States
  <2>5. LineKept'
    BY <1>0, <1>1, <2>1 DEF PoolInv, LineKept
  <2> QED BY <2>3, <2>4, <2>5 DEF PoolInv
<1>2. CASE ~(free > 0)
  <2>1. line' = Append(line, b) /\ state' = [state EXCEPT ![b] = "waiting"] /\ free' = free
    BY <1>2 DEF Ask
  <2>2. Borrowed' = Borrowed
    BY <1>0, <2>1 DEF Borrowed
  <2>3. NoLeak'
    BY <1>0, <2>1, <2>2 DEF NoLeak
  <2>4. /\ line' \in Seq(Borrowers) /\ DOMAIN line' = 1 .. Len(line) + 1
        /\ \A k \in DOMAIN line : k \in DOMAIN line' /\ line'[k] = line[k]
        /\ line'[Len(line) + 1] = b /\ DOMAIN line = 1 .. Len(line)
    BY <1>0, <2>1
  <2>5. TypeOK'
    BY <1>0, <2>1, <2>4 DEF TypeOK, States
  <2>6. free' = 0
    BY <1>0, <1>2, <2>1
  <2>7. \A k \in DOMAIN line : line[k] # b
    BY <1>0 DEF PoolInv, LineKept
  <2>8. \A q \in Borrowers : state'[q] = "waiting" <=> \E k \in DOMAIN line' : line'[k] = q
    <3> SUFFICES ASSUME NEW q \in Borrowers
                 PROVE  state'[q] = "waiting" <=> \E k \in DOMAIN line' : line'[k] = q
      OBVIOUS
    <3>1. CASE q = b
      BY <1>0, <2>1, <2>4, <3>1
    <3>2. CASE q # b
      BY <1>0, <2>1, <2>4, <3>2 DEF PoolInv, LineKept
    <3> QED BY <3>1, <3>2
  <2>9. \A i, k \in DOMAIN line' : line'[i] = line'[k] => i = k
    BY <1>0, <2>4, <2>7 DEF PoolInv, LineKept
  <2> QED BY <2>3, <2>5, <2>6, <2>8, <2>9 DEF PoolInv, LineKept
<1> QED BY <1>1, <1>2

\* A borrower that gives up leaves the line wherever it stands.
LEMMA TimeOutKeeps ==
    ASSUME PoolInv, NEW b \in Borrowers, TimeOut(b)
    PROVE  PoolInv'
<1>0. /\ state \in [Borrowers -> States] /\ line \in Seq(Borrowers) /\ Len(line) \in Nat
      /\ DOMAIN line = 1 .. Len(line)
  BY DEF PoolInv, TypeOK
<1>1. PICK i \in DOMAIN line : line[i] = b /\ line' = RemoveAt(line, i)
  BY DEF TimeOut
<1>2. /\ state' = [state EXCEPT ![b] = "failed"] /\ free' = free /\ state[b] = "waiting"
      /\ loop' \in Jobs \cup {None}
  BY DEF TimeOut, LoopAfter, PoolInv, TypeOK
<1>3. Borrowed' = Borrowed
  BY <1>0, <1>2 DEF Borrowed
<1>4. NoLeak'
  BY <1>2, <1>3 DEF PoolInv, NoLeak
<1>5. /\ line' \in Seq(Borrowers) /\ Len(line') = Len(line) - 1
      /\ \A k \in 1 .. Len(line) - 1 : line'[k] = IF k < i THEN line[k] ELSE line[k + 1]
  BY <1>0, <1>1, RemoveAtElements
<1>6. DOMAIN line' = 1 .. Len(line) - 1
  BY <1>0, <1>5
<1>7. TypeOK'
  BY <1>0, <1>2, <1>5 DEF PoolInv, TypeOK, States
<1>8. line # <<>> /\ free' = 0
  BY <1>0, <1>1, <1>2 DEF PoolInv, LineKept
\* Where the k-th of the shortened line stood before.
<1> DEFINE old(k) == IF k < i THEN k ELSE k + 1
<1>9. \A k \in DOMAIN line' : old(k) \in DOMAIN line /\ old(k) # i /\ line'[k] = line[old(k)]
  BY <1>0, <1>1, <1>5, <1>6
<1>10. \A q \in Borrowers : state'[q] = "waiting" <=> \E k \in DOMAIN line' : line'[k] = q
  <2> SUFFICES ASSUME NEW q \in Borrowers
               PROVE  state'[q] = "waiting" <=> \E k \in DOMAIN line' : line'[k] = q
    OBVIOUS
  <2>1. state'[q] = "waiting" <=> state[q] = "waiting" /\ q # b
    BY <1>0, <1>2
  <2>2. ASSUME state[q] = "waiting", q # b
        PROVE  \E k \in DOMAIN line' : line'[k] = q
    <3>1. PICK j \in DOMAIN line : line[j] = q
      BY <2>2 DEF PoolInv, LineKept
    <3>2. CASE j < i
      <4>1. j \in DOMAIN line' /\ line'[j] = line[j]
        BY <1>0, <1>1, <1>5, <1>6, <3>1, <3>2
      <4> QED BY <3>1, <4>1
    <3>3. CASE j > i
      <4>1. j - 1 \in 1 .. Len(line) - 1 /\ ~(j - 1 < i) /\ (j - 1) + 1 = j
        BY <1>0, <1>1, <3>1, <3>3
      <4> QED BY <1>5, <1>6, <3>1, <4>1
    <3> QED BY <1>0, <1>1, <2>2, <3>1, <3>2, <3>3
  <2>3. ASSUME NEW k \in DOMAIN line', line'[k] = q
        PROVE  state[q] = "waiting" /\ q # b
    <3>1. old(k) \in DOMAIN line /\ old(k) # i /\ line[old(k)] = q
      BY <1>9, <2>3
    <3> HIDE DEF old
    <3> QED BY <1>1, <3>1 DEF PoolInv, LineKept
  <2> QED BY <2>1, <2>2, <2>3
<1>11. ASSUME NEW j \in DOMAIN line', NEW k \in DOMAIN line', line'[j] = line'[k]
       PROVE  j = k
  <2>1. old(j) = old(k)
    <3>1. /\ old(j) \in DOMAIN line /\ old(k) \in DOMAIN line
          /\ line[old(j)] = line[old(k)]
      BY <1>9, <1>11
    <3> HIDE DEF old
    <3> QED BY <3>1 DEF PoolInv, LineKept
  <2> QED BY <1>0, <1>1, <1>6, <2>1
<1> QED BY <1>4, <1>7, <1>8, <1>10, <1>11 DEF PoolInv, LineKept

LEMMA PoolInit == Init => PoolInv
<1> SUFFICES ASSUME Init PROVE PoolInv
  OBVIOUS
<1>1. Borrowed = {}
  BY DEF Init, Borrowed
<1>2. Cardinality(Borrowed) = 0
  BY <1>1, FS_EmptySet
<1> QED BY <1>2, PoolAssumption DEF Init, PoolInv, TypeOK, NoLeak, LineKept, States

LEMMA PoolStep == PoolInv /\ [Next]_vars => PoolInv'
<1> SUFFICES ASSUME PoolInv, [Next]_vars PROVE PoolInv'
  OBVIOUS
<1>1. ASSUME NEW b \in Borrowers, Ready(b)
      PROVE  PoolInv'
  <2>1. /\ state' = [state EXCEPT ![b] = "holding"] /\ line' = line /\ free' = free
        /\ state[b] = "setup" /\ state \in [Borrowers -> States] /\ loop' \in Jobs \cup {None}
    BY <1>1 DEF Ready, LoopAfter, PoolInv, TypeOK
  <2>2. Borrowed' = Borrowed
    BY <2>1 DEF Borrowed
  <2> QED BY <2>1, <2>2 DEF PoolInv, TypeOK, NoLeak, LineKept, States
<1>2. ASSUME NEW b \in Borrowers, SetupFails(b)
      PROVE  PoolInv'
  BY <1>2, GiveBackKeeps DEF SetupFails, LoopAfter, PoolInv, TypeOK
<1>3. ASSUME NEW b \in Borrowers, Close(b)
      PROVE  PoolInv'
  BY <1>3, GiveBackKeeps DEF Close, PoolInv, TypeOK
<1>4. CASE UNCHANGED vars
  BY <1>4 DEF vars, PoolInv, TypeOK, NoLeak, LineKept, Borrowed
<1> QED BY <1>1, <1>2, <1>3, <1>4, AskKeeps, TimeOutKeeps DEF Next

THEOREM PoolCorrect == Spec => []PoolInv
BY PoolInit, PoolStep, PTL DEF Spec

\* No connection leaks, whatever fails and whoever gives up.
THEOREM NoLeakHolds == Spec => []NoLeak
<1>1. PoolInv => NoLeak
  BY DEF PoolInv
<1> QED BY <1>1, PoolCorrect, PTL
===============================================================================
