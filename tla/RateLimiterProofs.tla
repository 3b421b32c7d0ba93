-------------------------- MODULE RateLimiterProofs ---------------------------
(***************************************************************************)
(* For every rate, number of runs and collectors: what a bucket lets       *)
(* through in any stretch of time, and that one sleep is enough.           *)
(***************************************************************************)
EXTENDS RateLimiter, SequenceTheorems, TLAPS

\* Arithmetic the solver does not find inside larger goals.
LEMMA Distribute ==
    ASSUME NEW a \in Int, NEW b \in Int, NEW c \in Int
    PROVE  /\ (a + b) * c = a * c + b * c /\ c * (a + b) = c * a + c * b
           /\ (a - b) * c = a * c - b * c /\ c * (a - b) = c * a - c * b
OBVIOUS

LEMMA Multiples ==
    ASSUME NEW a \in Nat, NEW b \in Nat, NEW c \in Nat, a <= b
    PROVE  c * a <= c * b /\ a * c <= b * c /\ c * a \in Nat
OBVIOUS

\* Rounded up, the sleep is long enough for what is missing.
LEMMA RoundedUp ==
    ASSUME NEW missing \in Nat, NEW gain \in Nat \ {0}
    PROVE  /\ (missing + gain - 1) \div gain \in Nat
           /\ missing <= gain * ((missing + gain - 1) \div gain)
<1>1. missing + gain - 1 \in Nat
  OBVIOUS
<1> DEFINE all == missing + gain - 1
           quotient == all \div gain
           rest == all % gain
<1>2. all = gain * quotient + rest /\ rest \in 0 .. gain - 1 /\ quotient \in Nat
  BY <1>1
<1> HIDE DEF quotient, rest
<1>3. gain * quotient \in Nat
  BY <1>2
<1> QED BY <1>2, <1>3 DEF quotient

\* A bucket holds a token when it is full, and a refill keeps it within its capacity.
LEMMA CapacityType == Capacity \in Nat /\ Cost <= Capacity /\ Gain \in Nat /\ Cost \in Nat /\ Cost > 0
<1>1. Gain * Second \in Nat
  BY RateAssumption
<1> QED BY <1>1, RateAssumption DEF Capacity

LEMMA RefilledType ==
    ASSUME TypeOK, NEW r \in Runs, updated[r] <= now
    PROVE  /\ Refilled(r) \in 0 .. Capacity
           /\ Refilled(r) <= tokens[r] + Gain * (now - updated[r])
           /\ Refilled(r) = Capacity \/ Refilled(r) = tokens[r] + Gain * (now - updated[r])
<1>1. tokens[r] \in 0 .. Capacity /\ now - updated[r] \in Nat
  BY DEF TypeOK
<1>2. Gain * (now - updated[r]) \in Nat
  BY <1>1, CapacityType
<1> QED BY <1>1, <1>2, CapacityType DEF Refilled

\* What is left of the queue are collectors of the run.
LEMMA QueueType ==
    ASSUME TypeOK, NEW r \in Runs, NEW c \in Collectors
    PROVE  /\ Append(queue[r], c) \in Seq(Collectors)
           /\ queue[r] # <<>> => Tail(queue[r]) \in Seq(Collectors)
BY DEF TypeOK

\* A collector leaves the queue from wherever it stands.
LEMMA RemoveType ==
    ASSUME TypeOK, NEW r \in Runs, NEW i \in DOMAIN queue[r]
    PROVE  /\ RemoveAt(queue[r], i) \in Seq(Collectors)
           /\ i # 1 => RemoveAt(queue[r], i) # <<>>
<1>1. queue[r] \in Seq(Collectors) /\ i \in 1 .. Len(queue[r]) /\ Len(queue[r]) \in Nat
  BY DEF TypeOK
<1>2. /\ SubSeq(queue[r], 1, i - 1) \in Seq(Collectors)
      /\ SubSeq(queue[r], i + 1, Len(queue[r])) \in Seq(Collectors)
      /\ Len(SubSeq(queue[r], 1, i - 1)) = i - 1
  BY <1>1, SubSeqProperties
<1>3. /\ RemoveAt(queue[r], i) \in Seq(Collectors)
      /\ Len(RemoveAt(queue[r], i)) >= i - 1
  BY <1>1, <1>2, ConcatProperties, LenProperties DEF RemoveAt
<1> QED BY <1>1, <1>3, EmptySeq

LEMMA TypeInit == Init => TypeOK
BY CapacityType, RateAssumption DEF Init, TypeOK

\* The tokens stay within the capacity because no bucket was refilled in the future.
LEMMA TypeStep == TypeOK /\ (\A r \in Runs : updated[r] <= now) /\ [Next]_vars => TypeOK'
<1> SUFFICES ASSUME TypeOK, \A r \in Runs : updated[r] <= now, [Next]_vars PROVE TypeOK'
  OBVIOUS
<1>0. now + 1 \in Nat
  BY DEF TypeOK
<1>1. ASSUME NEW r \in Runs, NEW c \in Collectors, Acquire(r, c)
      PROVE  TypeOK'
  <2>1. Append(queue[r], c) \in Seq(Collectors)
    BY QueueType
  <2>2. asked[r][c] \in 0 .. MaxRequests /\ asked[r] \in [Collectors -> 0 .. MaxRequests]
    BY DEF TypeOK
  <2>3. asked[r][c] + 1 \in 0 .. MaxRequests
    BY <1>1, <2>2, RateAssumption DEF Acquire
  <2>4. asked' = [asked EXCEPT ![r] = [asked[r] EXCEPT ![c] = asked[r][c] + 1]]
    BY <1>1 DEF Acquire
  <2>5. [asked[r] EXCEPT ![c] = asked[r][c] + 1] \in [Collectors -> 0 .. MaxRequests]
    BY <2>2, <2>3
  <2>6. asked' \in [Runs -> [Collectors -> 0 .. MaxRequests]]
    BY <2>4, <2>5 DEF TypeOK
  <2>7. queue' \in [Runs -> Seq(Collectors)]
    BY <1>1, <2>1 DEF Acquire, TypeOK
  <2> QED BY <1>1, <2>6, <2>7 DEF Acquire, TypeOK
<1>2. ASSUME NEW r \in Runs, Grant(r)
      PROVE  TypeOK'
  <2>1. Refilled(r) - Cost \in 0 .. Capacity
    BY <1>2, RefilledType, CapacityType DEF Grant
  <2>2. Append(sent[r], now) \in Seq(Nat)
    BY DEF TypeOK
  <2>3. Tail(queue[r]) \in Seq(Collectors)
    BY <1>2 DEF Grant, HolderRuns, TypeOK
  <2> QED BY <1>2, <2>1, <2>2, <2>3 DEF Grant, TypeOK
<1>3. ASSUME NEW r \in Runs, Sleep(r)
      PROVE  TypeOK'
  <2>1. Refilled(r) \in 0 .. Capacity
    BY RefilledType
  <2>2. Cost - Refilled(r) \in Nat
    BY <1>3, <2>1, CapacityType DEF Sleep
  <2>3. Deficit(r) \in Nat
    BY <2>2, RoundedUp, RateAssumption DEF Deficit
  <2>4. now + Deficit(r) \in Nat
    BY <2>3 DEF TypeOK
  <2> QED BY <1>3, <2>1, <2>4 DEF Sleep, TypeOK
<1>4. ASSUME NEW r \in Runs, NEW c \in Collectors, Cancel(r, c)
      PROVE  TypeOK'
  <2>1. PICK i \in DOMAIN queue[r] :
           /\ queue' = [queue EXCEPT ![r] = RemoveAt(queue[r], i)]
           /\ due' = [due EXCEPT ![r] = IF i = 1 THEN 0 ELSE due[r]]
    BY <1>4 DEF Cancel
  <2>2. RemoveAt(queue[r], i) \in Seq(Collectors)
    BY RemoveType
  <2> QED BY <1>4, <2>1, <2>2 DEF Cancel, TypeOK
<1>5. CASE Tick
  BY <1>0, <1>5 DEF Tick, TypeOK
<1>6. CASE UNCHANGED vars
  BY <1>6 DEF vars, TypeOK
<1> QED BY <1>1, <1>2, <1>3, <1>4, <1>5, <1>6 DEF Next

-------------------------------------------------------------------------------
(* The budget of a bucket *)

\* What the holder of a lock works with.
LEMMA HolderFacts ==
    ASSUME LimiterInv, NEW r \in Runs
    PROVE  /\ Refilled(r) \in Nat /\ tokens[r] \in Nat /\ now \in Nat /\ updated[r] \in Nat
           /\ Refilled(r) <= Capacity
           /\ Refilled(r) <= tokens[r] + Gain * (now - updated[r])
           /\ sent[r] \in Seq(Nat) /\ Len(sent[r]) \in Nat
           /\ \A i \in DOMAIN sent[r] : i \in 1 .. Len(sent[r]) /\ sent[r][i] \in Nat
<1>1. TypeOK /\ updated[r] <= now
  BY DEF LimiterInv, Budget
<1>2. tokens[r] \in 0 .. Capacity /\ updated[r] \in Nat /\ now \in Nat /\ sent[r] \in Seq(Nat)
  BY <1>1 DEF TypeOK
<1>3. Capacity \in Nat /\ Refilled(r) \in Nat /\ tokens[r] \in Nat
  BY <1>1, <1>2, RefilledType, CapacityType
<1>4. Refilled(r) <= Capacity /\ Refilled(r) <= tokens[r] + Gain * (now - updated[r])
  BY <1>1, RefilledType
<1>5. Len(sent[r]) \in Nat /\ \A i \in DOMAIN sent[r] : i \in 1 .. Len(sent[r]) /\ sent[r][i] \in Nat
  BY <1>2
<1> QED BY <1>2, <1>3, <1>4, <1>5

\* Refilling spends nothing: seen from now, an earlier request's budget still covers what
\* was let through since and what the refilled bucket holds.
LEMMA RefillBudget ==
    ASSUME LimiterInv, NEW r \in Runs, NEW i \in DOMAIN sent[r]
    PROVE  /\ sent[r][i] <= now
           /\ (Len(sent[r]) - i + 1) * Cost + Refilled(r) <= Capacity + Gain * (now - sent[r][i])
<1> DEFINE left == Len(sent[r]) - i + 1
           early == updated[r] - sent[r][i]
           late == now - updated[r]
<1>1. sent[r][i] <= updated[r] /\ updated[r] <= now
      /\ left * Cost + tokens[r] <= Capacity + Gain * early
  BY DEF LimiterInv, Budget
<1>2. /\ i \in 1 .. Len(sent[r]) /\ Len(sent[r]) \in Nat /\ sent[r][i] \in Nat
      /\ updated[r] \in Nat /\ now \in Nat
  BY HolderFacts
<1>3. left \in Nat /\ early \in Nat /\ late \in Nat /\ now - sent[r][i] = early + late
  <2>1. left \in Nat
    BY <1>2
  <2>2. \A a, b, c \in Nat : a <= b /\ b <= c =>
           b - a \in Nat /\ c - b \in Nat /\ c - a = (b - a) + (c - b)
    OBVIOUS
  <2> QED BY <1>1, <1>2, <2>1, <2>2
<1>4. Refilled(r) <= tokens[r] + Gain * late /\ Refilled(r) \in Nat /\ tokens[r] \in Nat
  BY HolderFacts
<1> HIDE DEF left, early, late
<1>5. Gain * (early + late) = Gain * early + Gain * late
  BY <1>3, Distribute, CapacityType
<1>6. left * Cost \in Nat /\ Gain * early \in Nat /\ Gain * late \in Nat
  BY <1>3, CapacityType
<1>7. left * Cost + Refilled(r) <= Capacity + Gain * (early + late)
  BY <1>1, <1>4, <1>5, <1>6, CapacityType
<1>8. sent[r][i] <= now
  BY <1>1, <1>2
<1> QED BY <1>3, <1>7, <1>8 DEF left

\* The budget after a token is taken covers one request more.
LEMMA GrantBudget ==
    ASSUME LimiterInv, NEW r \in Runs, Grant(r)
    PROVE  Budget(r)' /\ Paid(r)' /\ \A i, k \in DOMAIN sent'[r] : i <= k =>
              (k - i + 1) * Cost <= Capacity + Gain * (sent'[r][k] - sent'[r][i])
<1> DEFINE n == Len(sent[r])
<1>0. TypeOK /\ n \in Nat /\ now \in Nat /\ Refilled(r) \in Nat /\ Cost <= Refilled(r)
      /\ Refilled(r) <= Capacity
  BY HolderFacts DEF LimiterInv, Grant
<1>1. /\ tokens'[r] = Refilled(r) - Cost /\ updated'[r] = now /\ due'[r] = 0 /\ now' = now
      /\ sent'[r] = Append(sent[r], now)
  BY <1>0 DEF Grant, TypeOK
<1>2. /\ DOMAIN sent'[r] = 1 .. n + 1 /\ Len(sent'[r]) = n + 1 /\ sent'[r][n + 1] = now
      /\ \A i \in 1 .. n : i \in DOMAIN sent[r] /\ sent'[r][i] = sent[r][i] /\ sent[r][i] \in Nat
  BY <1>1, HolderFacts
<1>3. ASSUME NEW i \in 1 .. n + 1
      PROVE  /\ sent'[r][i] <= now /\ sent'[r][i] \in Nat
             /\ (n + 1 - i + 1) * Cost + tokens'[r] <= Capacity + Gain * (now - sent'[r][i])
  <2>1. CASE i \in 1 .. n
    <3>1. sent[r][i] <= now
          /\ (n - i + 1) * Cost + Refilled(r) <= Capacity + Gain * (now - sent[r][i])
      BY <1>2, <2>1, RefillBudget
    <3>2. n + 1 - i + 1 = (n - i + 1) + 1 /\ n - i + 1 \in Nat
      BY <1>0, <2>1
    <3>3. (n + 1 - i + 1) * Cost = (n - i + 1) * Cost + Cost /\ (n - i + 1) * Cost \in Nat
      BY <3>2, Distribute, CapacityType, Multiples
    <3> QED BY <1>0, <1>1, <1>2, <2>1, <3>1, <3>3, CapacityType
  <2>2. CASE i = n + 1
    <3>1. (n + 1 - i + 1) * Cost = Cost /\ Gain * (now - sent'[r][i]) = 0
      BY <1>0, <1>2, <2>2, CapacityType
    <3> QED BY <1>0, <1>1, <1>2, <2>2, <3>1, CapacityType
  <2> QED BY <1>0, <2>1, <2>2
<1>4. Budget(r)' /\ Paid(r)'
  BY <1>0, <1>1, <1>2, <1>3 DEF Budget, Paid
<1>5. ASSUME NEW i \in DOMAIN sent'[r], NEW k \in DOMAIN sent'[r], i <= k
      PROVE  (k - i + 1) * Cost <= Capacity + Gain * (sent'[r][k] - sent'[r][i])
  <2>1. CASE k \in 1 .. n
    <3>1. /\ i \in DOMAIN sent[r] /\ k \in DOMAIN sent[r]
          /\ sent'[r][i] = sent[r][i] /\ sent'[r][k] = sent[r][k]
      BY <1>0, <1>2, <1>5, <2>1
    <3> QED BY <1>5, <3>1 DEF LimiterInv, Throttled
  <2>2. CASE k = n + 1
    <3>1. (n + 1 - i + 1) * Cost + tokens'[r] <= Capacity + Gain * (now - sent'[r][i])
      BY <1>2, <1>3
    <3>2. tokens'[r] \in Nat /\ n + 1 - i + 1 \in Nat /\ now - sent'[r][i] \in Nat
      <4>1. i \in 1 .. n + 1 /\ sent'[r][i] <= now /\ sent'[r][i] \in Nat
        BY <1>2, <1>3
      <4>2. Refilled(r) - Cost \in Nat
        BY <1>0, CapacityType
      <4>3. \A a, b \in Nat : a <= b => b - a \in Nat
        OBVIOUS
      <4>4. n + 1 - i + 1 \in Nat
        BY <1>0, <4>1
      <4> QED BY <1>0, <1>1, <4>1, <4>2, <4>3, <4>4
    <3>3. (n + 1 - i + 1) * Cost \in Nat /\ Gain * (now - sent'[r][i]) \in Nat
      BY <3>2, CapacityType, Multiples
    <3>4. (n + 1 - i + 1) * Cost <= Capacity + Gain * (now - sent'[r][i])
      BY <3>1, <3>2, <3>3, CapacityType
    <3> QED BY <1>2, <2>2, <3>4
  <2> QED BY <1>0, <1>2, <2>1, <2>2
<1> QED BY <1>4, <1>5

\* The sleep brings what is missing.
LEMMA SleepBudget ==
    ASSUME LimiterInv, NEW r \in Runs, Sleep(r)
    PROVE  Budget(r)' /\ Paid(r)'
<1>0. TypeOK /\ now \in Nat /\ Refilled(r) \in Nat /\ Refilled(r) < Cost
  BY HolderFacts DEF LimiterInv, Sleep
<1>1. /\ tokens'[r] = Refilled(r) /\ updated'[r] = now /\ due'[r] = now + Deficit(r)
      /\ sent' = sent /\ now' = now /\ queue' = queue /\ queue[r] # <<>>
  BY <1>0 DEF Sleep, HolderRuns, TypeOK
<1>2. Budget(r)'
  BY <1>0, <1>1, RefillBudget DEF Budget
<1>3. Deficit(r) \in Nat /\ Cost - Refilled(r) <= Gain * Deficit(r)
  <2>1. Cost - Refilled(r) \in Nat
    BY <1>0, CapacityType
  <2> QED BY <2>1, RoundedUp, RateAssumption DEF Deficit
<1>4. due'[r] - updated'[r] = Deficit(r) /\ updated'[r] <= due'[r]
  BY <1>0, <1>1, <1>3
<1>5. Gain * Deficit(r) \in Nat
  BY <1>3, CapacityType
<1>6. Cost <= tokens'[r] + Gain * (due'[r] - updated'[r])
  BY <1>0, <1>1, <1>3, <1>4, <1>5, CapacityType
<1> QED BY <1>1, <1>2, <1>4, <1>6 DEF Paid

-------------------------------------------------------------------------------
(* The invariant *)

LEMMA LimiterInit == Init => LimiterInv
<1> SUFFICES ASSUME Init PROVE LimiterInv
  OBVIOUS
<1>1. TypeOK
  BY TypeInit
<1>2. Throttled /\ \A r \in Runs : Budget(r) /\ Paid(r)
  BY DEF Init, Throttled, Budget, Paid
<1> QED BY <1>1, <1>2 DEF LimiterInv

LEMMA LimiterStep == LimiterInv /\ [Next]_vars => LimiterInv'
<1> SUFFICES ASSUME LimiterInv, [Next]_vars PROVE LimiterInv'
  OBVIOUS
<1>0. TypeOK /\ now \in Nat /\ \A r \in Runs : updated[r] <= now /\ updated[r] \in Nat
  BY DEF LimiterInv, Budget, TypeOK
<1>1. TypeOK'
  BY <1>0, TypeStep
<1>2. ASSUME NEW r \in Runs, Grant(r) \/ Sleep(r)
      PROVE  LimiterInv'
  <2>1. ASSUME NEW q \in Runs, q # r
        PROVE  /\ tokens'[q] = tokens[q] /\ updated'[q] = updated[q] /\ queue'[q] = queue[q]
               /\ due'[q] = due[q] /\ sent'[q] = sent[q] /\ now' = now
    BY <1>0, <1>2, <2>1 DEF Grant, Sleep, TypeOK
  <2>2. \A q \in Runs : Budget(q)' /\ Paid(q)'
    <3> SUFFICES ASSUME NEW q \in Runs PROVE Budget(q)' /\ Paid(q)'
      OBVIOUS
    <3>1. CASE q = r
      BY <1>2, <3>1, GrantBudget, SleepBudget
    <3>2. CASE q # r
      BY <2>1, <3>2 DEF LimiterInv, Budget, Paid
    <3> QED BY <3>1, <3>2
  <2>3. Throttled'
    <3> SUFFICES ASSUME NEW q \in Runs, NEW i \in DOMAIN sent'[q], NEW k \in DOMAIN sent'[q], i <= k
                 PROVE  (k - i + 1) * Cost <= Capacity + Gain * (sent'[q][k] - sent'[q][i])
      BY DEF Throttled, Capacity
    <3>1. CASE q = r /\ Grant(r)
      BY <3>1, GrantBudget
    <3>2. CASE q # r \/ ~Grant(r)
      <4>1. sent'[q] = sent[q]
        BY <1>2, <2>1, <3>2 DEF Sleep
      <4> QED BY <4>1 DEF LimiterInv, Throttled
    <3> QED BY <3>1, <3>2
  <2> QED BY <1>1, <2>2, <2>3 DEF LimiterInv
<1>3. ASSUME NEW r \in Runs, NEW c \in Collectors, Acquire(r, c)
      PROVE  LimiterInv'
  <2>1. \A q \in Runs : queue[q] # <<>> => queue'[q] # <<>>
    <3>1. queue[r] \in Seq(Collectors) /\ queue' = [queue EXCEPT ![r] = Append(queue[r], c)]
      BY <1>0, <1>3 DEF Acquire, TypeOK
    <3>2. Append(queue[r], c) # <<>>
      BY <3>1
    <3> QED BY <1>0, <3>1, <3>2 DEF TypeOK
  <2> QED BY <1>1, <1>3, <2>1 DEF Acquire, LimiterInv, Throttled, Budget, Paid
<1>4. ASSUME NEW r \in Runs, NEW c \in Collectors, Cancel(r, c)
      PROVE  LimiterInv'
  <2>1. PICK i \in DOMAIN queue[r] :
           /\ queue' = [queue EXCEPT ![r] = RemoveAt(queue[r], i)]
           /\ due' = [due EXCEPT ![r] = IF i = 1 THEN 0 ELSE due[r]]
    BY <1>4 DEF Cancel
  <2>2. \A q \in Runs : due'[q] # 0 => due'[q] = due[q] /\ (queue[q] # <<>> => queue'[q] # <<>>)
    BY <1>0, <2>1, RemoveType DEF TypeOK
  <2> QED BY <1>1, <1>4, <2>2 DEF Cancel, LimiterInv, Throttled, Budget, Paid
<1>5. CASE Tick
  BY <1>0, <1>1, <1>5 DEF Tick, LimiterInv, Throttled, Budget, Paid
<1>6. CASE UNCHANGED vars
  BY <1>1, <1>6 DEF vars, LimiterInv, Throttled, Budget, Paid
<1> QED BY <1>2, <1>3, <1>4, <1>5, <1>6 DEF Next

THEOREM LimiterCorrect == Spec => []LimiterInv
BY LimiterInit, LimiterStep, PTL DEF Spec

\* In any stretch of time a bucket lets through at most a burst and what its rate brings.
THEOREM ThrottledHolds == Spec => []Throttled
<1>1. LimiterInv => Throttled
  BY DEF LimiterInv
<1> QED BY <1>1, LimiterCorrect, PTL

\* A holder whose sleep is over finds a token.
THEOREM SleptEnoughHolds == Spec => []SleptEnough
<1>1. LimiterInv => SleptEnough
  <2> SUFFICES ASSUME LimiterInv, NEW r \in Runs, due[r] # 0, due[r] <= now
               PROVE  Refilled(r) >= Cost
    BY DEF SleptEnough
  <2>1. /\ Cost <= tokens[r] + Gain * (due[r] - updated[r]) /\ updated[r] <= due[r]
        /\ updated[r] <= now /\ TypeOK
    BY DEF LimiterInv, Paid, Budget
  <2>2. due[r] - updated[r] \in Nat /\ now - updated[r] \in Nat
        /\ due[r] - updated[r] <= now - updated[r] /\ tokens[r] \in Nat
    BY <2>1, HolderFacts DEF TypeOK
  <2>3. Gain * (due[r] - updated[r]) <= Gain * (now - updated[r])
        /\ Gain * (due[r] - updated[r]) \in Nat /\ Gain * (now - updated[r]) \in Nat
    BY <2>2, Multiples, CapacityType
  <2> QED BY <2>1, <2>2, <2>3, RefilledType, CapacityType
<1> QED BY <1>1, LimiterCorrect, PTL
===============================================================================
