------------------------------ MODULE JobsProofs ------------------------------
(***************************************************************************)
(* Proofs about the SSE fan-out of module Jobs, for any number of jobs,    *)
(* subscribers, event contents and events.                                 *)
(***************************************************************************)
EXTENDS Jobs, SequenceTheorems, TLAPS

Item == Event \cup {END}

-------------------------------------------------------------------------------
(* Facts about the sequences a subscriber's line is made of *)

\* Handing over the head of a queue leaves delivered-then-queued as it was.
LEMMA HandOver ==
    ASSUME NEW S, NEW d \in Seq(S), NEW q \in Seq(S), q # <<>>
    PROVE  Append(d, Head(q)) \o Tail(q) = d \o q
<1> DEFINE a == Append(d, Head(q))
           lhs == a \o Tail(q)
           rhs == d \o q
<1>1. /\ Head(q) \in S /\ Tail(q) \in Seq(S) /\ Len(Tail(q)) = Len(q) - 1
      /\ \A i \in 1 .. Len(Tail(q)) : Tail(q)[i] = q[i+1]
      /\ Head(q) = q[1] /\ Len(d) \in Nat /\ Len(q) \in Nat \ {0}
  BY HeadTailProperties, EmptySeq, LenProperties
<1>2. /\ a \in Seq(S) /\ Len(a) = Len(d) + 1
      /\ \A i \in 1 .. Len(d) : a[i] = d[i]
      /\ a[Len(d) + 1] = q[1]
  BY <1>1, AppendProperties
<1> HIDE DEF a
<1>3. /\ lhs \in Seq(S) /\ Len(lhs) = Len(a) + Len(Tail(q))
      /\ \A i \in 1 .. Len(a) + Len(Tail(q)) :
            lhs[i] = IF i <= Len(a) THEN a[i] ELSE Tail(q)[i - Len(a)]
  BY <1>1, <1>2, ConcatProperties
<1>4. /\ rhs \in Seq(S) /\ Len(rhs) = Len(d) + Len(q)
      /\ \A i \in 1 .. Len(d) + Len(q) :
            rhs[i] = IF i <= Len(d) THEN d[i] ELSE q[i - Len(d)]
  BY ConcatProperties
<1> HIDE DEF lhs, rhs
<1>5. Len(lhs) = Len(rhs)
  BY <1>1, <1>2, <1>3, <1>4
<1>6. ASSUME NEW i \in 1 .. Len(lhs) PROVE lhs[i] = rhs[i]
  <2>1. CASE i <= Len(d)
    <3>1. lhs[i] = a[i] /\ i \in 1 .. Len(d)
      BY <2>1, <1>1, <1>2, <1>3
    <3>2. rhs[i] = d[i]
      BY <2>1, <3>1, <1>1, <1>4
    <3>. QED BY <3>1, <3>2, <1>2
  <2>2. CASE i = Len(d) + 1
    BY <2>2, <1>1, <1>2, <1>3, <1>4, <1>5
  <2>3. CASE i > Len(d) + 1
    <3>1. i - Len(a) \in 1 .. Len(Tail(q))
      BY <2>3, <1>1, <1>2, <1>3
    <3>2. lhs[i] = q[(i - Len(a)) + 1]
      BY <3>1, <2>3, <1>1, <1>2, <1>3
    <3>. QED BY <3>2, <2>3, <1>1, <1>2, <1>4, <1>5
  <2>. QED BY <2>1, <2>2, <2>3, <1>1, <1>2, <1>3
<1>7. lhs = rhs
  BY <1>3, <1>4, <1>5, <1>6, SeqEqual
<1>. QED BY <1>7 DEF lhs, rhs, a

\* The sentinel behind the queue is the sentinel behind the line.
LEMMA SentinelToLine ==
    ASSUME NEW S, NEW l \in Seq(S), NEW q \in Seq(S), NEW z \in S
    PROVE  l \o Append(q, z) = Append(l \o q, z)
<1>1. <<z>> \in Seq(S)
  OBVIOUS
<1>2. l \o q \in Seq(S)
  BY ConcatProperties
<1>3. Append(q, z) = q \o <<z>> /\ Append(l \o q, z) = (l \o q) \o <<z>>
  BY <1>2, AppendIsConcat
<1>. QED BY <1>1, <1>3, ConcatAssociative

\* A line with the sentinel at the front of its queue is no log without a sentinel.
LEMMA SentinelShows ==
    ASSUME NEW S, NEW z, z \notin S, NEW d \in Seq(S), NEW log \in Seq(S),
           NEW q \in Seq(S \cup {z}), q # <<>>, Head(q) = z
    PROVE  d \o q # log
<1> DEFINE T == S \cup {z}
<1>1. d \in Seq(T) /\ q \in Seq(T)
  BY SeqMonotonic
<1> HIDE DEF T
<1>2. /\ Len(d \o q) = Len(d) + Len(q)
      /\ \A i \in 1 .. Len(d) + Len(q) :
            (d \o q)[i] = IF i <= Len(d) THEN d[i] ELSE q[i - Len(d)]
  BY <1>1, ConcatProperties
<1>3. Len(d) \in Nat /\ Len(q) \in Nat \ {0} /\ q[1] = z
  BY <1>1, EmptySeq, LenProperties
<1>4. /\ Len(d) + 1 \in 1 .. Len(d) + Len(q) /\ ~(Len(d) + 1 <= Len(d))
      /\ (Len(d) + 1) - Len(d) = 1
  BY <1>3
<1>5. (d \o q)[Len(d) + 1] = z /\ Len(d) + 1 \in 1 .. Len(d \o q)
  BY <1>2, <1>3, <1>4
<1>. QED BY <1>5, ElementOfSeq

\* A line that reads delivered, then the sentinel, then more, and is the event log closed
\* by a sentinel, where the log holds none: everything in the log has been delivered.
LEMMA SentinelMeansAll ==
    ASSUME NEW S, NEW z, z \notin S, NEW d \in Seq(S), NEW log \in Seq(S),
           NEW q \in Seq(S \cup {z}), q # <<>>, Head(q) = z,
           d \o q = Append(log, z)
    PROVE  d = log
<1> DEFINE T == S \cup {z}
<1>1. d \in Seq(T) /\ log \in Seq(T) /\ q \in Seq(T) /\ z \in T
  BY SeqMonotonic
<1> HIDE DEF T
<1>2. /\ Len(d \o q) = Len(d) + Len(q)
      /\ \A i \in 1 .. Len(d) + Len(q) :
            (d \o q)[i] = IF i <= Len(d) THEN d[i] ELSE q[i - Len(d)]
  BY <1>1, ConcatProperties
<1>a. Len(d) \in Nat /\ Len(q) \in Nat \ {0} /\ Len(log) \in Nat /\ q[1] = z
  BY <1>1, EmptySeq, LenProperties
<1>3. /\ Len(Append(log, z)) = Len(log) + 1
      /\ \A i \in 1 .. Len(log) : Append(log, z)[i] = log[i]
  BY <1>1, AppendProperties
<1>b. Len(d) + Len(q) = Len(log) + 1
  BY <1>2, <1>3
<1>4. (d \o q)[Len(d) + 1] = z /\ Len(d) + 1 \in 1 .. Len(log) + 1
  <2>1. Len(d) + 1 \in 1 .. Len(d) + Len(q) /\ ~(Len(d) + 1 <= Len(d))
    BY <1>a
  <2>2. (d \o q)[Len(d) + 1] = q[(Len(d) + 1) - Len(d)] /\ (Len(d) + 1) - Len(d) = 1
    BY <1>2, <1>a, <2>1
  <2>. QED BY <1>a, <1>b, <2>1, <2>2
<1>5. Len(d) + 1 \notin 1 .. Len(log)
  <2>1. SUFFICES ASSUME Len(d) + 1 \in 1 .. Len(log) PROVE FALSE
    OBVIOUS
  <2>2. log[Len(d) + 1] = z
    BY <1>3, <1>4, <2>1
  <2>. QED BY <2>1, <2>2, ElementOfSeq
<1>6. Len(d) = Len(log)
  BY <1>a, <1>4, <1>5
<1>7. ASSUME NEW i \in 1 .. Len(d) PROVE d[i] = log[i]
  <2>1. i \in 1 .. Len(d) + Len(q) /\ i <= Len(d) /\ i \in 1 .. Len(log)
    BY <1>a, <1>6
  <2>. QED BY <1>2, <1>3, <2>1
<1>. QED BY <1>6, <1>7, SeqEqual

-------------------------------------------------------------------------------
(* Type correctness *)

LEMMA PublishTypes ==
    ASSUME TypeOK, NEW j \in JobIds, NEW logged \in Seq(Event), NEW over \in BOOLEAN,
           Publish(j, logged, over)
    PROVE  events' \in [JobIds -> Seq(Event)] /\ queue' \in [Subscribers -> Seq(Item)]
<1>1. events[j] \o logged \in Seq(Event)
  BY ConcatProperties DEF TypeOK
<1>2. ASSUME NEW s \in Subscribers
      PROVE  /\ queue[s] \in Seq(Item)
             /\ queue[s] \o logged \in Seq(Item)
             /\ Append(queue[s] \o logged, END) \in Seq(Item)
  <2>1. queue[s] \in Seq(Item) /\ logged \in Seq(Item) /\ END \in Item
    BY SeqMonotonic DEF TypeOK, Item
  <2>2. queue[s] \o logged \in Seq(Item)
    BY <2>1, ConcatProperties
  <2>. QED BY <2>1, <2>2, AppendProperties
<1>. QED BY <1>1, <1>2 DEF Publish, TypeOK

LEMMA TypeInit == Init => TypeOK
<1>1. <<>> \in Seq(Event) /\ <<>> \in Seq(Event \cup {END})
  BY EmptySeq
<1>. QED BY <1>1 DEF Init, TypeOK, Statuses, Phases

LEMMA TypeStep == TypeOK /\ [Next]_vars => TypeOK'
<1> SUFFICES ASSUME TypeOK, [Next]_vars PROVE TypeOK'
  OBVIOUS
<1> USE DEF TypeOK, Statuses, Phases
<1>0. "done" \in Event /\ "error" \in Event /\ Progress \subseteq Event
  BY DEF Event
<1>a. /\ \A e \in Event : <<e>> \in Seq(Event)
      /\ <<>> \in Seq(Event)
  BY EmptySeq
<1>1. ASSUME NEW j \in JobIds, Submit(j) \/ Start(j) PROVE TypeOK'
  BY <1>1 DEF Submit, Start
<1>2. ASSUME NEW j \in JobIds, NEW e \in Progress, Report(j, e) PROVE TypeOK'
  <2>1. <<e>> \in Seq(Event) /\ Publish(j, <<e>>, FALSE)
    BY <1>0, <1>a, <1>2 DEF Report
  <2>2. events' \in [JobIds -> Seq(Event)] /\ queue' \in [Subscribers -> Seq(Item)]
    BY ONLY <2>1, PublishTypes, TypeOK, j \in JobIds, FALSE \in BOOLEAN
  <2>3. UNCHANGED <<phase, feed, replay, closing, delivered, late>>
    BY ONLY <2>1 DEF Publish
  <2>4. UNCHANGED <<status, finished>>
    BY ONLY <1>2 DEF Report
  <2>. QED BY <2>2, <2>3, <2>4 DEF Item
<1>12. ASSUME NEW j \in JobIds, Done(j) PROVE TypeOK'
  <2>1. <<"done">> \in Seq(Event) /\ Publish(j, <<"done">>, FALSE)
    BY <1>0, <1>a, <1>12 DEF Done
  <2>2. events' \in [JobIds -> Seq(Event)] /\ queue' \in [Subscribers -> Seq(Item)]
    BY ONLY <2>1, PublishTypes, TypeOK, j \in JobIds, FALSE \in BOOLEAN
  <2>3. UNCHANGED <<phase, feed, replay, closing, delivered, late>>
    BY ONLY <2>1 DEF Publish
  <2>4. UNCHANGED <<status, finished>>
    BY ONLY <1>12 DEF Done
  <2>. QED BY <2>2, <2>3, <2>4 DEF Item
<1>3. ASSUME NEW j \in JobIds, Finish(j) \/ Fail(j) \/ Cancel(j) PROVE TypeOK'
  <2>1. PICK logged \in Seq(Event) : Publish(j, logged, TRUE)
    BY <1>0, <1>a, <1>3 DEF Finish, Fail, Cancel
  <2>2. events' \in [JobIds -> Seq(Event)] /\ queue' \in [Subscribers -> Seq(Item)]
    BY <2>1, PublishTypes
  <2>. QED BY <2>1, <2>2, <1>3 DEF Publish, Finish, Fail, Cancel, Item
<1>4. ASSUME NEW s \in Subscribers, NEW j \in JobIds, Open(s, j) PROVE TypeOK'
  BY <1>4 DEF Open
<1>5. ASSUME NEW s \in Subscribers, ReplayOne(s) PROVE TypeOK'
  <2>1. /\ Append(delivered[s], Head(replay[s])) \in Seq(Event)
        /\ Tail(replay[s]) \in Seq(Event)
    BY <1>5, HeadTailProperties, AppendProperties DEF ReplayOne
  <2>. QED BY <2>1, <1>5 DEF ReplayOne
<1>6. ASSUME NEW s \in Subscribers, ReplayDone(s) PROVE TypeOK'
  BY <1>6 DEF ReplayDone
<1>7. ASSUME NEW s \in Subscribers, TakeEvent(s) PROVE TypeOK'
  <2>1. Head(queue[s]) \in Event /\ Tail(queue[s]) \in Seq(Event \cup {END})
    BY <1>7, HeadTailProperties DEF TakeEvent
  <2>2. Append(delivered[s], Head(queue[s])) \in Seq(Event)
    BY <2>1, AppendProperties
  <2>. QED BY <2>1, <2>2, <1>7 DEF TakeEvent
<1>8. ASSUME NEW s \in Subscribers, TakeEnd(s) PROVE TypeOK'
  <2>1. Tail(queue[s]) \in Seq(Event \cup {END})
    BY <1>8, HeadTailProperties DEF TakeEnd
  <2>. QED BY <2>1, <1>8 DEF TakeEnd
<1>9. ASSUME NEW s \in Subscribers, Disconnect(s) PROVE TypeOK'
  BY <1>9 DEF Disconnect
<1>10. CASE Restart
  BY <1>10 DEF Restart
<1>11. CASE UNCHANGED vars
  BY <1>11 DEF vars
<1>. QED
  BY <1>1, <1>2, <1>3, <1>4, <1>5, <1>6, <1>7, <1>8, <1>9, <1>10, <1>11, <1>12
     DEF Next, TaskStep, StreamStep

\* Every variable keeps its shape: job states, per-subscriber generators, item sequences.
THEOREM TypeCorrect == Spec => []TypeOK
BY TypeInit, TypeStep, PTL DEF Spec

-------------------------------------------------------------------------------
(* The fan-out invariant *)

\* The invariant for one subscriber.
Good(s) ==
    /\ phase[s] = "idle" => delivered[s] = <<>> /\ replay[s] = <<>> /\ queue[s] = <<>>
    /\ phase[s] # "idle" /\ late[s] => finished[feed[s]]
    /\ phase[s] # "idle" /\ closing[s] => late[s]
    /\ phase[s] \in {"replay", "live"} /\ late[s] => queue[s] = <<>>
    /\ phase[s] = "live" => replay[s] = <<>> /\ ~closing[s]
    /\ phase[s] \in {"replay", "live"} =>
          Line(s) = IF finished[feed[s]] /\ ~late[s]
                      THEN Append(events[feed[s]], END)
                      ELSE events[feed[s]]
    /\ phase[s] = "ended" => finished[feed[s]] /\ delivered[s] = events[feed[s]]

LEMMA InvBySubscriber ==
    FanOutInv <=> TypeOK /\ TaskOrder /\ \A s \in Subscribers : Good(s)
BY Zenon DEF FanOutInv, StreamOrder, NoGapNoDup, EndedIsComplete, Good

\* A subscriber that an action leaves alone, with its job, stays good.
LEMMA GoodUnchanged ==
    ASSUME NEW s \in Subscribers, Good(s),
           phase'[s] = phase[s], feed'[s] = feed[s], replay'[s] = replay[s],
           closing'[s] = closing[s], queue'[s] = queue[s],
           delivered'[s] = delivered[s], late'[s] = late[s],
           phase[s] # "idle" =>
              finished'[feed[s]] = finished[feed[s]] /\ events'[feed[s]] = events[feed[s]]
    PROVE  Good(s)'
BY DEF Good, Line

LEMMA ItemFacts ==
    ASSUME TypeOK, NEW s \in Subscribers
    PROVE  /\ delivered[s] \in Seq(Item) /\ replay[s] \in Seq(Item) /\ queue[s] \in Seq(Item)
           /\ END \in Item /\ END \notin Event
BY SeqMonotonic, JobsAssumption DEF TypeOK, Item, Event

\* One publication by an unfinished task, with or without the sentinel.
LEMMA PublishGood ==
    ASSUME FanOutInv, NEW j \in JobIds, NEW logged \in Seq(Event), NEW over \in BOOLEAN,
           ~finished[j], finished' = [finished EXCEPT ![j] = over],
           Publish(j, logged, over), NEW s \in Subscribers
    PROVE  Good(s)'
<1>0. TypeOK /\ Good(s)
  BY InvBySubscriber
<1>1. CASE phase[s] = "idle" \/ feed[s] # j
  <2>1. ~Registered(s, j)
    BY <1>1 DEF Registered
  <2>2. queue'[s] = queue[s]
    BY <2>1 DEF Publish
  <2>3. phase[s] # "idle" =>
           finished'[feed[s]] = finished[feed[s]] /\ events'[feed[s]] = events[feed[s]]
    BY <1>0, <1>1 DEF Publish, TypeOK
  <2>. QED BY <1>0, <2>2, <2>3, GoodUnchanged DEF Publish
<1>2. CASE phase[s] = "gone" /\ feed[s] = j
  <2>1. ~late[s] /\ finished'[j] = over
    BY <1>0, <1>2 DEF Good, TypeOK
  <2>. QED BY <1>0, <1>2, <2>1 DEF Good, Publish
<1>3. CASE phase[s] = "ended" /\ feed[s] = j
  BY <1>0, <1>3 DEF Good
<1>4. CASE phase[s] \in {"replay", "live"} /\ feed[s] = j
  <2>1. ~late[s] /\ Line(s) = events[j]
    BY <1>0, <1>4 DEF Good
  <2>2. queue'[s] = IF over THEN Append(queue[s] \o logged, END) ELSE queue[s] \o logged
    BY <1>4 DEF Publish, Registered
  <2>3. events'[j] = events[j] \o logged /\ finished'[j] = over
    BY <1>0 DEF Publish, TypeOK
  <2>4. /\ delivered[s] \in Seq(Item) /\ replay[s] \in Seq(Item) /\ queue[s] \in Seq(Item)
        /\ logged \in Seq(Item) /\ END \in Item
    BY <1>0, ItemFacts, SeqMonotonic DEF Item
  <2>5. /\ delivered[s] \o replay[s] \o (queue[s] \o logged)
             = (delivered[s] \o replay[s] \o queue[s]) \o logged
        /\ delivered[s] \o replay[s] \o Append(queue[s] \o logged, END)
             = Append((delivered[s] \o replay[s] \o queue[s]) \o logged, END)
    <3> DEFINE d == delivered[s]
               r == replay[s]
               q == queue[s]
    <3>1. /\ d \in Seq(Item) /\ r \in Seq(Item) /\ q \in Seq(Item)
          /\ logged \in Seq(Item) /\ END \in Item
      BY <2>4
    <3> HIDE DEF d, r, q
    <3>2. /\ d \o r \o (q \o logged) = (d \o r \o q) \o logged
          /\ d \o r \o Append(q \o logged, END) = Append((d \o r \o q) \o logged, END)
      <4> DEFINE l == d \o r
                 t == q \o logged
      <4>1. l \in Seq(Item) /\ t \in Seq(Item)
        BY <3>1, ConcatProperties
      <4> HIDE DEF l
      <4>2. l \o t = (l \o q) \o logged
        BY <3>1, <4>1
      <4> HIDE DEF t
      <4>3. l \o Append(t, END) = Append(l \o t, END)
        BY <3>1, <4>1, SentinelToLine
      <4>. QED BY <4>2, <4>3 DEF l, t
    <3>. QED BY <3>2 DEF d, r, q
  <2>6. Line(s)' = IF over THEN Append(events'[j], END) ELSE events'[j]
    BY <2>1, <2>2, <2>3, <2>5 DEF Line, Publish
  <2>. QED BY <1>0, <1>4, <2>1, <2>3, <2>6 DEF Good, Publish
<1>. QED BY <1>0, <1>1, <1>2, <1>3, <1>4 DEF TypeOK, Phases

\* A step of one subscriber's generator leaves every other subscriber good.
LEMMA OthersGood ==
    ASSUME FanOutInv, NEW t \in Subscribers,
           StreamStep(t) \/ Disconnect(t) \/ \E j \in JobIds : Open(t, j),
           NEW s \in Subscribers \ {t}
    PROVE  Good(s)'
<1>1. TypeOK /\ Good(s)
  BY InvBySubscriber
<1>2. /\ phase'[s] = phase[s] /\ feed'[s] = feed[s] /\ replay'[s] = replay[s]
      /\ closing'[s] = closing[s] /\ queue'[s] = queue[s]
      /\ delivered'[s] = delivered[s] /\ late'[s] = late[s]
      /\ events' = events /\ finished' = finished
  BY <1>1 DEF TypeOK, StreamStep, ReplayOne, ReplayDone, TakeEvent, TakeEnd, Disconnect, Open
<1>. QED BY <1>1, <1>2, GoodUnchanged

LEMMA OpenGood ==
    ASSUME FanOutInv, NEW s \in Subscribers, NEW j \in JobIds, Open(s, j)
    PROVE  Good(s)'
<1>0. TypeOK /\ TaskOrder /\ Good(s)
  BY InvBySubscriber
<1>1. /\ phase'[s] = "replay" /\ feed'[s] = j /\ replay'[s] = events[j]
      /\ closing'[s] = (status[j] \in {"done", "error"}) /\ late'[s] = finished[j]
      /\ queue'[s] = <<>> /\ delivered'[s] = <<>>
      /\ events' = events /\ finished' = finished
  BY <1>0 DEF Open, Good, TypeOK
<1>2. <<>> \o events[j] \o <<>> = events[j]
  <2>1. events[j] \in Seq(Event)
    BY <1>0 DEF TypeOK
  <2>. QED BY <2>1, ConcatEmptySeq
<1>3. Line(s)' = events'[j]
  BY <1>1, <1>2 DEF Line
<1>. QED BY <1>0, <1>1, <1>3 DEF Good, TaskOrder

LEMMA StreamStepGood ==
    ASSUME FanOutInv, NEW s \in Subscribers, StreamStep(s)
    PROVE  Good(s)'
<1>0. TypeOK /\ Good(s)
  BY InvBySubscriber
<1>a. /\ delivered[s] \in Seq(Item) /\ replay[s] \in Seq(Item) /\ queue[s] \in Seq(Item)
      /\ END \in Item /\ END \notin Event
      /\ delivered[s] \in Seq(Event) /\ replay[s] \in Seq(Event)
  BY <1>0, ItemFacts DEF TypeOK
<1>1. CASE ReplayOne(s)
  <2>1. Append(delivered[s], Head(replay[s])) \o Tail(replay[s]) = delivered[s] \o replay[s]
    BY <1>1, <1>a, HandOver DEF ReplayOne
  <2>2. Line(s)' = Line(s)
    BY <2>1, <1>0, <1>1 DEF Line, ReplayOne, TypeOK
  <2>. QED BY <2>2, <1>0, <1>1 DEF Good, ReplayOne
<1>2. CASE ReplayDone(s)
  <2>1. Line(s)' = Line(s)
    BY <1>2 DEF Line, ReplayDone
  <2>2. CASE ~closing[s]
    BY <2>1, <2>2, <1>0, <1>2 DEF Good, ReplayDone, TypeOK
  <2>3. CASE closing[s]
    <3>1. /\ late[s] /\ finished[feed[s]] /\ queue[s] = <<>>
          /\ Line(s) = events[feed[s]] /\ replay[s] = <<>>
      BY <2>3, <1>0, <1>2 DEF Good, ReplayDone
    <3>2. delivered[s] \o <<>> \o <<>> = delivered[s]
      BY <1>a, ConcatEmptySeq
    <3>3. delivered[s] = events[feed[s]]
      BY <3>1, <3>2 DEF Line
    <3>. QED BY <2>3, <3>1, <3>3, <1>0, <1>2 DEF Good, ReplayDone, TypeOK
  <2>. QED BY <2>2, <2>3
<1>3. CASE TakeEvent(s)
  <2>1. replay[s] = <<>> /\ replay' = replay
    BY <1>0, <1>3 DEF Good, TakeEvent
  <2>2. Append(delivered[s], Head(queue[s])) \o Tail(queue[s]) = delivered[s] \o queue[s]
    BY <1>3, <1>a, HandOver DEF TakeEvent
  <2>3. Append(delivered[s], Head(queue[s])) \in Seq(Item)
    BY <1>3, <1>a, HeadTailProperties, AppendProperties DEF TakeEvent
  <2>4. /\ Append(delivered[s], Head(queue[s])) \o <<>> = Append(delivered[s], Head(queue[s]))
        /\ delivered[s] \o <<>> = delivered[s]
    BY <1>a, <2>3, ConcatEmptySeq
  <2>5. Line(s)' = Line(s)
    BY <2>1, <2>2, <2>4, <1>0, <1>3 DEF Line, TakeEvent, TypeOK
  <2>. QED BY <2>5, <1>0, <1>3 DEF Good, TakeEvent
<1>4. CASE TakeEnd(s)
  <2>1. replay[s] = <<>> /\ ~late[s] /\ feed[s] \in JobIds
    BY <1>0, <1>4 DEF Good, TakeEnd, TypeOK
  <2>2. delivered[s] \o <<>> = delivered[s]
    BY <1>a, ConcatEmptySeq
  <2>3. delivered[s] \o queue[s] = IF finished[feed[s]] THEN Append(events[feed[s]], END)
                                                        ELSE events[feed[s]]
    BY <2>1, <2>2, <1>0, <1>4 DEF Good, TakeEnd, Line
  <2>4. events[feed[s]] \in Seq(Event)
    BY <2>1, <1>0 DEF TypeOK
  <2>5. finished[feed[s]]
    <3>1. queue[s] \in Seq(Event \cup {END}) /\ queue[s] # <<>> /\ Head(queue[s]) = END
      BY <1>4, <1>0 DEF TakeEnd, TypeOK
    <3>2. delivered[s] \o queue[s] # events[feed[s]]
      BY <2>4, <1>a, <3>1, SentinelShows
    <3>. QED BY <2>3, <3>2
  <2>6. delivered[s] = events[feed[s]]
    BY <2>3, <2>4, <2>5, <1>4, <1>0, <1>a, SentinelMeansAll DEF TakeEnd, TypeOK
  <2>. QED BY <2>1, <2>5, <2>6, <1>0, <1>4 DEF Good, TakeEnd, TypeOK
<1>. QED BY <1>1, <1>2, <1>3, <1>4 DEF StreamStep

LEMMA FanOutInit == Init => FanOutInv
<1> SUFFICES ASSUME Init PROVE FanOutInv
  OBVIOUS
<1>1. TypeOK
  BY TypeInit
<1>2. TaskOrder
  BY DEF Init, TaskOrder
<1>3. \A s \in Subscribers : Good(s)
  BY DEF Init, Good
<1>. QED BY <1>1, <1>2, <1>3, InvBySubscriber

LEMMA FanOutStep == FanOutInv /\ [Next]_vars => FanOutInv'
<1> SUFFICES ASSUME FanOutInv, [Next]_vars PROVE FanOutInv'
  OBVIOUS
<1>1. TypeOK /\ TaskOrder /\ \A s \in Subscribers : Good(s)
  BY InvBySubscriber
<1>2. TypeOK'
  BY <1>1, TypeStep
<1>3. TaskOrder'
  <2>1. CASE \E j \in JobIds : Submit(j) \/ TaskStep(j) \/ Cancel(j)
    <3>1. PICK j \in JobIds : Submit(j) \/ TaskStep(j) \/ Cancel(j)
      BY <2>1
    <3>2. CASE Submit(j) \/ Start(j) \/ Done(j) \/ \E e \in Progress : Report(j, e)
      BY <3>2, <1>1 DEF TaskOrder, TypeOK, Submit, Start, Report, Done
    <3>3. CASE Finish(j) \/ Fail(j) \/ Cancel(j)
      BY <3>3, <1>1 DEF TaskOrder, TypeOK, Finish, Fail, Cancel
    <3>. QED BY <3>1, <3>2, <3>3 DEF TaskStep
  <2>2. CASE \E s \in Subscribers : StreamStep(s) \/ Disconnect(s) \/ \E j \in JobIds : Open(s, j)
    BY <2>2, <1>1 DEF TaskOrder, StreamStep, Open, ReplayOne, ReplayDone, TakeEvent, TakeEnd, Disconnect
  <2>3. CASE Restart \/ UNCHANGED vars
    BY <2>3, <1>1 DEF TaskOrder, TypeOK, Restart, vars
  <2>. QED BY <2>1, <2>2, <2>3 DEF Next
<1>4. ASSUME NEW s \in Subscribers PROVE Good(s)'
  <2>1. ASSUME NEW j \in JobIds, Submit(j) \/ Start(j) PROVE Good(s)'
    BY <2>1, <1>1, GoodUnchanged DEF Submit, Start
  <2>2. ASSUME NEW j \in JobIds, NEW e \in Progress, Report(j, e) PROVE Good(s)'
    <3>a. e \in Event
      BY DEF Event
    <3>b. <<e>> \in Seq(Event)
      BY <3>a
    <3>1. <<e>> \in Seq(Event) /\ Publish(j, <<e>>, FALSE) /\ ~finished[j]
      BY <2>2, <3>b DEF Report
    <3>2. finished' = [finished EXCEPT ![j] = FALSE]
      BY <2>2, <1>1 DEF Report, TypeOK
    <3>. QED BY <3>1, <3>2, PublishGood
  <2>9. ASSUME NEW j \in JobIds, Done(j) PROVE Good(s)'
    <3>1. <<"done">> \in Seq(Event)
      BY DEF Event
    <3>2. Publish(j, <<"done">>, FALSE) /\ ~finished[j]
      BY <2>9 DEF Done
    <3>3. finished' = [finished EXCEPT ![j] = FALSE]
      BY <2>9, <1>1 DEF Done, TypeOK
    <3>. QED BY <3>1, <3>2, <3>3, PublishGood
  <2>3. ASSUME NEW j \in JobIds, Finish(j) \/ Fail(j) \/ Cancel(j) PROVE Good(s)'
    <3>1. <<>> \in Seq(Event) /\ <<"done">> \in Seq(Event) /\ <<"error">> \in Seq(Event)
      BY DEF Event
    <3>2. PICK logged \in Seq(Event) : Publish(j, logged, TRUE)
      BY <3>1, <2>3 DEF Finish, Fail, Cancel
    <3>3. ~finished[j] /\ finished' = [finished EXCEPT ![j] = TRUE]
      BY <2>3 DEF Finish, Fail, Cancel
    <3>. QED BY <3>2, <3>3, PublishGood
  <2>4. ASSUME NEW t \in Subscribers, NEW j \in JobIds, Open(t, j) PROVE Good(s)'
    BY <2>4, OpenGood, OthersGood
  <2>5. ASSUME NEW t \in Subscribers, StreamStep(t) PROVE Good(s)'
    BY <2>5, StreamStepGood, OthersGood
  <2>6. ASSUME NEW t \in Subscribers, Disconnect(t) PROVE Good(s)'
    <3>1. CASE s = t
      BY <3>1, <2>6, <1>1 DEF Good, Disconnect, TypeOK
    <3>. QED BY <3>1, <2>6, OthersGood
  <2>7. CASE Restart
    BY <2>7, <1>1 DEF Good, Restart, TypeOK, Line
  <2>8. CASE UNCHANGED vars
    BY <2>8, <1>1, GoodUnchanged DEF vars
  <2>. QED BY <2>1, <2>2, <2>3, <2>4, <2>5, <2>6, <2>7, <2>8, <2>9 DEF Next, TaskStep
<1>5. FanOutInv' <=> TypeOK' /\ TaskOrder' /\ \A s \in Subscribers : Good(s)'
  BY Zenon DEF FanOutInv, StreamOrder, NoGapNoDup, EndedIsComplete, Good
<1>. QED BY <1>2, <1>3, <1>4, <1>5

\* The inductive invariant holds in every reachable state.
THEOREM FanOutCorrect == Spec => []FanOutInv
BY FanOutInit, FanOutStep, PTL DEF Spec

\* "No gaps, no dups" (jobs.py), for every number of jobs, subscribers and events.
THEOREM NoGapNoDupHolds == Spec => []NoGapNoDup
<1>1. FanOutInv => NoGapNoDup
  BY DEF FanOutInv
<1>. QED BY <1>1, FanOutCorrect, PTL

\* A stream that ended by itself has delivered everything the job published.
THEOREM EndedIsCompleteHolds == Spec => []EndedIsComplete
<1>1. FanOutInv => EndedIsComplete
  BY DEF FanOutInv
<1>. QED BY <1>1, FanOutCorrect, PTL

\* A finished job's events and answer never change again, short of a restart.
THEOREM FinishedIsFinalHolds == Spec => FinishedIsFinal
<1>1. FanOutInv /\ [Next]_vars => [\A j \in JobIds : finished[j] =>
                                     /\ finished'[j]
                                     /\ events'[j] = events[j]
                                     /\ status'[j] \in {status[j], "lost"}]_vars
  <2> SUFFICES ASSUME FanOutInv, Next, NEW j \in JobIds, finished[j]
               PROVE  /\ finished'[j]
                      /\ events'[j] = events[j]
                      /\ status'[j] \in {status[j], "lost"}
    OBVIOUS
  <2>1. TypeOK /\ TaskOrder
    BY DEF FanOutInv
  <2>2. ASSUME NEW k \in JobIds, Submit(k) \/ TaskStep(k) \/ Cancel(k)
        PROVE  /\ finished'[j]
               /\ events'[j] = events[j]
               /\ status'[j] \in {status[j], "lost"}
    <3>1. k # j
      BY <2>1, <2>2 DEF TaskOrder, TaskStep, Submit, Start, Report, Done, Finish, Fail, Cancel
    <3>. QED BY <3>1, <2>1, <2>2
             DEF TypeOK, TaskStep, Submit, Start, Report, Done, Finish, Fail, Cancel, Publish
  <2>3. ASSUME NEW s \in Subscribers,
               StreamStep(s) \/ Disconnect(s) \/ \E k \in JobIds : Open(s, k)
        PROVE  status' = status /\ events' = events /\ finished' = finished
    BY <2>3 DEF StreamStep, ReplayOne, ReplayDone, TakeEvent, TakeEnd, Disconnect, Open
  <2>4. CASE Restart
    BY <2>1, <2>4 DEF Restart, TypeOK
  <2>. QED BY <2>2, <2>3, <2>4 DEF Next
<1>. QED BY <1>1, FanOutCorrect, PTL DEF Spec, FinishedIsFinal

-------------------------------------------------------------------------------
(* What the last event says *)

\* The last of a sequence of events, END where there is none.
LastOf(d) == IF d = <<>> THEN END ELSE d[Len(d)]

\* A job has failed exactly if its log ends with "error"; the log of one that is done ends
\* with "done", and so does that of one that runs on after it has shown it.
LogTells ==
    \A j \in JobIds : status[j] # "lost" =>
        /\ status[j] = "error" <=> LastOf(events[j]) = "error"
        /\ status[j] = "done" => LastOf(events[j]) = "done"
        /\ status[j] = "running" /\ DoneShown(j) => LastOf(events[j]) = "done"
        /\ status[j] \in {"absent", "pending"} => ~DoneShown(j)

LEMMA LastPublished ==
    ASSUME NEW d \in Seq(Event), NEW e \in Event
    PROVE  LastOf(d \o <<e>>) = e
<1>1. d \o <<e>> = Append(d, e)
  BY AppendIsConcat
<1>2. /\ Append(d, e) # <<>> /\ Len(Append(d, e)) = Len(d) + 1
      /\ Append(d, e)[Len(d) + 1] = e
  BY AppendProperties
<1>. QED BY <1>1, <1>2 DEF LastOf

\* Publishing shows the one event it publishes.
LEMMA ShownPublished ==
    ASSUME TypeOK, NEW j \in JobIds, NEW e \in Event, NEW over \in BOOLEAN,
           Publish(j, <<e>>, over)
    PROVE  DoneShown(j)' => DoneShown(j) \/ e = "done"
<1> SUFFICES ASSUME NEW i \in DOMAIN events'[j], events'[j][i] = "done", e # "done"
             PROVE  DoneShown(j)
  BY DEF DoneShown
<1> DEFINE d == events[j]
<1>1. d \in Seq(Event) /\ events'[j] = d \o <<e>>
  BY DEF TypeOK, Publish
<1>2. \A k \in DOMAIN (d \o <<e>>) : (d \o <<e>>)[k] # e => k \in DOMAIN d /\ d[k] = (d \o <<e>>)[k]
  <2> HIDE DEF d
  <2>. QED BY <1>1
<1>3. i \in DOMAIN d /\ d[i] = "done"
  BY <1>1, <1>2
<1>. QED BY <1>3 DEF DoneShown

\* Only a step of a job's own task, or a restart, changes its status and its log.
LEMMA LogTellsStep == FanOutInv /\ LogTells /\ [Next]_vars => LogTells'
<1> DEFINE Told(j) ==
        /\ status[j] = "error" <=> LastOf(events[j]) = "error"
        /\ status[j] = "done" => LastOf(events[j]) = "done"
        /\ status[j] = "running" /\ DoneShown(j) => LastOf(events[j]) = "done"
        /\ status[j] \in {"absent", "pending"} => ~DoneShown(j)
<1> SUFFICES ASSUME FanOutInv, LogTells, [Next]_vars, NEW j \in JobIds, status'[j] # "lost"
             PROVE  Told(j)'
  BY DEF LogTells
<1>0. TypeOK /\ events[j] \in Seq(Event) /\ (status[j] # "lost" => Told(j))
  BY DEF FanOutInv, TypeOK, LogTells
<1>1. ASSUME status'[j] = status[j], events'[j] = events[j] PROVE Told(j)'
  BY <1>0, <1>1 DEF DoneShown
<1>2. ASSUME NEW k \in JobIds, Submit(k) \/ TaskStep(k) \/ Cancel(k) PROVE Told(j)'
  <2>1. CASE k # j
    <3>1. status'[j] = status[j] /\ events'[j] = events[j]
      BY <1>0, <1>2, <2>1
         DEF TypeOK, Submit, TaskStep, Start, Report, Done, Finish, Fail, Cancel, Publish
    <3>. QED BY <1>1, <3>1
  <2>2. ASSUME Submit(j) \/ Start(j) PROVE Told(j)'
    BY <1>0, <2>2 DEF TypeOK, Submit, Start, DoneShown
  <2>3. ASSUME NEW e \in Progress, Report(j, e) PROVE Told(j)'
    <3>1. e \in Event /\ e # "done" /\ e # "error"
      BY JobsAssumption DEF Event
    <3>2. LastOf(events'[j]) = e
      BY <1>0, <2>3, <3>1, LastPublished DEF TypeOK, Report, Publish
    <3>3. ~DoneShown(j)'
      BY <1>0, <2>3, <3>1, ShownPublished DEF Report
    <3>. QED BY <3>1, <3>2, <3>3, <2>3 DEF Report
  <2>4. ASSUME Done(j) PROVE Told(j)'
    <3>1. LastOf(events'[j]) = "done"
      BY <1>0, <2>4, LastPublished DEF TypeOK, Done, Publish, Event
    <3>. QED BY <3>1, <2>4 DEF Done
  <2>5. ASSUME Fail(j) PROVE Told(j)'
    <3>1. LastOf(events'[j]) = "error" /\ status'[j] = "error"
      BY <1>0, <2>5, LastPublished DEF TypeOK, Fail, Publish, Event
    <3>. QED BY <3>1
  <2>6. ASSUME Cancel(j) \/ Finish(j) PROVE Told(j)'
    <3>1. events'[j] = events[j]
      BY <1>0, <2>6, ConcatEmptySeq DEF TypeOK, Cancel, Finish, Publish
    <3>2. CASE Cancel(j)
      BY <1>1, <3>1, <3>2 DEF Cancel
    <3>3. CASE Finish(j)
      BY <1>0, <3>1, <3>3 DEF Finish, TypeOK
    <3>. QED BY <2>6, <3>2, <3>3
  <2>. QED BY <1>2, <2>1, <2>2, <2>3, <2>4, <2>5, <2>6 DEF TaskStep
<1>3. ASSUME NEW s \in Subscribers,
             StreamStep(s) \/ Disconnect(s) \/ \E k \in JobIds : Open(s, k)
      PROVE  Told(j)'
  <2>1. status' = status /\ events' = events
    BY <1>3 DEF StreamStep, ReplayOne, ReplayDone, TakeEvent, TakeEnd, Disconnect, Open
  <2>. QED BY <1>1, <2>1
<1>4. CASE Restart
  BY <1>0, <1>1, <1>4 DEF Restart, TypeOK
<1>5. CASE UNCHANGED vars
  BY <1>1, <1>5 DEF vars
<1>. QED BY <1>2, <1>3, <1>4, <1>5 DEF Next

\* What a client saw last agrees with what polling the job answers: "error" exactly if the job
\* failed, "done" if it is done; only a task cancelled in its exit stack shows "done" and is not.
THEOREM OutcomeAgreesHolds == Spec => []OutcomeAgrees
<1>1. Init => LogTells
  BY JobsAssumption DEF Init, LogTells, LastOf, DoneShown, Event
<1>2. FanOutInv /\ LogTells => OutcomeAgrees
  <2> SUFFICES ASSUME FanOutInv, LogTells, NEW s \in Subscribers, phase[s] = "ended",
                      status[feed[s]] # "lost"
               PROVE  /\ status[feed[s]] = "error" <=> LastOf(delivered[s]) = "error"
                      /\ status[feed[s]] = "done" => LastOf(delivered[s]) = "done"
    BY DEF OutcomeAgrees, LastOf
  <2>1. feed[s] \in JobIds
    BY DEF FanOutInv, TypeOK
  <2>2. delivered[s] = events[feed[s]]
    BY DEF FanOutInv, EndedIsComplete
  <2>. QED BY <2>1, <2>2 DEF LogTells
<1>. QED BY <1>1, <1>2, LogTellsStep, FanOutCorrect, PTL DEF Spec

-------------------------------------------------------------------------------
(* The fan-out implements the abstract feed *)

\* The item at the front of a queue is the one right behind what was delivered.
LEMMA FrontOfLine ==
    ASSUME NEW S, NEW d \in Seq(S), NEW q \in Seq(S), q # <<>>
    PROVE  /\ Len(d) + 1 \in 1 .. Len(d \o q)
           /\ (d \o q)[Len(d) + 1] = Head(q)
<1>1. /\ Len(d \o q) = Len(d) + Len(q)
      /\ \A i \in 1 .. Len(d) + Len(q) :
            (d \o q)[i] = IF i <= Len(d) THEN d[i] ELSE q[i - Len(d)]
  BY ConcatProperties
<1>2. Len(d) \in Nat /\ Len(q) \in Nat \ {0} /\ Head(q) = q[1]
  BY EmptySeq, LenProperties
<1>3. /\ Len(d) + 1 \in 1 .. Len(d) + Len(q) /\ ~(Len(d) + 1 <= Len(d))
      /\ (Len(d) + 1) - Len(d) = 1
  BY <1>2
<1>. QED BY <1>1, <1>2, <1>3

LEMMA FrontOfPrefix ==
    ASSUME NEW S, NEW d \in Seq(S), NEW r \in Seq(S), NEW q \in Seq(S), r # <<>>
    PROVE  /\ Len(d) + 1 \in 1 .. Len(d \o r \o q)
           /\ (d \o r \o q)[Len(d) + 1] = Head(r)
<1> DEFINE p == d \o r
<1>1. Len(d) + 1 \in 1 .. Len(p) /\ p[Len(d) + 1] = Head(r)
  BY FrontOfLine
<1>2. p \in Seq(S) /\ Len(d) \in Nat
  BY ConcatProperties, LenProperties
<1> HIDE DEF p
<1>3. /\ Len(p \o q) = Len(p) + Len(q)
      /\ \A i \in 1 .. Len(p) + Len(q) :
            (p \o q)[i] = IF i <= Len(p) THEN p[i] ELSE q[i - Len(p)]
      /\ Len(p) \in Nat /\ Len(q) \in Nat
  BY <1>2, ConcatProperties, LenProperties
<1>4. Len(d) + 1 \in 1 .. Len(p) + Len(q) /\ Len(d) + 1 <= Len(p)
  BY <1>1, <1>2, <1>3
<1>5. Len(d) + 1 \in 1 .. Len(p \o q) /\ (p \o q)[Len(d) + 1] = Head(r)
  BY <1>1, <1>3, <1>4
<1>. QED BY <1>5 DEF p

\* An event found in a log that may be closed by the sentinel is found in the bare log.
LEMMA InBareLog ==
    ASSUME NEW S, NEW z, z \notin S, NEW l \in Seq(S), NEW n \in Nat \ {0}, NEW line,
           line = l \/ line = Append(l, z), n \in 1 .. Len(line), line[n] \in S
    PROVE  n \in 1 .. Len(l) /\ l[n] = line[n]
<1> DEFINE T == S \cup {z}
<1>1. l \in Seq(T) /\ z \in T /\ Len(l) \in Nat
  BY SeqMonotonic, LenProperties
<1> HIDE DEF T
<1>2. /\ Len(Append(l, z)) = Len(l) + 1
      /\ \A i \in 1 .. Len(l) : Append(l, z)[i] = l[i]
      /\ Append(l, z)[Len(l) + 1] = z
  BY <1>1, AppendProperties
<1>. QED BY <1>1, <1>2

\* Handing an event of its line to subscriber s is a read of the abstract feed.
LEMMA DeliverIsRead ==
    ASSUME FanOutInv, NEW s \in Subscribers, phase[s] \in {"replay", "live"},
           NEW e \in Event, Len(delivered[s]) + 1 \in 1 .. Len(Line(s)),
           Line(s)[Len(delivered[s]) + 1] = e,
           delivered' = [delivered EXCEPT ![s] = Append(@, e)],
           UNCHANGED <<events, finished, phase, feed>>
    PROVE  Abstract!Read(s)
<1>1. TypeOK /\ Good(s) /\ END \notin Event
  BY InvBySubscriber, JobsAssumption DEF Event
<1> DEFINE l == events[feed[s]]
           n == Len(delivered[s]) + 1
<1>2. l \in Seq(Event) /\ n \in Nat \ {0} /\ Len(delivered[s]) \in Nat
  BY <1>1, LenProperties DEF TypeOK
<1>3. Line(s) = l \/ Line(s) = Append(l, END)
  BY <1>1 DEF Good
<1>4. n \in 1 .. Len(Line(s)) /\ Line(s)[n] = e
  OBVIOUS
<1>5. n \in 1 .. Len(l) /\ l[n] = e
  <2> HIDE DEF l, n
  <2>. QED BY <1>1, <1>2, <1>3, <1>4, InBareLog
<1>6. Len(delivered[s]) < Len(l) /\ l[Len(delivered[s]) + 1] = e
  BY <1>2, <1>5, LenProperties
<1>. QED BY <1>1, <1>6 DEF Abstract!Read, FeedMode

LEMMA StepImplements == FanOutInv /\ FanOutInv' /\ [Next]_vars => [Abstract!Next]_(Abstract!vars)
<1> SUFFICES ASSUME FanOutInv, FanOutInv', Next
             PROVE  Abstract!Next \/ UNCHANGED Abstract!vars
  BY DEF vars, Abstract!vars, FeedMode
<1>0. /\ TypeOK /\ \A s \in Subscribers : Good(s)
      /\ TypeOK' /\ \A s \in Subscribers : Good(s)'
  <2>1. TypeOK /\ \A s \in Subscribers : Good(s)
    BY InvBySubscriber
  <2>2. TypeOK' /\ \A s \in Subscribers : Good(s)'
    BY Zenon DEF FanOutInv, StreamOrder, NoGapNoDup, EndedIsComplete, Good
  <2>. QED BY <2>1, <2>2
<1>1. ASSUME NEW j \in JobIds, Submit(j) \/ Start(j) PROVE UNCHANGED Abstract!vars
  BY <1>1 DEF Submit, Start, Abstract!vars, FeedMode
<1>2. ASSUME NEW j \in JobIds, NEW e \in Event, NEW over \in BOOLEAN, ~finished[j],
             Publish(j, <<e>>, over), finished' = [finished EXCEPT ![j] = over]
      PROVE  Abstract!Publish(j)
  <2>1. events[j] \in Seq(Event) /\ events[j] \o <<e>> = Append(events[j], e)
    BY <1>0, AppendIsConcat DEF TypeOK
  <2>2. events' = [events EXCEPT ![j] = Append(@, e)]
    BY <2>1, <1>2 DEF Publish
  <2>3. finished' \in {finished, [finished EXCEPT ![j] = TRUE]}
    BY <1>0, <1>2 DEF TypeOK
  <2>. QED BY <1>2, <2>2, <2>3 DEF Abstract!Publish, Publish, FeedMode
<1>3. ASSUME NEW j \in JobIds, Cancel(j) \/ Finish(j) PROVE Abstract!Publish(j)
  <2>1. events[j] \o <<>> = events[j]
    BY <1>0, ConcatEmptySeq DEF TypeOK
  <2>2. events' = events
    BY <2>1, <1>3, <1>0 DEF Cancel, Finish, Publish, TypeOK
  <2>. QED BY <2>2, <1>3 DEF Abstract!Publish, Cancel, Finish, Publish, FeedMode
<1>4. ASSUME NEW j \in JobIds, TaskStep(j) PROVE Abstract!Publish(j) \/ UNCHANGED Abstract!vars
  <2>1. CASE Start(j)
    BY <1>1, <2>1
  <2>2. ASSUME NEW e \in Progress, Report(j, e) PROVE Abstract!Publish(j)
    <3>1. finished' = [finished EXCEPT ![j] = FALSE]
      BY <1>0, <2>2 DEF Report, TypeOK
    <3>. QED BY <1>2, <3>1, <2>2 DEF Report, Event
  <2>3. CASE Finish(j)
    BY <1>3, <2>3
  <2>5. CASE Done(j)
    <3>1. finished' = [finished EXCEPT ![j] = FALSE]
      BY <1>0, <2>5 DEF Done, TypeOK
    <3>. QED BY <1>2, <3>1, <2>5 DEF Done, Event
  <2>4. CASE Fail(j)
    BY <1>2, <2>4 DEF Fail, Event
  <2>. QED BY <1>4, <2>1, <2>2, <2>3, <2>4, <2>5 DEF TaskStep
<1>5. ASSUME NEW s \in Subscribers, NEW j \in JobIds, Open(s, j) PROVE Abstract!Attach(s, j)
  <2>1. [t \in Subscribers |-> FeedMode(t)]' =
           [[t \in Subscribers |-> FeedMode(t)] EXCEPT ![s] = "open"]
    BY <1>5, <1>0 DEF Open, FeedMode, TypeOK
  <2>. QED BY <2>1, <1>5 DEF Abstract!Attach, Open, FeedMode
<1>6. ASSUME NEW s \in Subscribers, ReplayOne(s) PROVE Abstract!Read(s)
  <2>1. /\ delivered[s] \in Seq(Item) /\ replay[s] \in Seq(Item) /\ queue[s] \in Seq(Item)
        /\ replay[s] # <<>> /\ replay[s] \in Seq(Event)
    BY <1>0, <1>6, ItemFacts DEF ReplayOne, TypeOK
  <2>2. /\ Len(delivered[s]) + 1 \in 1 .. Len(Line(s))
        /\ Line(s)[Len(delivered[s]) + 1] = Head(replay[s])
    <3> DEFINE d == delivered[s]
               r == replay[s]
               q == queue[s]
    <3>1. d \in Seq(Item) /\ r \in Seq(Item) /\ q \in Seq(Item) /\ r # <<>>
      BY <2>1
    <3> HIDE DEF d, r, q
    <3>2. Len(d) + 1 \in 1 .. Len(d \o r \o q) /\ (d \o r \o q)[Len(d) + 1] = Head(r)
      BY <3>1, FrontOfPrefix
    <3>. QED BY <3>2 DEF Line, d, r, q
  <2>3. Head(replay[s]) \in Event
    BY <2>1, HeadTailProperties
  <2>. QED BY <2>2, <2>3, <1>6, DeliverIsRead DEF ReplayOne
<1>7. ASSUME NEW s \in Subscribers, ReplayDone(s)
      PROVE  Abstract!ReachEnd(s) \/ UNCHANGED Abstract!vars
  <2>1. CASE closing[s]
    <3>1. phase' = [phase EXCEPT ![s] = "ended"] /\ phase'[s] = "ended"
      BY <2>1, <1>7, <1>0 DEF ReplayDone, TypeOK
    <3>2. finished[feed[s]] /\ delivered[s] = events[feed[s]]
      BY <3>1, <1>0, <1>7 DEF Good, ReplayDone
    <3>3. [t \in Subscribers |-> FeedMode(t)]' =
             [[t \in Subscribers |-> FeedMode(t)] EXCEPT ![s] = "ended"]
      BY <3>1, <1>0 DEF FeedMode, TypeOK
    <3>. QED BY <3>2, <3>3, <1>7 DEF Abstract!ReachEnd, ReplayDone, FeedMode
  <2>2. CASE ~closing[s]
    BY <2>2, <1>7, <1>0 DEF ReplayDone, FeedMode, TypeOK, Abstract!vars
  <2>. QED BY <2>1, <2>2
<1>8. ASSUME NEW s \in Subscribers, TakeEvent(s) PROVE Abstract!Read(s)
  <2>1. /\ delivered[s] \in Seq(Item) /\ queue[s] \in Seq(Item) /\ queue[s] # <<>>
        /\ replay[s] = <<>>
    BY <1>0, <1>8, ItemFacts DEF TakeEvent, Good
  <2>2. Line(s) = delivered[s] \o queue[s]
    BY <2>1, ConcatEmptySeq DEF Line
  <2>3. /\ Len(delivered[s]) + 1 \in 1 .. Len(Line(s))
        /\ Line(s)[Len(delivered[s]) + 1] = Head(queue[s])
    <3> DEFINE d == delivered[s]
               q == queue[s]
    <3>1. d \in Seq(Item) /\ q \in Seq(Item) /\ q # <<>>
      BY <2>1
    <3> HIDE DEF d, q
    <3>2. Len(d) + 1 \in 1 .. Len(d \o q) /\ (d \o q)[Len(d) + 1] = Head(q)
      BY <3>1, FrontOfLine
    <3>. QED BY <2>2, <3>2 DEF d, q
  <2>4. Head(queue[s]) \in Event
    BY <2>1, <1>8, HeadTailProperties DEF TakeEvent, Item
  <2>. QED BY <2>3, <2>4, <1>8, DeliverIsRead DEF TakeEvent
<1>9. ASSUME NEW s \in Subscribers, TakeEnd(s) PROVE Abstract!ReachEnd(s)
  <2>1. phase'[s] = "ended"
    BY <1>9, <1>0 DEF TakeEnd, TypeOK
  <2>2. finished[feed[s]] /\ delivered[s] = events[feed[s]]
    BY <2>1, <1>0, <1>9 DEF Good, TakeEnd
  <2>3. [t \in Subscribers |-> FeedMode(t)]' =
           [[t \in Subscribers |-> FeedMode(t)] EXCEPT ![s] = "ended"]
    BY <1>9, <1>0 DEF TakeEnd, FeedMode, TypeOK
  <2>. QED BY <2>2, <2>3, <1>9 DEF Abstract!ReachEnd, TakeEnd, FeedMode
<1>10. ASSUME NEW s \in Subscribers, Disconnect(s) PROVE Abstract!Leave({s})
  BY <1>10, <1>0 DEF Abstract!Leave, Disconnect, FeedMode, TypeOK
<1>11. CASE Restart
  <2> DEFINE R == {s \in Subscribers : phase[s] \in {"replay", "live"}}
  <2>1. Abstract!Leave(R)
    BY <1>11, <1>0 DEF Abstract!Leave, Restart, FeedMode, TypeOK
  <2>. QED BY <2>1 DEF Abstract!Next
<1>. QED
  BY <1>1, <1>3, <1>4, <1>5, <1>6, <1>7, <1>8, <1>9, <1>10, <1>11
     DEF Next, StreamStep, Abstract!Next

LEMMA InitImplements == Init => Abstract!Init
BY DEF Init, Abstract!Init, FeedMode

\* The job manager with its snapshots, queues and sentinels implements the abstract feed.
THEOREM ImplementsFeedHolds == Spec => ImplementsFeed
BY InitImplements, StepImplements, FanOutCorrect, PTL DEF Spec, ImplementsFeed, Abstract!Spec
===============================================================================
