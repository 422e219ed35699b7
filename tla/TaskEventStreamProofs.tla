----------------------- MODULE TaskEventStreamProofs -----------------------
(***************************************************************************)
(* Theorems about TaskEventStream for any number of transactions, tasks    *)
(* and disconnections, and any size of replays and channels.               *)
(***************************************************************************)
EXTENDS TaskEventStream, FiniteSetTheorems, SequenceTheorems, TLAPS

-----------------------------------------------------------------------------
(* Types *)

LEMMA StreamTypeInit == Init => StreamTypeOK
  BY BoundsAssumption DEF Init, StreamTypeOK, TxStates, StreamStates

LEMMA WriterTyped ==
  ASSUME StreamTypeOK, NEW w \in Writers, WriterStep(w)
  PROVE  StreamTypeOK'
<1> USE DEF StreamTypeOK, TxStates, streamVars
<1>1. CASE UpdateTask(w) \/ CheckForeignKey(w) \/ Commit(w) \/ Rollback(w)
  BY <1>1 DEF UpdateTask, CheckForeignKey, Commit, Rollback
<1>2. CASE CreateEvent(w)
  BY <1>2 DEF CreateEvent
<1>3. CASE PublishTaskEvent(w)
  <2>1. wakeups' \in Seq(Nat) /\ Len(wakeups') <= Buffer
    <3>1. Append(wakeups, num[w]) \in Seq(Nat) /\ Len(Append(wakeups, num[w])) = Len(wakeups) + 1
      OBVIOUS
    <3>2. Len(wakeups) \in Nat /\ Buffer \in Nat
      BY BoundsAssumption
    <3>3. CASE wakeups' = wakeups
      BY <3>3
    <3>4. CASE wakeups' = Append(wakeups, num[w]) /\ Len(wakeups) < Buffer
      <4>1. Len(Append(wakeups, num[w])) <= Buffer
        BY <3>1, <3>2, <3>4
      <4>2. QED
        BY <3>1, <3>4, <4>1
    <3>5. QED
      BY <1>3, <3>3, <3>4 DEF PublishTaskEvent, Broadcast
  <2>2. QED
    BY <1>3, <2>1 DEF PublishTaskEvent
<1>4. QED
  BY <1>1, <1>2, <1>3 DEF WriterStep

LEMMA LastEventIdTyped == StreamTypeOK => LastEventId \in Nat
<1> SUFFICES ASSUME StreamTypeOK, received # << >> PROVE received[Len(received)] \in Nat
  BY DEF LastEventId
<1>1. received \in Seq(Nat)
  BY DEF StreamTypeOK
<1>2. Len(received) \in 1 .. Len(received)
  BY <1>1
<1>3. QED
  BY <1>1, <1>2, ElementOfSeq

LEMMA StreamTypeStep == StreamTypeOK /\ [Next]_vars => StreamTypeOK'
<1> SUFFICES ASSUME StreamTypeOK, [Next]_vars PROVE StreamTypeOK'
  OBVIOUS
<1> USE DEF StreamTypeOK, StreamStates, writerVars, streamVars
<1>1. ASSUME NEW w \in Writers, WriterStep(w) PROVE StreamTypeOK'
  BY <1>1, WriterTyped
<1>2. CASE StreamTasks
  BY <1>2, LastEventIdTyped, BoundsAssumption DEF StreamTasks, Subscribe
<1>3. CASE Heartbeat
  BY <1>3 DEF Heartbeat
<1>4. CASE Notified
  <2>1. Tail(wakeups) \in Seq(Nat) /\ Len(Tail(wakeups)) = Len(wakeups) - 1
    BY <1>4, HeadTailProperties DEF Notified
  <2>2. Len(wakeups) \in Nat
    OBVIOUS
  <2>3. wakeups' \in Seq(Nat) /\ Len(wakeups') <= Buffer
    BY <1>4, <2>1, <2>2, BoundsAssumption DEF Notified
  <2>4. QED
    BY <1>4, <2>3 DEF Notified
<1>5. CASE RevalidatePrincipal
  BY <1>5 DEF RevalidatePrincipal
<1>6. CASE ReplayVisibleEvents
  <2>1. \A w \in ListEventsAfter : num[w] \in Nat
    BY DEF ListEventsAfter, Beyond
  <2>2. cursor' \in Nat /\ out' \subseteq Nat
    BY <1>6, <2>1 DEF ReplayVisibleEvents
  <2>3. QED
    BY <1>6, <2>2 DEF ReplayVisibleEvents
<1>7. CASE ReceiveFrame
  <2>1. PICK n \in out : out' = out \ {n} /\ received' = Append(received, n)
    BY <1>7 DEF ReceiveFrame
  <2>2. received' \in Seq(Nat)
    BY <2>1
  <2>3. QED
    BY <1>7, <2>1, <2>2 DEF ReceiveFrame
<1>8. CASE Disconnect
  BY <1>8, BoundsAssumption DEF Disconnect
<1>9. CASE RevokeSession \/ RemoveMember \/ UNCHANGED vars
  BY <1>9 DEF RevokeSession, RemoveMember, vars
<1>10. QED
  BY <1>1, <1>2, <1>3, <1>4, <1>5, <1>6, <1>7, <1>8, <1>9 DEF Next, HandlerStep

\* The channel of a stream never holds more than the broker keeps, and nothing but
\* numbers of events reaches the client.
THEOREM StreamTypeCorrect == Spec => []StreamTypeOK
  BY StreamTypeInit, StreamTypeStep, PTL DEF Spec

-----------------------------------------------------------------------------
(* The order of frames *)

\* The frames under way lie between what the client has got and the cursor, and
\* no stream begins behind the client.
FramesInOrder ==
  /\ stream = "off" => out = {}
  /\ LastEventId <= cursor
  /\ \A n \in out : LastEventId < n /\ n <= cursor

OrderInvariant ==
  /\ StreamTypeOK
  /\ FramesInOrder
  /\ ReceivedInOrder

LEMMA ReceivedIsLast ==
  ASSUME StreamTypeOK, ReceivedInOrder
  PROVE  \A i \in DOMAIN received : received[i] \in Nat /\ received[i] <= LastEventId
<1> SUFFICES ASSUME NEW i \in DOMAIN received
             PROVE  received[i] \in Nat /\ received[i] <= LastEventId
  OBVIOUS
<1>1. received \in Seq(Nat) /\ DOMAIN received = 1 .. Len(received) /\ Len(received) \in Nat
  BY DEF StreamTypeOK
<1>2. received # << >> /\ Len(received) \in 1 .. Len(received)
  BY <1>1
<1>3. LastEventId = received[Len(received)] /\ received[i] \in Nat
  BY <1>1, <1>2 DEF LastEventId
<1>4. CASE i = Len(received)
  BY <1>3, <1>4
<1>5. CASE i # Len(received)
  <2>1. i < Len(received)
    BY <1>1, <1>5
  <2>2. received[i] < received[Len(received)] /\ received[Len(received)] \in Nat
    BY <1>1, <1>2, <2>1 DEF ReceivedInOrder
  <2>3. QED
    BY <1>3, <2>2
<1>6. QED
  BY <1>4, <1>5

\* The lowest frame comes after all that were received.
LEMMA FrameInOrder ==
  ASSUME OrderInvariant, StreamTypeOK', ReceiveFrame
  PROVE  OrderInvariant'
<1>1. PICK n \in out : /\ \A m \in out : n <= m
                       /\ out' = out \ {n}
                       /\ received' = Append(received, n)
  BY DEF ReceiveFrame
<1>2. received \in Seq(Nat) /\ Len(received) \in Nat /\ out \subseteq Nat /\ cursor \in Nat
  BY DEF OrderInvariant, StreamTypeOK
<1>3. /\ Len(received') = Len(received) + 1
      /\ DOMAIN received' = 1 .. Len(received) + 1
      /\ received'[Len(received) + 1] = n
      /\ \A i \in 1 .. Len(received) : received'[i] = received[i]
  BY <1>1, <1>2
<1>4. LastEventId' = n
  BY <1>2, <1>3 DEF LastEventId
<1>5. \A m \in out' : n < m
  BY <1>1, <1>2
<1>6. FramesInOrder'
  <2>1. stream' = stream /\ cursor' = cursor
    BY DEF ReceiveFrame
  <2>2. QED
    BY <1>1, <1>2, <1>4, <1>5, <2>1 DEF OrderInvariant, FramesInOrder
<1>7. ReceivedInOrder'
  <2>1. \A i \in 1 .. Len(received) : received[i] \in Nat /\ received[i] <= LastEventId
    BY <1>2, ReceivedIsLast DEF OrderInvariant
  <2>2. LastEventId \in Nat /\ LastEventId < n /\ n \in Nat
    BY <1>1, <1>2, LastEventIdTyped DEF OrderInvariant, FramesInOrder
  <2>3. SUFFICES ASSUME NEW i \in DOMAIN received', NEW j \in DOMAIN received', i < j
                 PROVE  received'[i] < received'[j]
    BY DEF ReceivedInOrder
  <2>4. i \in 1 .. Len(received)
    BY <1>2, <1>3, <2>3
  <2>5. CASE j = Len(received) + 1
    <3>1. received[i] < n
      BY <2>1, <2>2, <2>4
    <3>2. QED
      BY <1>3, <2>4, <2>5, <3>1
  <2>6. CASE j \in 1 .. Len(received)
    BY <1>2, <1>3, <2>3, <2>4, <2>6 DEF OrderInvariant, ReceivedInOrder
  <2>7. QED
    BY <1>3, <2>5, <2>6
<1>8. QED
  BY <1>6, <1>7 DEF OrderInvariant

LEMMA OrderStep == OrderInvariant /\ [Next]_vars => OrderInvariant'
<1> SUFFICES ASSUME OrderInvariant, [Next]_vars PROVE OrderInvariant'
  OBVIOUS
<1>1. StreamTypeOK /\ StreamTypeOK' /\ LastEventId \in Nat
  BY StreamTypeStep, LastEventIdTyped DEF OrderInvariant
<1>2. received' = received => ReceivedInOrder' /\ LastEventId' = LastEventId
  BY DEF OrderInvariant, ReceivedInOrder, LastEventId
<1> USE DEF OrderInvariant, FramesInOrder
<1>3. CASE UNCHANGED <<streamVars, received>>
  BY <1>1, <1>2, <1>3 DEF streamVars
<1>4. CASE StreamTasks
  BY <1>1, <1>2, <1>4 DEF StreamTasks
<1>5. CASE Heartbeat \/ Notified
  BY <1>1, <1>2, <1>5 DEF Heartbeat, Notified
<1>6. CASE RevalidatePrincipal
  BY <1>1, <1>2, <1>6 DEF RevalidatePrincipal
<1>7. CASE ReplayVisibleEvents
  <2>1. \A w \in ListEventsAfter : num[w] \in Nat /\ cursor < num[w]
    BY <1>1 DEF ListEventsAfter, Beyond, StreamTypeOK
  <2>2. /\ cursor' \in Nat /\ cursor <= cursor'
        /\ \A w \in ListEventsAfter : num[w] <= cursor'
    BY <1>1, <1>7, <2>1 DEF ReplayVisibleEvents, StreamTypeOK
  <2>3. \A n \in out' : n \in out \/ \E w \in ListEventsAfter : n = num[w]
    BY <1>7 DEF ReplayVisibleEvents
  <2>4. stream # "off" /\ stream' # "off" /\ received' = received
    BY <1>7 DEF ReplayVisibleEvents
  <2>5. cursor \in Nat /\ out \subseteq Nat
    BY <1>1 DEF StreamTypeOK
  <2>6. ASSUME NEW n \in out' PROVE LastEventId < n /\ n <= cursor'
    <3>1. CASE n \in out
      BY <1>1, <2>2, <2>5, <3>1
    <3>2. CASE \E w \in ListEventsAfter : n = num[w]
      BY <1>1, <2>1, <2>2, <2>4, <2>5, <3>2
    <3>3. QED
      BY <2>3, <3>1, <3>2
  <2>7. QED
    BY <1>1, <1>2, <2>2, <2>4, <2>5, <2>6
<1>8. CASE ReceiveFrame
  BY <1>1, <1>8, FrameInOrder
<1>9. CASE Disconnect
  BY <1>1, <1>2, <1>9 DEF Disconnect
<1>10. ASSUME NEW w \in Writers, WriterStep(w) PROVE UNCHANGED <<streamVars, received>>
  BY <1>10 DEF WriterStep, UpdateTask, CreateEvent, CheckForeignKey, Commit, Rollback,
               PublishTaskEvent
<1>11. RevokeSession \/ RemoveMember \/ UNCHANGED vars => UNCHANGED <<streamVars, received>>
  BY DEF RevokeSession, RemoveMember, vars, streamVars
<1>12. QED
  BY <1>3, <1>4, <1>5, <1>6, <1>7, <1>8, <1>9, <1>10, <1>11 DEF Next, HandlerStep

LEMMA OrderInit == Init => OrderInvariant
  BY StreamTypeInit DEF Init, OrderInvariant, FramesInOrder, ReceivedInOrder, LastEventId

\* Over any number of reconnections the client gets each event at most once, in the
\* order of the numbers.
THEOREM FramesComeInOrder == Spec => []ReceivedInOrder
<1>1. OrderInvariant => ReceivedInOrder
  BY DEF OrderInvariant
<1>2. QED
  BY <1>1, OrderInit, OrderStep, PTL DEF Spec

-----------------------------------------------------------------------------
(* Numbers and locks *)

\* Numbers that were given, or passed by the cursor, are below the counter.
NumbersTaken ==
  /\ \A w \in Writers : num[w] < nextNum
  /\ cursor < nextNum

\* A row that is locked exclusively is locked by nobody else.
LocksExclude ==
  \A w \in Writers : \A v \in Rivals(w) : Exclusive(w) => ~ Exclusive(v) /\ ~ Shared(v)

\* What is committed before a status change of the same task has a lower number.
CommitsInOrder ==
  \A w \in StatusWriters : \A v \in Rivals(w) :
     tx[w] = "numbered" /\ Committed(v) => num[v] < num[w]

LockInvariant ==
  /\ OrderInvariant
  /\ NumbersTaken
  /\ LocksExclude
  /\ CommitsInOrder

\* A transaction changes its own place only, and its number with the insert.
LEMMA OthersStay ==
  ASSUME StreamTypeOK, NEW w \in Writers, WriterStep(w)
  PROVE  /\ \A v \in Writers \ {w} : tx'[v] = tx[v] /\ num'[v] = num[v]
         /\ \/ UNCHANGED <<num, nextNum>>
            \/ CreateEvent(w) /\ num'[w] = nextNum /\ nextNum' = nextNum + 1
         /\ UNCHANGED <<cursor, stream, out, received, member>>
<1> USE DEF StreamTypeOK, streamVars
<1>1. CASE CreateEvent(w)
  BY <1>1 DEF CreateEvent
<1>2. CASE UpdateTask(w) \/ CheckForeignKey(w)
  BY <1>2 DEF UpdateTask, CheckForeignKey
<1>3. CASE Commit(w) \/ Rollback(w) \/ PublishTaskEvent(w)
  BY <1>3 DEF Commit, Rollback, PublishTaskEvent
<1>4. QED
  BY <1>1, <1>2, <1>3 DEF WriterStep

\* Locks are asked for where others have left the row, and else only given up.
LEMMA LocksStep ==
  ASSUME StreamTypeOK, LocksExclude, NEW w \in Writers, WriterStep(w)
  PROVE  LocksExclude'
<1>1. \A v \in Writers \ {w} : (Exclusive(v)' <=> Exclusive(v)) /\ (Shared(v)' <=> Shared(v))
  BY OthersStay DEF Exclusive, Shared
<1>2. \/ /\ Exclusive(w)' => Exclusive(w)
         /\ Shared(w)' => Shared(w)
      \/ /\ \A v \in Rivals(w) : ~ Exclusive(v) /\ ~ Shared(v)
         /\ ~ Shared(w)'
      \/ /\ \A v \in Rivals(w) : ~ Exclusive(v)
         /\ ~ Exclusive(w)'
  <2> USE DEF StreamTypeOK, Exclusive, Shared
  <2>1. CASE UpdateTask(w)
    BY <2>1 DEF UpdateTask
  <2>2. CASE CheckForeignKey(w)
    BY <2>2 DEF CheckForeignKey
  <2>3. CASE CreateEvent(w) \/ Commit(w) \/ Rollback(w) \/ PublishTaskEvent(w)
    BY <2>3 DEF CreateEvent, Commit, Rollback, PublishTaskEvent
  <2>4. QED
    BY <2>1, <2>2, <2>3 DEF WriterStep
<1>3. \A u, v \in Writers : u \in Rivals(v) <=> v \in Rivals(u)
  BY DEF Rivals
<1>4. \A u \in Writers : Rivals(u)' = Rivals(u) /\ Rivals(u) \subseteq Writers \ {u}
  BY DEF Rivals
<1>5. QED
  BY <1>1, <1>2, <1>3, <1>4 DEF LocksExclude

LEMMA NumbersStep ==
  ASSUME LockInvariant, NEW w \in Writers, WriterStep(w)
  PROVE  NumbersTaken' /\ CommitsInOrder'
<1>1. StreamTypeOK /\ StreamTypeOK'
  BY StreamTypeStep DEF LockInvariant, OrderInvariant, Next
<1>2. num \in [Writers -> Nat] /\ nextNum \in Nat /\ cursor \in Nat
  BY <1>1 DEF StreamTypeOK
<1>3. NumbersTaken'
  BY <1>1, <1>2, OthersStay DEF LockInvariant, NumbersTaken
<1>4. CommitsInOrder'
  <2>1. SUFFICES ASSUME NEW u \in StatusWriters, NEW v \in Rivals(u),
                        tx'[u] = "numbered", Committed(v)'
                 PROVE  num'[v] < num'[u]
    BY DEF CommitsInOrder, Rivals
  <2>2. u \in Writers /\ v \in Writers /\ u # v /\ v \in Rivals(u) /\ u \in Rivals(v)
    BY WritersAssumption DEF Rivals
  <2>3. CASE u = w
    <3>1. num'[v] = num[v] /\ Committed(v)
      BY <1>1, <2>1, <2>2, <2>3, OthersStay DEF Committed
    <3>2. CASE CreateEvent(w)
      BY <1>1, <1>2, <2>2, <2>3, <3>1, <3>2 DEF CreateEvent, LockInvariant, NumbersTaken
    <3>3. CASE ~ CreateEvent(w)
      <4>1. tx[u] = "numbered" /\ num'[u] = num[u]
        BY <1>1, <2>1, <2>2, <2>3, <3>3
           DEF WriterStep, UpdateTask, CheckForeignKey, Commit, Rollback, PublishTaskEvent,
               StreamTypeOK
      <4>2. QED
        BY <3>1, <4>1 DEF LockInvariant, CommitsInOrder
    <3>4. QED
      BY <3>2, <3>3
  <2>4. CASE u # w
    <3>1. tx[u] = "numbered" /\ num'[u] = num[u] /\ Exclusive(u)
      BY <1>1, <2>1, <2>2, <2>4, OthersStay DEF Exclusive
    <3>2. ~ Exclusive(v) /\ ~ Shared(v)
      BY <2>2, <3>1 DEF LockInvariant, LocksExclude
    <3>3. Committed(v) /\ num'[v] = num[v]
      <4>1. CASE v # w
        BY <1>1, <2>1, <2>2, <4>1, OthersStay DEF Committed
      <4>2. CASE v = w
        BY <1>1, <2>1, <2>2, <3>2, <4>2
           DEF WriterStep, UpdateTask, CreateEvent, CheckForeignKey, Commit, Rollback,
               PublishTaskEvent, StreamTypeOK, Committed, Exclusive, Shared
      <4>3. QED
        BY <4>1, <4>2
    <3>4. QED
      BY <3>1, <3>3 DEF LockInvariant, CommitsInOrder
  <2>5. QED
    BY <2>3, <2>4
<1>5. QED
  BY <1>3, <1>4

\* The cursor of a replay is the highest number of its batch.
LEMMA BatchIsRead ==
  ASSUME StreamTypeOK, ReplayVisibleEvents
  PROVE  \/ ListEventsAfter = {} /\ cursor' = cursor
         \/ \E v \in ListEventsAfter :
              cursor' = num[v] /\ \A w \in ListEventsAfter : num[w] <= num[v]
  BY DEF ReplayVisibleEvents

LEMMA LockStep == LockInvariant /\ [Next]_vars => LockInvariant'
<1> SUFFICES ASSUME LockInvariant, [Next]_vars PROVE LockInvariant'
  OBVIOUS
<1>1. OrderInvariant' /\ StreamTypeOK
  BY OrderStep DEF LockInvariant, OrderInvariant
<1>2. ASSUME NEW w \in Writers, WriterStep(w) PROVE LockInvariant'
  BY <1>1, <1>2, LocksStep, NumbersStep DEF LockInvariant
<1>3. ASSUME UNCHANGED writerVars, cursor' \in Nat, cursor' < nextNum PROVE LockInvariant'
  BY <1>1, <1>3
     DEF LockInvariant, NumbersTaken, LocksExclude, CommitsInOrder, writerVars, Rivals, Exclusive,
         Shared, Committed
<1>4. cursor \in Nat /\ cursor < nextNum /\ nextNum \in Nat
  BY <1>1 DEF LockInvariant, NumbersTaken, StreamTypeOK
<1>5. CASE StreamTasks
  <2>1. LastEventId \in Nat /\ LastEventId <= cursor
    BY <1>1, LastEventIdTyped DEF LockInvariant, OrderInvariant, FramesInOrder
  <2>2. QED
    BY <1>3, <1>4, <1>5, <2>1 DEF StreamTasks
<1>6. CASE ReplayVisibleEvents
  <2>1. \A v \in ListEventsAfter : num[v] \in Nat /\ num[v] < nextNum
    BY <1>1 DEF ListEventsAfter, Beyond, LockInvariant, NumbersTaken, StreamTypeOK
  <2>2. QED
    BY <1>1, <1>3, <1>4, <1>6, <2>1, BatchIsRead DEF ReplayVisibleEvents
<1>7. CASE UNCHANGED <<writerVars, cursor>>
  BY <1>3, <1>4, <1>7
<1>8. QED
  BY <1>2, <1>5, <1>6, <1>7
     DEF Next, HandlerStep, Heartbeat, Notified, RevalidatePrincipal, ReceiveFrame, Disconnect,
         RevokeSession, RemoveMember, vars, writerVars, streamVars

-----------------------------------------------------------------------------
(* A stream of one task *)

\* The cursor is behind every status change that is still to be committed.
StatusAhead ==
  \A w \in StatusWriters : tx[w] = "numbered" /\ TaskOf[w] \in Filter => cursor < num[w]

SkipInvariant ==
  /\ LockInvariant
  /\ StatusAhead
  /\ NoStatusSkipped

LEMMA PositionBehindCursor ==
  ASSUME OrderInvariant
  PROVE  Position \in Nat /\ cursor \in Nat /\ Position <= cursor
  BY LastEventIdTyped DEF OrderInvariant, FramesInOrder, Position, StreamTypeOK

\* A transaction: what it commits lies ahead.
LEMMA WriterSkipsNothing ==
  ASSUME SkipInvariant, LockInvariant', NEW w \in Writers, WriterStep(w)
  PROVE  StatusAhead' /\ NoStatusSkipped'
<1>1. StreamTypeOK /\ OrderInvariant
  BY DEF SkipInvariant, LockInvariant, OrderInvariant
<1>2. UNCHANGED <<cursor, stream, out, received, member>>
  BY <1>1, OthersStay
<1>3. Position' = Position /\ Position \in Nat /\ cursor \in Nat /\ Position <= cursor
  BY <1>1, <1>2, PositionBehindCursor DEF Position, LastEventId
<1>4. num \in [Writers -> Nat] /\ nextNum \in Nat /\ cursor < nextNum
  BY <1>1 DEF StreamTypeOK, SkipInvariant, LockInvariant, NumbersTaken
<1>5. ASSUME NEW v \in StatusWriters, tx'[v] = "numbered", TaskOf[v] \in Filter
      PROVE  cursor' < num'[v]
  <2>1. v \in Writers
    BY WritersAssumption
  <2>2. CASE tx[v] = "numbered" /\ num'[v] = num[v]
    BY <1>2, <1>5, <2>2 DEF SkipInvariant, StatusAhead
  <2>3. CASE v = w /\ CreateEvent(w)
    BY <1>1, <1>2, <1>4, <2>3 DEF CreateEvent, StreamTypeOK
  <2>4. CASE v = w /\ ~ CreateEvent(w)
    BY <1>1, <1>5, <2>1, <2>2, <2>4
       DEF WriterStep, UpdateTask, CheckForeignKey, Commit, Rollback, PublishTaskEvent, StreamTypeOK
  <2>5. CASE v # w
    BY <1>1, <1>5, <2>1, <2>2, <2>5, OthersStay
  <2>6. QED
    BY <2>3, <2>4, <2>5
<1>6. ASSUME NEW v \in StatusWriters, Owed(v)', num'[v] <= Position
      PROVE  Received(v)' \/ num'[v] \in out' \/ ~ member'
  <2>1. v \in Writers /\ num[v] \in Nat
    BY <1>4, WritersAssumption
  <2>2. CASE Committed(v) /\ num'[v] = num[v]
    BY <1>2, <1>6, <2>2 DEF SkipInvariant, NoStatusSkipped, Owed, Received
  <2>3. CASE v = w /\ tx[v] = "numbered" /\ num'[v] = num[v]
    <3>1. cursor < num[v]
      BY <1>6, <2>3 DEF SkipInvariant, StatusAhead, Owed
    <3>2. QED
      BY <1>3, <1>6, <2>1, <2>3, <3>1
  <2>4. CASE v = w
    BY <1>1, <1>6, <2>1, <2>2, <2>3, <2>4
       DEF WriterStep, UpdateTask, CreateEvent, CheckForeignKey, Commit, Rollback,
           PublishTaskEvent, StreamTypeOK, Committed, Owed
  <2>5. CASE v # w
    BY <1>1, <1>6, <2>1, <2>2, <2>5, OthersStay DEF Owed, Committed
  <2>6. QED
    BY <2>4, <2>5
<1>7. QED
  BY <1>3, <1>5, <1>6 DEF StatusAhead, NoStatusSkipped

\* A replay: every status change up to the new cursor is in its batch, and what is
\* not committed yet has a number beyond it.
LEMMA ReplaySkipsNothing ==
  ASSUME SkipInvariant, NEW t, Filter = {t}, ReplayVisibleEvents
  PROVE  StatusAhead' /\ NoStatusSkipped'
<1>1. StreamTypeOK /\ OrderInvariant /\ UNCHANGED <<tx, num, received, member>>
  BY DEF SkipInvariant, LockInvariant, OrderInvariant, ReplayVisibleEvents, writerVars
<1>2. num \in [Writers -> Nat] /\ cursor \in Nat
  BY <1>1 DEF StreamTypeOK
<1>3. Position = cursor /\ Position' = cursor' /\ out \subseteq out'
  BY DEF ReplayVisibleEvents, Position
<1>4. CASE ListEventsAfter = {} /\ cursor' = cursor
  BY <1>1, <1>3, <1>4
     DEF SkipInvariant, StatusAhead, NoStatusSkipped, Owed, Committed, Received
<1>5. ASSUME NEW v \in ListEventsAfter, cursor' = num[v]
      PROVE  StatusAhead' /\ NoStatusSkipped'
  <2>1. /\ v \in Beyond /\ v \in Writers /\ Committed(v) /\ TaskOf[v] = t
        /\ Cardinality({x \in Beyond : num[x] <= num[v]}) <= MaxReplay
    BY DEF ListEventsAfter, Beyond
  <2>2. StatusAhead'
    <3>1. SUFFICES ASSUME NEW w \in StatusWriters, tx[w] = "numbered", TaskOf[w] = t
                   PROVE  num[v] < num[w]
      BY <1>1, <1>5 DEF StatusAhead
    <3>2. w # v /\ v \in Rivals(w)
      BY <2>1, <3>1 DEF Committed, Rivals
    <3>3. QED
      BY <2>1, <3>1, <3>2 DEF SkipInvariant, LockInvariant, CommitsInOrder
  <2>3. ASSUME NEW w \in StatusWriters, Owed(w), num[w] <= num[v]
        PROVE  Received(w) \/ num[w] \in out' \/ ~ member
    <3>1. w \in Writers /\ num[w] \in Nat /\ num[v] \in Nat
      BY <1>2, <2>1, WritersAssumption
    <3>2. CASE num[w] <= cursor
      BY <1>3, <2>3, <3>2 DEF SkipInvariant, NoStatusSkipped
    <3>3. CASE cursor < num[w]
      <4> DEFINE Below(n) == {x \in Beyond : num[x] <= n}
      <4>1. w \in Beyond
        BY <2>3, <3>1, <3>3 DEF Beyond, Owed
      <4>2. IsFiniteSet(Below(num[v])) /\ Below(num[w]) \subseteq Below(num[v])
        <5>1. Below(num[v]) \subseteq Writers
          BY DEF Beyond
        <5>2. IsFiniteSet(Below(num[v]))
          BY <5>1, FS_Subset, WritersAssumption
        <5>3. \A x \in Beyond : num[x] \in Nat
          BY <1>2 DEF Beyond
        <5>4. QED
          BY <2>3, <3>1, <5>2, <5>3
      <4>3. /\ Cardinality(Below(num[w])) <= Cardinality(Below(num[v]))
            /\ Cardinality(Below(num[w])) \in Nat /\ Cardinality(Below(num[v])) \in Nat
        BY <4>2, FS_Subset, FS_CardinalityType
      <4>4. w \in ListEventsAfter
        BY <2>1, <4>1, <4>3, BoundsAssumption DEF ListEventsAfter
      <4>5. member => num[w] \in out'
        BY <2>3, <4>4 DEF ReplayVisibleEvents, CanSeeEvent, Owed
      <4>6. QED
        BY <4>5
    <3>4. QED
      BY <1>2, <3>1, <3>2, <3>3
  <2>4. NoStatusSkipped'
    BY <1>1, <1>3, <1>5, <2>3 DEF NoStatusSkipped, Owed, Committed, Received
  <2>5. QED
    BY <2>2, <2>4
<1>6. QED
  BY <1>1, <1>4, <1>5, BatchIsRead

\* A stream that ends: what was under way lies beyond what the client has.
LEMMA EndSkipsNothing ==
  ASSUME SkipInvariant, stream' = "off", UNCHANGED <<tx, num, cursor, received, member>>
  PROVE  StatusAhead' /\ NoStatusSkipped'
<1>1. OrderInvariant /\ StreamTypeOK
  BY DEF SkipInvariant, LockInvariant, OrderInvariant
<1>2. LastEventId \in Nat /\ Position \in Nat /\ LastEventId <= Position
  BY <1>1, LastEventIdTyped DEF OrderInvariant, FramesInOrder, Position, StreamTypeOK
<1>3. StatusAhead'
  BY DEF SkipInvariant, StatusAhead
<1>4. ASSUME NEW w \in StatusWriters, Owed(w), num[w] <= LastEventId
      PROVE  Received(w) \/ ~ member
  <2>1. num[w] \in Nat
    BY <1>1, WritersAssumption DEF StreamTypeOK
  <2>2. Received(w) \/ num[w] \in out \/ ~ member
    BY <1>2, <1>4, <2>1 DEF SkipInvariant, NoStatusSkipped
  <2>3. num[w] \notin out
    BY <1>1, <1>2, <1>4, <2>1 DEF OrderInvariant, FramesInOrder
  <2>4. QED
    BY <2>2, <2>3
<1>5. NoStatusSkipped'
  <2>1. Position' = LastEventId
    BY DEF Position, LastEventId
  <2>2. QED
    BY <1>4, <2>1 DEF NoStatusSkipped, Owed, Committed, Received
<1>6. QED
  BY <1>3, <1>5

LEMMA FrameSkipsNothing ==
  ASSUME SkipInvariant, OrderInvariant', ReceiveFrame
  PROVE  StatusAhead' /\ NoStatusSkipped'
<1>1. PICK n \in out : out' = out \ {n} /\ received' = Append(received, n)
  BY DEF ReceiveFrame
<1>2. received \in Seq(Nat) /\ stream # "off" /\ stream' = stream /\ cursor' = cursor
  BY <1>1 DEF ReceiveFrame, SkipInvariant, LockInvariant, OrderInvariant, FramesInOrder, StreamTypeOK
<1>3. UNCHANGED <<tx, num, member>>
  BY DEF ReceiveFrame, writerVars
<1>4. Position' = Position
  BY <1>2 DEF Position
<1>5. /\ Len(received) \in Nat /\ DOMAIN received = 1 .. Len(received)
      /\ DOMAIN received' = 1 .. Len(received) + 1
      /\ received'[Len(received) + 1] = n
      /\ \A i \in 1 .. Len(received) : received'[i] = received[i]
  BY <1>1, <1>2
<1>6. StatusAhead'
  BY <1>2, <1>3 DEF SkipInvariant, StatusAhead
<1>7. ASSUME NEW w \in StatusWriters, Received(w) \/ num[w] = n
      PROVE  Received(w)'
  BY <1>3, <1>5, <1>7 DEF Received
<1>8. NoStatusSkipped'
  BY <1>1, <1>3, <1>4, <1>7 DEF SkipInvariant, NoStatusSkipped, Owed, Committed
<1>9. QED
  BY <1>6, <1>8

LEMMA SkipStep ==
  ASSUME NEW t, Filter = {t}
  PROVE  SkipInvariant /\ [Next]_vars => SkipInvariant'
<1> SUFFICES ASSUME SkipInvariant, [Next]_vars PROVE StatusAhead' /\ NoStatusSkipped'
  BY LockStep DEF SkipInvariant
<1>1. LockInvariant' /\ OrderInvariant' /\ OrderInvariant
  BY LockStep DEF SkipInvariant, LockInvariant
<1>2. ASSUME NEW w \in Writers, WriterStep(w) PROVE StatusAhead' /\ NoStatusSkipped'
  BY <1>1, <1>2, WriterSkipsNothing
<1>3. CASE StreamTasks
  <2>1. UNCHANGED <<tx, num, out, received, member>> /\ cursor' = LastEventId
    BY <1>3 DEF StreamTasks, writerVars
  <2>2. Position' = Position /\ Position = LastEventId
    BY <1>3, <2>1 DEF StreamTasks, Position
  <2>3. LastEventId \in Nat /\ cursor \in Nat /\ LastEventId <= cursor
    BY <1>1, LastEventIdTyped DEF OrderInvariant, FramesInOrder, StreamTypeOK
  <2>4. \A w \in StatusWriters : num[w] \in Nat
    BY <1>1, WritersAssumption DEF OrderInvariant, StreamTypeOK
  <2>5. QED
    BY <2>1, <2>2, <2>3, <2>4
       DEF SkipInvariant, StatusAhead, NoStatusSkipped, Owed, Committed, Received
<1>4. CASE ReplayVisibleEvents
  BY <1>4, ReplaySkipsNothing
<1>5. CASE ReceiveFrame
  BY <1>1, <1>5, FrameSkipsNothing
<1>6. CASE (RevalidatePrincipal /\ ~ session) \/ Disconnect
  BY <1>6, EndSkipsNothing DEF RevalidatePrincipal, Disconnect, writerVars
<1>7. CASE /\ UNCHANGED <<tx, num, cursor, out, received>>
           /\ stream' # "off" <=> stream # "off"
           /\ member' => member
  BY <1>7
     DEF SkipInvariant, StatusAhead, NoStatusSkipped, Owed, Committed, Received, Position,
         LastEventId
<1>8. CASE Heartbeat \/ Notified \/ (RevalidatePrincipal /\ session)
  BY <1>7, <1>8 DEF Heartbeat, Notified, RevalidatePrincipal, writerVars
<1>9. CASE RevokeSession \/ RemoveMember \/ UNCHANGED vars
  BY <1>7, <1>9 DEF RevokeSession, RemoveMember, vars, writerVars, streamVars
<1>10. QED
  BY <1>2, <1>3, <1>4, <1>5, <1>6, <1>8, <1>9 DEF Next, HandlerStep

\* On a stream that was opened for one task no change of its status is passed over,
\* in whatever order the transactions take their numbers and commit: what has a
\* lower number has committed before, or holds the lock the higher one waits for.
THEOREM StatusIsStreamed ==
  ASSUME NEW t, Filter = {t}
  PROVE  Spec => []NoStatusSkipped
<1>1. Init => SkipInvariant
  BY OrderInit, WritersAssumption
     DEF Init, SkipInvariant, LockInvariant, NumbersTaken, LocksExclude, CommitsInOrder, Exclusive,
         Shared, Committed, StatusAhead, NoStatusSkipped, Owed
<1>2. SkipInvariant => NoStatusSkipped
  BY DEF SkipInvariant
<1>3. QED
  BY <1>1, <1>2, SkipStep, PTL DEF Spec

=============================================================================
