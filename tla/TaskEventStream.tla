-------------------------- MODULE TaskEventStream --------------------------
(***************************************************************************)
(* The task events of MySQL and one client that follows them.  Transactions*)
(* write events numbered by AUTO_INCREMENT; a number is taken at the       *)
(* insert and is visible from the commit on, so numbers may become visible *)
(* out of order.  StreamTasks (internal/sse/service.go) reads what lies    *)
(* beyond its cursor at each wakeup and at each heartbeat, and the browser *)
(* comes back with the identifier of the last frame it has got.            *)
(*                                                                         *)
(* A transaction that changes the status of a task updates its row before  *)
(* it inserts the event, so it holds the exclusive lock of the row when it *)
(* takes the number.  The insert of a progress event takes its number and  *)
(* then the shared lock its foreign key asks for.                          *)
(***************************************************************************)
EXTENDS Naturals, FiniteSets, Sequences

CONSTANTS
  Writers,         \* transactions that write one event each
  Tasks,
  TaskOf,          \* the task each of them writes about
  StatusWriters,   \* those that change the status of the task
  Filter,          \* the tasks the stream was opened for
  MaxReplay,       \* the most events one replay reads
  Buffer,          \* notifications the broker keeps for a stream
  MaxDisconnects   \* how often the connection may break

ASSUME WritersAssumption ==
  /\ IsFiniteSet(Writers)
  /\ TaskOf \in [Writers -> Tasks]
  /\ StatusWriters \subseteq Writers
  /\ Filter \subseteq Tasks
ASSUME BoundsAssumption ==
  MaxReplay \in Nat \ {0} /\ Buffer \in Nat \ {0} /\ MaxDisconnects \in Nat

VARIABLES
  tx,          \* how far the transaction of each writer is
  num,         \* the number of its event, 0 before the insert
  nextNum,     \* the AUTO_INCREMENT counter
  stream,      \* what the handler of the request is doing
  cursor,      \* queryCursor
  out,         \* frames that were written and have not reached the client
  wakeups,     \* the channel of the subscription
  received,    \* the identifiers the client has got, in order
  session,     \* the session of the principal is current
  member,      \* the principal may read the project of the tasks
  disconnects

writerVars == <<tx, num, nextNum>>
streamVars == <<stream, cursor, out>>
vars == <<tx, num, nextNum, stream, cursor, out, wakeups, received, session,
          member, disconnects>>

TxStates == {"idle", "locked", "numbered", "shared", "committed",
             "published", "aborted"}
StreamStates == {"off", "opened", "waiting", "checking", "reading"}

Init ==
  /\ tx = [w \in Writers |-> "idle"]
  /\ num = [w \in Writers |-> 0]
  /\ nextNum = 1
  /\ stream = "off"
  /\ cursor = 0
  /\ out = {}
  /\ wakeups = << >>
  /\ received = << >>
  /\ session = TRUE
  /\ member = TRUE
  /\ disconnects = 0

-----------------------------------------------------------------------------
\* Transactions

Committed(w) == tx[w] \in {"committed", "published"}

\* Row locks of the task that transaction w is about.
Exclusive(w) == w \in StatusWriters /\ tx[w] \in {"locked", "numbered"}
Shared(w) == w \notin StatusWriters /\ tx[w] = "shared"
Rivals(w) == {v \in Writers \ {w} : TaskOf[v] = TaskOf[w]}

\* UpdateTask of a status change locks the row of the task.
UpdateTask(w) ==
  /\ w \in StatusWriters
  /\ tx[w] = "idle"
  /\ \A v \in Rivals(w) : ~ Exclusive(v) /\ ~ Shared(v)
  /\ tx' = [tx EXCEPT ![w] = "locked"]
  /\ UNCHANGED <<num, nextNum, streamVars, wakeups, received, session, member, disconnects>>

\* Mutant: the event of a status change is inserted before its row is updated.
CreateEventFirst(w) ==
  /\ tx[w] = "idle"
  /\ tx' = [tx EXCEPT ![w] = "numbered"]
  /\ num' = [num EXCEPT ![w] = nextNum]
  /\ nextNum' = nextNum + 1
  /\ UNCHANGED <<streamVars, wakeups, received, session, member, disconnects>>

\* The insert takes the next number; for a status change the row is locked
\* by then, for a progress event the foreign key is still to be checked.
CreateEvent(w) ==
  /\ tx[w] = IF w \in StatusWriters THEN "locked" ELSE "idle"
  /\ tx' = [tx EXCEPT ![w] = "numbered"]
  /\ num' = [num EXCEPT ![w] = nextNum]
  /\ nextNum' = nextNum + 1
  /\ UNCHANGED <<streamVars, wakeups, received, session, member, disconnects>>

\* The check of fk_task_events_task locks the row of the task.
CheckForeignKey(w) ==
  /\ w \notin StatusWriters
  /\ tx[w] = "numbered"
  /\ \A v \in Rivals(w) : ~ Exclusive(v)
  /\ tx' = [tx EXCEPT ![w] = "shared"]
  /\ UNCHANGED <<num, nextNum, streamVars, wakeups, received, session, member, disconnects>>

Commit(w) ==
  /\ tx[w] = IF w \in StatusWriters THEN "numbered" ELSE "shared"
  /\ tx' = [tx EXCEPT ![w] = "committed"]
  /\ UNCHANGED <<num, nextNum, streamVars, wakeups, received, session, member, disconnects>>

\* A number that was taken is not given back.
Rollback(w) ==
  /\ tx[w] \in {"locked", "numbered", "shared"}
  /\ tx' = [tx EXCEPT ![w] = "aborted"]
  /\ UNCHANGED <<num, nextNum, streamVars, wakeups, received, session, member, disconnects>>

\* Broker.PublishTaskEvent: a channel that is full misses the notification.
Broadcast(n) ==
  IF stream # "off" /\ Len(wakeups) < Buffer THEN Append(wakeups, n) ELSE wakeups

\* publishEvents after the commit: the wakeup goes through Redis to the
\* subscriber of the API process, or is lost with either of them.
PublishTaskEvent(w) ==
  /\ tx[w] = "committed"
  /\ tx' = [tx EXCEPT ![w] = "published"]
  /\ wakeups' \in {wakeups, Broadcast(num[w])}
  /\ UNCHANGED <<num, nextNum, streamVars, received, session, member, disconnects>>

-----------------------------------------------------------------------------
\* The request

\* Mutant: the client comes back with the identifier it was first opened with.
InitialEventId == 0

\* Last-Event-ID, or lastEventId: the identifier of the last frame.
LastEventId == IF received = << >> THEN 0 ELSE received[Len(received)]

\* resolveFilter: a filtered stream is opened for those who may see the task.
ResolveFilter == member \/ Filter = Tasks

\* Subscribe makes an empty channel.
Subscribe == wakeups' = << >>

\* The middleware admits a current session; the handler takes its cursor from
\* the client and subscribes before it reads.
StreamTasks ==
  /\ stream = "off"
  /\ session
  /\ ResolveFilter
  /\ stream' = "opened"
  /\ cursor' = LastEventId
  /\ Subscribe
  /\ UNCHANGED <<writerVars, out, received, session, member, disconnects>>

\* Mutant: the heartbeat only writes its frame.
HeartbeatOnly ==
  /\ stream = "waiting"
  /\ UNCHANGED vars

\* The ticker: a replay precedes the heartbeat.
Heartbeat ==
  /\ stream = "waiting"
  /\ stream' = "checking"
  /\ UNCHANGED <<writerVars, cursor, out, wakeups, received, session, member, disconnects>>

\* A notification at or below the cursor is skipped.
Notified ==
  /\ stream = "waiting"
  /\ wakeups # << >>
  /\ wakeups' = Tail(wakeups)
  /\ stream' = IF Head(wakeups) <= cursor THEN "waiting" ELSE "checking"
  /\ UNCHANGED <<writerVars, cursor, out, received, session, member, disconnects>>

\* principalStillCurrent
RevalidatePrincipal ==
  /\ stream = "checking"
  /\ stream' = IF session THEN "reading" ELSE "off"
  /\ out' = IF session THEN out ELSE {}
  /\ UNCHANGED <<writerVars, cursor, wakeups, received, session, member, disconnects>>

\* ListEventsAfter: the committed events of the filter beyond the cursor,
\* the lowest numbers first, at most MaxReplay of them.
Beyond == {w \in Writers : Committed(w) /\ TaskOf[w] \in Filter /\ num[w] > cursor}
ListEventsAfter ==
  {w \in Beyond : Cardinality({v \in Beyond : num[v] <= num[w]}) <= MaxReplay}

\* canSeeEvent asks for the membership again.
CanSeeEvent(w) == member /\ TaskOf[w] \in Filter

\* replayVisibleEvents after its check: the events the principal may see are
\* written, and the cursor passes the others as well.
ReplayVisibleEvents ==
  LET batch == ListEventsAfter IN
  /\ stream \in {"opened", "reading"}
  /\ stream' = "waiting"
  /\ cursor' \in IF batch = {} THEN {cursor}
                 ELSE {n \in {num[w] : w \in batch} : \A w \in batch : num[w] <= n}
  /\ out' = out \cup {num[w] : w \in {v \in batch : CanSeeEvent(v)}}
  /\ UNCHANGED <<writerVars, wakeups, received, session, member, disconnects>>

\* A frame reaches the client, which notes its identifier.
ReceiveFrame ==
  /\ \E n \in out :
       /\ \A m \in out : n <= m
       /\ out' = out \ {n}
       /\ received' = Append(received, n)
  /\ UNCHANGED <<writerVars, stream, cursor, wakeups, session, member, disconnects>>

\* The connection breaks: frames that are under way are lost with it.
Disconnect ==
  /\ stream # "off"
  /\ disconnects < MaxDisconnects
  /\ disconnects' = disconnects + 1
  /\ stream' = "off"
  /\ out' = {}
  /\ wakeups' = << >>
  /\ UNCHANGED <<writerVars, cursor, received, session, member>>

\* Logout, a change of the password or the status of the user.
RevokeSession ==
  /\ session
  /\ session' = FALSE
  /\ UNCHANGED <<writerVars, streamVars, wakeups, received, member, disconnects>>

\* An owner takes the user out of the project.
RemoveMember ==
  /\ member
  /\ member' = FALSE
  /\ UNCHANGED <<writerVars, streamVars, wakeups, received, session, disconnects>>

-----------------------------------------------------------------------------
WriterStep(w) ==
  \/ UpdateTask(w)
  \/ CreateEvent(w)
  \/ CheckForeignKey(w)
  \/ Commit(w)
  \/ Rollback(w)
  \/ PublishTaskEvent(w)

\* What the handler does without being asked by the network or the ticker.
HandlerStep ==
  \/ RevalidatePrincipal
  \/ ReplayVisibleEvents

Next ==
  \/ \E w \in Writers : WriterStep(w)
  \/ StreamTasks
  \/ Heartbeat
  \/ Notified
  \/ HandlerStep
  \/ ReceiveFrame
  \/ Disconnect
  \/ RevokeSession
  \/ RemoveMember

Spec == Init /\ [][Next]_vars

\* The handler runs, the ticker fires, frames arrive and the EventSource of the browser
\* opens the stream again.  Writers, wakeups and the network owe nothing.
FairSpec ==
  /\ Spec
  /\ WF_vars(HandlerStep)
  /\ WF_vars(Heartbeat)
  /\ WF_vars(ReceiveFrame)
  /\ WF_vars(StreamTasks)

-----------------------------------------------------------------------------
\* Properties

StreamTypeOK ==
  /\ tx \in [Writers -> TxStates]
  /\ num \in [Writers -> Nat]
  /\ nextNum \in Nat \ {0}
  /\ stream \in StreamStates
  /\ cursor \in Nat
  /\ out \subseteq Nat
  /\ wakeups \in Seq(Nat)
  /\ Len(wakeups) <= Buffer
  /\ received \in Seq(Nat)
  /\ session \in BOOLEAN
  /\ member \in BOOLEAN
  /\ disconnects \in 0 .. MaxDisconnects

\* Over all reconnections the client gets every event at most once and in
\* the order of the numbers: a replay never goes back behind Last-Event-ID.
ReceivedInOrder ==
  \A i, j \in DOMAIN received : i < j => received[i] < received[j]

Received(w) == \E i \in DOMAIN received : received[i] = num[w]

\* Where the stream has got to: the cursor of an open one, or what the
\* client will open the next one with.
Position == IF stream = "off" THEN LastEventId ELSE cursor

\* The events the client is owed while it may see them.
Owed(w) == Committed(w) /\ TaskOf[w] \in Filter

\* On a stream of one task no change of its status is passed over: an event
\* at or below the position was received or is about to be.  Numbers become
\* visible out of order, and only the lock of the row, taken before the
\* number, keeps a later number from being read before an earlier one.
NoStatusSkipped ==
  \A w \in StatusWriters :
     Owed(w) /\ num[w] <= Position =>
        Received(w) \/ num[w] \in out \/ ~ member

\* Every change of the status reaches the client though wakeups are lost
\* and the connection breaks, unless the session or the membership ends.
StatusArrives ==
  \A w \in StatusWriters : Owed(w) ~> (Received(w) \/ ~ session \/ ~ member)

\* docs/sse-contract.md: a session that is no longer current closes its
\* streams, without any event having to happen.
RevokedStreamEnds == ~ session ~> stream = "off"

\* docs/sse-contract.md has all visible events after the given identifier
\* sent to a client that connects with it.
NothingSkipped ==
  \A w \in Writers :
     Owed(w) /\ num[w] <= Position =>
        Received(w) \/ num[w] \in out \/ ~ member

=============================================================================
