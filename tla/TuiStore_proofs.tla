--------------------------- MODULE TuiStore_proofs ---------------------------
(***************************************************************************)
(* Proofs about TuiStore for every set of sessions, connections, short ids *)
(* and commands, and every bound on the number of events.                  *)
(***************************************************************************)
EXTENDS TuiStore, TLAPS

-----------------------------------------------------------------------------
(* Lemmas about reading the event stream.                                    *)

(* What a prefix of the stream says does not change when an event is added.  *)
LEMMA HoldsPrefix ==
    ASSUME NEW es \in Seq(Event), NEW e \in Event,
           NEW t, NEW c, NEW n \in 0..Len(es)
    PROVE  HoldsIn(Append(es, e), t, c, n) <=> HoldsIn(es, t, c, n)
<1>1. \A i \in 1..n : Append(es, e)[i] = es[i]
  OBVIOUS
<1>2. QED
  BY <1>1 DEF HoldsIn

(* After a 'connected' event of t by d, exactly d holds t.                   *)
LEMMA HoldsConnected ==
    ASSUME NEW es \in Seq(Event), NEW t \in Tracking, NEW d \in Connection,
           NEW c \in Connection,
           NEW e \in Event, e.tracking = t, e.kind = "connected", e.by = d
    PROVE  HoldsIn(Append(es, e), t, c, Len(es) + 1) <=> c = d
<1> DEFINE fs == Append(es, e)
           n == Len(es) + 1
<1>1. n \in 1..n /\ fs[n] = e
  OBVIOUS
<1>2. ASSUME c = d PROVE HoldsIn(fs, t, c, n)
  BY <1>1, <1>2 DEF HoldsIn
<1>3. ASSUME HoldsIn(fs, t, c, n) PROVE c = d
  <2>1. PICK i \in 1..n :
           /\ fs[i].tracking = t /\ fs[i].kind = "connected" /\ fs[i].by = c
           /\ \A j \in (i + 1)..n : fs[j].tracking # t \/ fs[j].kind = "output"
    BY <1>3 DEF HoldsIn
  <2>2. i = n
    BY <1>1, <2>1
  <2>3. QED
    BY <1>1, <2>1, <2>2
<1>4. QED
  BY <1>2, <1>3

(* After a 'disconnected' event of t, nobody holds t.                        *)
LEMMA HoldsDisconnected ==
    ASSUME NEW es \in Seq(Event), NEW t \in Tracking, NEW c \in Connection,
           NEW e \in Event, e.tracking = t, e.kind = "disconnected"
    PROVE  ~HoldsIn(Append(es, e), t, c, Len(es) + 1)
<1> DEFINE fs == Append(es, e)
           n == Len(es) + 1
<1>1. n \in 1..n /\ fs[n] = e
  OBVIOUS
<1>2. ASSUME HoldsIn(fs, t, c, n) PROVE FALSE
  <2>1. PICK i \in 1..n :
           /\ fs[i].kind = "connected"
           /\ \A j \in (i + 1)..n : fs[j].tracking # t \/ fs[j].kind = "output"
    BY <1>2 DEF HoldsIn
  <2>2. CASE i = n
    BY <1>1, <2>1, <2>2
  <2>3. CASE i # n
    <3>1. n \in (i + 1)..n
      BY <2>1, <2>3
    <3>2. QED
      BY <1>1, <2>1, <3>1
  <2>4. QED
    BY <2>2, <2>3
<1>3. QED
  BY <1>2

(* An event of another session, or an output event, changes no holder of t.  *)
LEMMA HoldsOther ==
    ASSUME NEW es \in Seq(Event), NEW t \in Tracking, NEW c \in Connection,
           NEW e \in Event, e.tracking # t \/ e.kind = "output"
    PROVE  HoldsIn(Append(es, e), t, c, Len(es) + 1)
             <=> HoldsIn(es, t, c, Len(es))
<1> DEFINE fs == Append(es, e)
           m == Len(es)
           n == Len(es) + 1
<1>0. m \in Nat /\ n = m + 1 /\ fs[n] = e /\ \A i \in 1..m : fs[i] = es[i]
  OBVIOUS
<1>1. ASSUME HoldsIn(fs, t, c, n) PROVE HoldsIn(es, t, c, m)
  <2>1. PICK i \in 1..n :
           /\ fs[i].tracking = t /\ fs[i].kind = "connected" /\ fs[i].by = c
           /\ \A j \in (i + 1)..n : fs[j].tracking # t \/ fs[j].kind = "output"
    BY <1>1 DEF HoldsIn
  <2>2. i # n
    BY <1>0, <2>1
  <2>3. i \in 1..m /\ \A j \in (i + 1)..m : j \in (i + 1)..n /\ j \in 1..m
    BY <1>0, <2>1, <2>2
  <2> HIDE DEF fs, m, n
  <2>4. QED
    BY <1>0, <2>1, <2>3 DEF HoldsIn
<1>2. ASSUME HoldsIn(es, t, c, m) PROVE HoldsIn(fs, t, c, n)
  <2>1. PICK i \in 1..m :
           /\ es[i].tracking = t /\ es[i].kind = "connected" /\ es[i].by = c
           /\ \A j \in (i + 1)..m : es[j].tracking # t \/ es[j].kind = "output"
    BY <1>2 DEF HoldsIn
  <2>2. i \in 1..n /\ \A j \in (i + 1)..n : j = n \/ (j \in (i + 1)..m /\ j \in 1..m)
    BY <1>0, <2>1
  <2> HIDE DEF fs, m, n
  <2>3. QED
    BY <1>0, <2>1, <2>2 DEF HoldsIn
<1>3. QED
  BY <1>1, <1>2
-----------------------------------------------------------------------------
(* Typing                                                                    *)

LEMMA InitType == Init => TypeOK
BY SessionStateAssumption
   DEF Init, TypeOK, NoRow, Row, CommandRow, CommandState

LEMMA NextType == TypeOK /\ [Next]_vars => TypeOK'
<1> SUFFICES ASSUME TypeOK, [Next]_vars PROVE TypeOK'
  OBVIOUS
<1> USE DEF TypeOK
<1> USE SessionStateAssumption
<1>1. ASSUME NEW t \in Tracking, NEW c \in Connection, NEW s \in ShortId,
             RegisterInsert(t, c, s)
      PROVE TypeOK'
  BY <1>1 DEF RegisterInsert, NewRow, Row, AppendEventRow, Event, EventKind
<1>2. ASSUME NEW t \in Tracking, NEW c \in Connection, RegisterReplace(t, c)
      PROVE TypeOK'
  BY <1>2 DEF RegisterReplace, NewRow, Row, AppendEventRow, Event, EventKind
<1>3. ASSUME NEW t \in Tracking, NEW c \in Connection, RegisterRefresh(t, c)
      PROVE TypeOK'
  BY <1>3 DEF RegisterRefresh, NewRow, Row
<1>4. ASSUME NEW t \in Tracking, NEW c \in Connection, Heartbeat(t, c)
      PROVE TypeOK'
  BY <1>4 DEF Heartbeat, Row
<1>5. ASSUME NEW t \in Tracking, NEW c \in Connection, NEW st \in SessionState,
             SetState(t, c, st)
      PROVE TypeOK'
  BY <1>5 DEF SetState, Row
<1>6. ASSUME NEW t \in Tracking, NEW c \in Connection, Disconnect(t, c)
      PROVE TypeOK'
  BY <1>6 DEF Disconnect, NoRow, Row, AppendEventRow, Event, EventKind
<1>7. ASSUME NEW t \in Tracking, NEW c \in Connection, AppendEvent(t, c)
      PROVE TypeOK'
  BY <1>7 DEF AppendEvent, AppendEventRow, Event, EventKind
<1>8. ASSUME NEW t \in Tracking, NEW k \in Command, EnqueueCommand(t, k)
      PROVE TypeOK'
  BY <1>8 DEF EnqueueCommand, CommandRow, CommandState
<1>9. ASSUME NEW t \in Tracking, NEW c \in Connection, ClaimNextCommand(t, c)
      PROVE TypeOK'
  BY <1>9 DEF ClaimNextCommand, CommandRow, CommandState
<1>10. ASSUME NEW k \in Command, NEW c \in Connection, CompleteCommand(k, c)
       PROVE TypeOK'
  BY <1>10 DEF CompleteCommand, CommandRow, CommandState
<1>11. ASSUME NEW k \in Command, NEW c \in Connection, FailCommand(k, c)
       PROVE TypeOK'
  BY <1>11 DEF FailCommand, CommandRow, CommandState
<1>12. ASSUME NEW n \in 1..Len(claims), FailStaleClaims(n)
       PROVE TypeOK'
  BY <1>12 DEF FailStaleClaims, CommandRow, CommandState
<1>13. ASSUME NEW t \in Tracking, GoStale(t)
       PROVE TypeOK'
  BY <1>13 DEF GoStale, Row
<1>14. ASSUME NEW cs \in SUBSET Connection, ProcessDies(cs)
       PROVE TypeOK'
  BY <1>14 DEF ProcessDies
<1>15. CASE UNCHANGED vars
  BY <1>15 DEF vars
<1>16. QED
  BY <1>1, <1>2, <1>3, <1>4, <1>5, <1>6, <1>7, <1>8, <1>9, <1>10, <1>11,
     <1>12, <1>13, <1>14, <1>15 DEF Next

(* Every reachable state of the tables has the type TypeOK states.           *)
THEOREM TypeCorrect == Spec => []TypeOK
<1>1. QED
  BY InitType, NextType, PTL DEF Spec
-----------------------------------------------------------------------------
(* The inductive invariant.  SessionInv relates rows and stream, LedgerInv   *)
(* relates queue, command states and claim order; ClaimedByAHolder, proved   *)
(* last, needs both.                                                         *)

SessionInv ==
    /\ StreamTellsOwner
    /\ OnlyTheHolderPublishes
    /\ ShortIdNamesOneSession

QueuedOnce ==
    \A t, u \in Tracking : \A i \in DOMAIN queue[t], j \in DOMAIN queue[u] :
        queue[t][i] = queue[u][j] => t = u /\ i = j

KnownIsQueued ==
    \A k \in Command :
        Queued(k) => \E t \in Tracking : \E i \in DOMAIN queue[t] : queue[t][i] = k

QueuedIsKnown == \A t \in Tracking : \A i \in DOMAIN queue[t] : Queued(queue[t][i])

InClaims(k) == \E a \in DOMAIN claims : claims[a] = k

PendingIsUnclaimed ==
    \A t \in Tracking : \A i \in DOMAIN queue[t] :
        PendingAt(t, i) <=> ~InClaims(queue[t][i])

ClaimedIsKnown == \A a \in DOMAIN claims : Queued(claims[a])

LedgerInv ==
    /\ QueuedOnce
    /\ QueuedIsKnown
    /\ KnownIsQueued
    /\ PendingIsUnclaimed
    /\ ClaimedIsKnown
    /\ ClaimedOnce
    /\ NoOvertaking

IInv == TypeOK /\ SessionInv /\ LedgerInv /\ ClaimedByAHolder
-----------------------------------------------------------------------------
(* Rows and stream                                                           *)

(* A step that appends no event and moves no owner or short id.              *)
LEMMA QuietStep ==
    ASSUME TypeOK, SessionInv, events' = events,
           \A t \in Tracking : /\ sessions'[t].owner = sessions[t].owner
                               /\ sessions'[t].shortId = sessions[t].shortId
    PROVE  SessionInv'
<1>1. StreamTellsOwner'
  BY DEF SessionInv, StreamTellsOwner, Owns, HoldsAfter
<1>2. OnlyTheHolderPublishes'
  BY DEF SessionInv, OnlyTheHolderPublishes, HoldsAfter
<1>3. ShortIdNamesOneSession'
  BY DEF SessionInv, ShortIdNamesOneSession, HasRow
<1>4. QED
  BY <1>1, <1>2, <1>3 DEF SessionInv

(* Publications already in the stream stay covered when an event is added;   *)
(* the added one must come from the holder unless it is 'connected'.         *)
LEMMA PublishStep ==
    ASSUME TypeOK, OnlyTheHolderPublishes, StreamTellsOwner,
           NEW e \in Event, events' = Append(events, e),
           e.kind = "connected" \/ Owns(e.by, e.tracking)
    PROVE  OnlyTheHolderPublishes'
<1>1. SUFFICES ASSUME NEW i \in DOMAIN events',
                      events'[i].kind \in {"output", "disconnected"}
               PROVE  HoldsIn(events', events'[i].tracking, events'[i].by, i - 1)
  BY DEF OnlyTheHolderPublishes, HoldsAfter
<1>2. events \in Seq(Event) /\ Len(events) \in Nat
  BY DEF TypeOK
<1>3. CASE i \in DOMAIN events
  <2>1. events'[i] = events[i] /\ i - 1 \in 0..Len(events)
    BY <1>2, <1>3
  <2>2. HoldsIn(events, events[i].tracking, events[i].by, i - 1)
    BY <1>1, <1>3, <2>1 DEF OnlyTheHolderPublishes, HoldsAfter
  <2>3. QED
    BY <1>2, <2>1, <2>2, HoldsPrefix
<1>4. CASE i = Len(events) + 1
  <2>1. events'[i] = e /\ i - 1 = Len(events)
    BY <1>2, <1>4
  <2>2. e.tracking \in Tracking /\ e.by \in Connection
    BY DEF Event
  <2>3. HoldsIn(events, e.tracking, e.by, Len(events))
    BY <1>1, <2>1, <2>2 DEF StreamTellsOwner, HoldsAfter
  <2>4. QED
    BY <1>2, <2>1, <2>3, HoldsPrefix
<1>5. QED
  BY <1>2, <1>3, <1>4

(* The owner column follows the added event.                                 *)
LEMMA OwnerStep ==
    ASSUME TypeOK, StreamTellsOwner,
           NEW e \in Event, events' = Append(events, e),
           e.kind = "connected" => sessions'[e.tracking].owner = e.by,
           e.kind = "disconnected" => sessions'[e.tracking].owner = NoConnection,
           \A t \in Tracking :
              t # e.tracking \/ e.kind = "output"
                => sessions'[t].owner = sessions[t].owner
    PROVE  StreamTellsOwner'
<1> SUFFICES ASSUME NEW t \in Tracking, NEW c \in Connection
             PROVE  sessions'[t].owner = c
                      <=> HoldsIn(events', t, c, Len(events'))
  BY DEF StreamTellsOwner, Owns, HoldsAfter
<1>1. /\ events \in Seq(Event)
      /\ Len(events') = Len(events) + 1
      /\ e.kind \in EventKind
  BY DEF TypeOK, Event
<1>2. sessions[t].owner = c <=> HoldsIn(events, t, c, Len(events))
  BY DEF StreamTellsOwner, Owns, HoldsAfter
<1>3. CASE t # e.tracking \/ e.kind = "output"
  BY <1>1, <1>2, <1>3, HoldsOther
<1>4. CASE t = e.tracking /\ e.kind = "connected"
  <2>1. e.by \in Connection
    BY DEF Event
  <2>2. HoldsIn(Append(events, e), t, c, Len(events) + 1) <=> c = e.by
    BY <1>1, <1>4, <2>1, HoldsConnected
  <2>3. QED
    BY <1>1, <1>4, <2>2
<1>5. CASE t = e.tracking /\ e.kind = "disconnected"
  <2>1. ~HoldsIn(Append(events, e), t, c, Len(events) + 1)
    BY <1>1, <1>5, HoldsDisconnected
  <2>2. QED
    BY <1>1, <1>5, <2>1, NoConnectionAssumption
<1>6. QED
  BY <1>1, <1>3, <1>4, <1>5 DEF EventKind

LEMMA SessionStep == TypeOK /\ SessionInv /\ [Next]_vars => SessionInv'
<1> SUFFICES ASSUME TypeOK, SessionInv, [Next]_vars PROVE SessionInv'
  OBVIOUS
<1>a. sessions \in [Tracking -> Row] /\ StreamTellsOwner /\ OnlyTheHolderPublishes
      /\ ShortIdNamesOneSession
  BY DEF TypeOK, SessionInv
<1>1. ASSUME NEW t \in Tracking, NEW c \in Connection, NEW s \in ShortId,
             RegisterInsert(t, c, s)
      PROVE SessionInv'
  <2> DEFINE e == [tracking |-> t, kind |-> "connected", by |-> c]
  <2>1. /\ e \in Event /\ events' = Append(events, e)
        /\ sessions' = [sessions EXCEPT ![t] = NewRow(c, s)]
        /\ s \notin ShortIdsInUse
    BY <1>1 DEF RegisterInsert, AppendEventRow, Event, EventKind
  <2>2. OnlyTheHolderPublishes'
    BY <1>a, <2>1, PublishStep
  <2>3. StreamTellsOwner'
    BY <1>a, <2>1, OwnerStep DEF NewRow
  <2>4. ShortIdNamesOneSession'
    BY <1>a, <2>1 DEF ShortIdNamesOneSession, ShortIdsInUse, HasRow, NewRow
  <2>5. QED
    BY <2>2, <2>3, <2>4 DEF SessionInv
<1>2. ASSUME NEW t \in Tracking, NEW c \in Connection, RegisterReplace(t, c)
      PROVE SessionInv'
  <2> DEFINE e == [tracking |-> t, kind |-> "connected", by |-> c]
  <2>1. /\ e \in Event /\ events' = Append(events, e)
        /\ sessions' = [sessions EXCEPT ![t] = NewRow(c, sessions[t].shortId)]
        /\ HasRow(t)
    BY <1>2 DEF RegisterReplace, AppendEventRow, Event, EventKind
  <2>2. OnlyTheHolderPublishes'
    BY <1>a, <2>1, PublishStep
  <2>3. StreamTellsOwner'
    BY <1>a, <2>1, OwnerStep DEF NewRow
  <2>4. ShortIdNamesOneSession'
    BY <1>a, <2>1 DEF ShortIdNamesOneSession, HasRow, NewRow
  <2>5. QED
    BY <2>2, <2>3, <2>4 DEF SessionInv
<1>3. ASSUME NEW t \in Tracking, NEW c \in Connection, RegisterRefresh(t, c)
      PROVE SessionInv'
  BY <1>3, <1>a, QuietStep DEF RegisterRefresh, NewRow, Owns
<1>4. ASSUME NEW t \in Tracking, NEW c \in Connection, Heartbeat(t, c)
      PROVE SessionInv'
  BY <1>4, <1>a, QuietStep DEF Heartbeat, Row
<1>5. ASSUME NEW t \in Tracking, NEW c \in Connection, NEW st \in SessionState,
             SetState(t, c, st)
      PROVE SessionInv'
  BY <1>5, <1>a, QuietStep DEF SetState, Row
<1>6. ASSUME NEW t \in Tracking, NEW c \in Connection, Disconnect(t, c)
      PROVE SessionInv'
  <2> DEFINE e == [tracking |-> t, kind |-> "disconnected", by |-> c]
  <2>1. /\ e \in Event /\ events' = Append(events, e) /\ Owns(c, t)
        /\ sessions' = [sessions EXCEPT ![t] = NoRow]
    BY <1>6 DEF Disconnect, AppendEventRow, Event, EventKind
  <2>2. OnlyTheHolderPublishes'
    BY <1>a, <2>1, PublishStep
  <2>3. StreamTellsOwner'
    BY <1>a, <2>1, OwnerStep DEF NoRow
  <2>4. ShortIdNamesOneSession'
    BY <1>a, <2>1 DEF ShortIdNamesOneSession, HasRow, NoRow
  <2>5. QED
    BY <2>2, <2>3, <2>4 DEF SessionInv
<1>7. ASSUME NEW t \in Tracking, NEW c \in Connection, AppendEvent(t, c)
      PROVE SessionInv'
  <2> DEFINE e == [tracking |-> t, kind |-> "output", by |-> c]
  <2>1. /\ e \in Event /\ events' = Append(events, e) /\ Owns(c, t)
        /\ sessions' = sessions
    BY <1>7 DEF AppendEvent, AppendEventRow, Event, EventKind
  <2>2. OnlyTheHolderPublishes'
    BY <1>a, <2>1, PublishStep
  <2>3. StreamTellsOwner'
    BY <1>a, <2>1, OwnerStep
  <2>4. ShortIdNamesOneSession'
    BY <1>a, <2>1 DEF ShortIdNamesOneSession, HasRow
  <2>5. QED
    BY <2>2, <2>3, <2>4 DEF SessionInv
<1>8. ASSUME NEW t \in Tracking, GoStale(t)
      PROVE SessionInv'
  BY <1>8, <1>a, QuietStep DEF GoStale, Row
<1>9. CASE UNCHANGED <<sessions, events>>
  BY <1>9, QuietStep
<1>10. QED
  BY <1>1, <1>2, <1>3, <1>4, <1>5, <1>6, <1>7, <1>8, <1>9
     DEF Next, vars, EnqueueCommand, ClaimNextCommand, CompleteCommand,
         FailCommand, FailStaleClaims, ProcessDies
-----------------------------------------------------------------------------
(* Queue, command states and claim order                                     *)

(* A command that changes state without leaving or entering 'pending' and    *)
(* without becoming absent disturbs nothing the ledger says.                 *)
LEMMA SettleStep ==
    ASSUME TypeOK, LedgerInv, UNCHANGED <<queue, claims>>,
           \A k \in Command :
              /\ commands'[k].state = "pending" <=> commands[k].state = "pending"
              /\ commands'[k].state = "absent" <=> commands[k].state = "absent"
    PROVE  LedgerInv'
<1>1. /\ QueuedOnce' /\ ClaimedOnce' /\ NoOvertaking'
  BY DEF LedgerInv, QueuedOnce, ClaimedOnce, NoOvertaking
<1>2. \A t \in Tracking : \A i \in DOMAIN queue[t] : queue[t][i] \in Command
  BY DEF TypeOK
<1>3. QueuedIsKnown' /\ PendingIsUnclaimed'
  BY <1>2 DEF LedgerInv, QueuedIsKnown, Queued, PendingIsUnclaimed, PendingAt,
              InClaims
<1>4. ClaimedIsKnown'
  BY SMTT(30) DEF LedgerInv, ClaimedIsKnown, Queued, TypeOK
<1>5. KnownIsQueued'
  BY DEF LedgerInv, KnownIsQueued, Queued
<1>6. QED
  BY <1>1, <1>3, <1>4, <1>5 DEF LedgerInv

LEMMA EnqueueStep ==
    ASSUME TypeOK, LedgerInv, NEW t \in Tracking, NEW k \in Command,
           EnqueueCommand(t, k)
    PROVE  LedgerInv'
<1> DEFINE n == Len(queue[t]) + 1
<1>1. /\ queue \in [Tracking -> Seq(Command)] /\ claims \in Seq(Command)
      /\ commands \in [Command -> CommandRow]
  BY DEF TypeOK
<1>2. /\ queue' = [queue EXCEPT ![t] = Append(@, k)]
      /\ commands' = [commands EXCEPT ![k] = [state |-> "pending",
                                              owner |-> NoConnection]]
      /\ claims' = claims
      /\ commands[k].state = "absent"
  BY DEF EnqueueCommand, Queued
<1>3. \A u \in Tracking : \A i \in DOMAIN queue'[u] :
         \/ i \in DOMAIN queue[u] /\ queue'[u][i] = queue[u][i]
         \/ u = t /\ i = n /\ queue'[u][i] = k
  BY <1>1, <1>2
<1>4. /\ \A u \in Tracking : \A i \in DOMAIN queue[u] : queue[u][i] # k
      /\ \A a \in DOMAIN claims : claims[a] # k
  BY <1>2 DEF LedgerInv, QueuedIsKnown, ClaimedIsKnown, Queued
<1>5. QueuedOnce'
  BY <1>3, <1>4 DEF LedgerInv, QueuedOnce
<1>6. QueuedIsKnown'
  BY <1>1, <1>2, <1>3, <1>4 DEF LedgerInv, QueuedIsKnown, Queued
<1>7. PendingIsUnclaimed'
  BY <1>1, <1>2, <1>3, <1>4 DEF LedgerInv, PendingIsUnclaimed, PendingAt, InClaims
<1>8. ClaimedIsKnown' /\ ClaimedOnce'
  BY <1>1, <1>2, <1>4 DEF LedgerInv, ClaimedIsKnown, ClaimedOnce, Queued
<1>9. NoOvertaking'
  <2> SUFFICES ASSUME NEW b \in DOMAIN claims', NEW u \in Tracking,
                      NEW j \in DOMAIN queue'[u], queue'[u][j] = claims'[b],
                      NEW i \in 1..(j - 1)
               PROVE  \E a \in 1..(b - 1) : claims'[a] = queue'[u][i]
    BY DEF NoOvertaking
  <2>0. b \in DOMAIN claims /\ queue'[u][j] = claims[b]
    BY <1>2
  <2>1. j \in DOMAIN queue[u] /\ queue'[u][j] = queue[u][j]
    BY <1>3, <1>4, <2>0
  <2>2. i \in DOMAIN queue[u] /\ queue'[u][i] = queue[u][i]
    BY <1>1, <1>2, <2>1
  <2>3. \E a \in 1..(b - 1) : claims[a] = queue[u][i]
    BY <2>0, <2>1 DEF LedgerInv, NoOvertaking
  <2>4. QED
    BY <1>2, <2>2, <2>3
<1>10. KnownIsQueued'
  <2> SUFFICES ASSUME NEW m \in Command, commands'[m].state # "absent"
               PROVE  \E u \in Tracking : \E i \in DOMAIN queue'[u] : queue'[u][i] = m
    BY DEF KnownIsQueued, Queued
  <2>1. CASE m = k
    <3>1. n \in DOMAIN queue'[t] /\ queue'[t][n] = k
      BY <1>1, <1>2
    <3>2. QED
      BY <2>1, <3>1
  <2>2. CASE m # k
    <3>1. PICK u \in Tracking : \E i \in DOMAIN queue[u] : queue[u][i] = m
      BY <1>1, <1>2, <2>2 DEF LedgerInv, KnownIsQueued, Queued
    <3>2. \A i \in DOMAIN queue[u] : i \in DOMAIN queue'[u] /\ queue'[u][i] = queue[u][i]
      BY <1>1, <1>2
    <3>3. QED
      BY <3>1, <3>2
  <2>3. QED
    BY <2>1, <2>2
<1>11. QED
  BY <1>5, <1>6, <1>7, <1>8, <1>9, <1>10 DEF LedgerInv

LEMMA ClaimStep ==
    ASSUME TypeOK, LedgerInv, NEW t \in Tracking, NEW c \in Connection,
           ClaimNextCommand(t, c)
    PROVE  LedgerInv'
<1>1. /\ queue \in [Tracking -> Seq(Command)] /\ claims \in Seq(Command)
      /\ commands \in [Command -> CommandRow]
  BY DEF TypeOK
<1>2. PICK i \in DOMAIN queue[t] :
         /\ OldestPending(t, i)
         /\ commands' = [commands EXCEPT ![queue[t][i]] =
                            [state |-> "claimed", owner |-> c]]
         /\ claims' = Append(claims, queue[t][i])
  BY DEF ClaimNextCommand
<1> DEFINE k == queue[t][i]
           n == Len(claims) + 1
<1>3. queue' = queue /\ k \in Command
  BY <1>1 DEF ClaimNextCommand
<1>4. /\ \A a \in DOMAIN claims : a \in DOMAIN claims' /\ claims'[a] = claims[a]
      /\ \A a \in DOMAIN claims' : a \in DOMAIN claims \/ a = n
      /\ n \in DOMAIN claims' /\ claims'[n] = k
  BY <1>1, <1>2, <1>3
<1>5. /\ commands[k].state = "pending"
      /\ \A a \in DOMAIN claims : claims[a] # k
  BY <1>2 DEF LedgerInv, PendingIsUnclaimed, InClaims, OldestPending, PendingAt
<1>6. \A u \in Tracking : \A j \in DOMAIN queue[u] :
         queue[u][j] = k => u = t /\ j = i
  BY DEF LedgerInv, QueuedOnce
<1>7. QueuedOnce'
  BY <1>3 DEF LedgerInv, QueuedOnce
<1>8. \A m \in Command : commands'[m] = IF m = k
                              THEN [state |-> "claimed", owner |-> c]
                              ELSE commands[m]
  BY <1>1, <1>2, <1>3
<1>9. QueuedIsKnown' /\ PendingIsUnclaimed'
  <2>1. SUFFICES ASSUME NEW u \in Tracking, NEW j \in DOMAIN queue[u]
                 PROVE  /\ commands'[queue[u][j]].state # "absent"
                        /\ commands'[queue[u][j]].state = "pending"
                              <=> ~\E a \in DOMAIN claims' : claims'[a] = queue[u][j]
    BY <1>3 DEF QueuedIsKnown, PendingIsUnclaimed, Queued, PendingAt, InClaims
  <2>2. queue[u][j] \in Command
    BY <1>1
  <2>3. CASE queue[u][j] = k
    BY <2>2, <2>3, <1>4, <1>8
  <2>4. CASE queue[u][j] # k
    <3>1. commands'[queue[u][j]] = commands[queue[u][j]]
      BY <2>2, <2>4, <1>8
    <3>2. (\E a \in DOMAIN claims' : claims'[a] = queue[u][j])
            <=> \E a \in DOMAIN claims : claims[a] = queue[u][j]
      BY <2>4, <1>4
    <3>3. QED
      BY <3>1, <3>2 DEF LedgerInv, QueuedIsKnown, PendingIsUnclaimed, Queued,
                        PendingAt, InClaims
  <2>5. QED
    BY <2>3, <2>4
<1>10. ClaimedIsKnown'
  <2> SUFFICES ASSUME NEW a \in DOMAIN claims'
               PROVE  commands'[claims'[a]].state # "absent"
    BY DEF ClaimedIsKnown, Queued
  <2>1. CASE a = n
    BY <2>1, <1>3, <1>4, <1>8
  <2>2. CASE a \in DOMAIN claims
    <3>1. claims[a] \in Command /\ commands[claims[a]].state # "absent"
      BY <1>1, <2>2 DEF LedgerInv, ClaimedIsKnown, Queued
    <3>2. QED
      BY <2>2, <3>1, <1>4, <1>8
  <2>3. QED
    BY <2>1, <2>2, <1>4
<1>11. ClaimedOnce'
  BY <1>4, <1>5 DEF LedgerInv, ClaimedOnce
<1>12. NoOvertaking'
  <2> SUFFICES ASSUME NEW b \in DOMAIN claims', NEW u \in Tracking,
                      NEW j \in DOMAIN queue[u], queue[u][j] = claims'[b],
                      NEW h \in 1..(j - 1)
               PROVE  \E a \in 1..(b - 1) : claims'[a] = queue[u][h]
    BY <1>3 DEF NoOvertaking
  <2>1. CASE b \in DOMAIN claims
    <3>1. PICK a \in 1..(b - 1) : claims[a] = queue[u][h]
      BY <2>1, <1>4 DEF LedgerInv, NoOvertaking
    <3>2. a \in DOMAIN claims
      BY <1>1, <2>1
    <3>3. QED
      BY <3>1, <3>2, <1>4
  <2>2. CASE b = n
    <3>1. u = t /\ j = i
      BY <2>2, <1>4, <1>6
    <3>2. h \in DOMAIN queue[t] /\ ~PendingAt(t, h)
      BY <3>1, <1>1, <1>2 DEF OldestPending
    <3>3. PICK a \in DOMAIN claims : claims[a] = queue[t][h]
      BY <3>2 DEF LedgerInv, PendingIsUnclaimed, InClaims
    <3>4. a \in 1..(b - 1)
      BY <1>1, <2>2, <3>3
    <3>5. QED
      BY <3>1, <3>3, <3>4, <1>4
  <2>3. QED
    BY <2>1, <2>2, <1>4
<1>13. KnownIsQueued'
  BY <1>3, <1>5, <1>8 DEF LedgerInv, KnownIsQueued, Queued
<1>14. QED
  BY <1>7, <1>9, <1>10, <1>11, <1>12, <1>13 DEF LedgerInv

LEMMA LedgerStep == TypeOK /\ LedgerInv /\ [Next]_vars => LedgerInv'
<1> SUFFICES ASSUME TypeOK, LedgerInv, [Next]_vars PROVE LedgerInv'
  OBVIOUS
<1>a. commands \in [Command -> CommandRow]
  BY DEF TypeOK
<1>1. ASSUME NEW k \in Command, NEW c \in Connection, CompleteCommand(k, c)
      PROVE LedgerInv'
  BY <1>1, <1>a, SettleStep DEF CompleteCommand, MaySettle, CommandRow
<1>2. ASSUME NEW k \in Command, NEW c \in Connection, FailCommand(k, c)
      PROVE LedgerInv'
  BY <1>2, <1>a, SettleStep DEF FailCommand, MaySettle, CommandRow
<1>3. ASSUME NEW n \in 1..Len(claims), FailStaleClaims(n)
      PROVE LedgerInv'
  BY <1>3, <1>a, SettleStep DEF FailStaleClaims, ClaimedUpTo, CommandRow
<1>4. CASE UNCHANGED commandVars
  BY <1>4, SettleStep DEF commandVars
<1>5. QED
  BY <1>1, <1>2, <1>3, <1>4, EnqueueStep, ClaimStep
     DEF Next, vars, commandVars, RegisterInsert, RegisterReplace,
         RegisterRefresh, Heartbeat, SetState, Disconnect, AppendEvent,
         GoStale, ProcessDies
-----------------------------------------------------------------------------
(* Who holds what was claimed                                                *)

(* A step may only lengthen the stream.                                      *)
LEMMA StreamGrows ==
    ASSUME TypeOK, [Next]_vars
    PROVE  \/ events' = events
           \/ \E e \in Event : events' = Append(events, e)
<1>1. ASSUME NEW t \in Tracking, NEW c \in Connection, NEW kind \in EventKind,
             AppendEventRow(t, kind, c)
      PROVE  \E e \in Event : events' = Append(events, e)
  BY <1>1 DEF AppendEventRow, Event
<1>2. QED
  BY <1>1 DEF Next, vars, EventKind, RegisterInsert, RegisterReplace,
     RegisterRefresh, Heartbeat, SetState, Disconnect, AppendEvent,
     EnqueueCommand, ClaimNextCommand, CompleteCommand, FailCommand,
     FailStaleClaims, GoStale, ProcessDies

(* Having held a session is never forgotten.                                 *)
LEMMA HeldForever ==
    ASSUME TypeOK, [Next]_vars, NEW t, NEW c, NEW n \in 0..Len(events),
           HoldsAfter(t, c, n)
    PROVE  n \in 0..Len(events') /\ HoldsAfter(t, c, n)'
<1>1. events \in Seq(Event)
  BY DEF TypeOK
<1>2. CASE events' = events
  BY <1>2 DEF HoldsAfter
<1>3. ASSUME NEW e \in Event, events' = Append(events, e)
      PROVE  n \in 0..Len(events') /\ HoldsAfter(t, c, n)'
  <2>1. HoldsIn(Append(events, e), t, c, n)
    BY <1>1, HoldsPrefix DEF HoldsAfter
  <2>2. QED
    BY <1>1, <1>3, <2>1 DEF HoldsAfter
<1>4. QED
  BY <1>2, <1>3, StreamGrows

LEMMA HolderStep ==
    TypeOK /\ SessionInv /\ LedgerInv /\ ClaimedByAHolder /\ [Next]_vars
      => ClaimedByAHolder'
<1> SUFFICES ASSUME TypeOK, SessionInv, LedgerInv, ClaimedByAHolder, [Next]_vars
             PROVE  ClaimedByAHolder'
  OBVIOUS
<1>a. /\ queue \in [Tracking -> Seq(Command)]
      /\ commands \in [Command -> CommandRow]
      /\ events \in Seq(Event)
  BY DEF TypeOK
<1>1. ASSUME NEW t \in Tracking, NEW c \in Connection, ClaimNextCommand(t, c)
      PROVE  ClaimedByAHolder'
  <2>1. PICK i \in DOMAIN queue[t] :
           commands' = [commands EXCEPT ![queue[t][i]] =
                          [state |-> "claimed", owner |-> c]]
    BY <1>1 DEF ClaimNextCommand
  <2>2. queue' = queue /\ events' = events /\ Owns(c, t)
    BY <1>1 DEF ClaimNextCommand
  <2>3. HoldsAfter(t, c, Len(events)) /\ Len(events) \in 0..Len(events)
    BY <1>a, <2>2 DEF SessionInv, StreamTellsOwner
  <2>4. SUFFICES ASSUME NEW u \in Tracking, NEW j \in DOMAIN queue[u],
                        commands'[queue[u][j]].owner # NoConnection
                 PROVE  \E n \in 0..Len(events) :
                           HoldsAfter(u, commands'[queue[u][j]].owner, n)
    BY <2>2 DEF ClaimedByAHolder, HoldsAfter
  <2>5. CASE queue[u][j] = queue[t][i]
    <3>1. u = t /\ commands'[queue[u][j]].owner = c
      BY <1>a, <2>1, <2>5 DEF LedgerInv, QueuedOnce
    <3>2. QED
      BY <2>3, <3>1
  <2>6. CASE queue[u][j] # queue[t][i]
    <3>1. commands'[queue[u][j]] = commands[queue[u][j]]
      BY <1>a, <2>1, <2>6
    <3>2. QED
      BY <2>4, <3>1 DEF ClaimedByAHolder
  <2>7. QED
    BY <2>5, <2>6
<1>2. ASSUME NEW t \in Tracking, NEW k \in Command, EnqueueCommand(t, k)
      PROVE  ClaimedByAHolder'
  <2>1. /\ queue' = [queue EXCEPT ![t] = Append(@, k)] /\ events' = events
        /\ commands' = [commands EXCEPT ![k] = [state |-> "pending",
                                                owner |-> NoConnection]]
    BY <1>2 DEF EnqueueCommand
  <2>2. SUFFICES ASSUME NEW u \in Tracking, NEW j \in DOMAIN queue'[u],
                        commands'[queue'[u][j]].owner # NoConnection
                 PROVE  \E n \in 0..Len(events) :
                           HoldsAfter(u, commands'[queue'[u][j]].owner, n)
    BY <2>1 DEF ClaimedByAHolder, HoldsAfter
  <2>3. queue'[u][j] # k
    BY <1>a, <2>1, <2>2
  <2>4. j \in DOMAIN queue[u] /\ queue'[u][j] = queue[u][j]
    BY <1>a, <2>1, <2>3
  <2>5. commands'[queue'[u][j]] = commands[queue[u][j]]
    BY <1>a, <2>1, <2>3, <2>4
  <2>6. QED
    BY <2>2, <2>4, <2>5 DEF ClaimedByAHolder
<1>3. CASE queue' = queue /\ \A k \in Command : commands'[k].owner = commands[k].owner
  <2> SUFFICES ASSUME NEW u \in Tracking, NEW j \in DOMAIN queue[u],
                      commands[queue[u][j]].owner # NoConnection
               PROVE  \E n \in 0..Len(events') :
                         HoldsIn(events', u, commands[queue[u][j]].owner, n)
    <3>1. \A u \in Tracking : \A j \in DOMAIN queue[u] : queue[u][j] \in Command
      BY <1>a
    <3>2. QED
      BY <1>3, <3>1 DEF ClaimedByAHolder, HoldsAfter
  <2>1. PICK n \in 0..Len(events) : HoldsAfter(u, commands[queue[u][j]].owner, n)
    BY DEF ClaimedByAHolder
  <2>2. n \in 0..Len(events') /\ HoldsIn(events', u, commands[queue[u][j]].owner, n)
    <3> DEFINE d == commands[queue[u][j]].owner
    <3>1. d \in Connection \cup {NoConnection}
      BY <1>a DEF CommandRow
    <3>2. \A x \in Connection \cup {NoConnection} :
             HoldsIn(events, u, x, n) =>
                n \in 0..Len(events') /\ HoldsIn(events', u, x, n)
      BY HeldForever DEF HoldsAfter
    <3>3. QED
      BY <2>1, <3>1, <3>2 DEF HoldsAfter
  <2>3. QED
    BY <2>2
<1>4. ASSUME NEW k \in Command, NEW c \in Connection,
             CompleteCommand(k, c) \/ FailCommand(k, c)
      PROVE  ClaimedByAHolder'
  BY ZenonT(30), <1>a, <1>3, <1>4 DEF CompleteCommand, FailCommand, CommandRow
<1>5. ASSUME NEW n \in 1..Len(claims), FailStaleClaims(n)
      PROVE  ClaimedByAHolder'
  BY <1>a, <1>3, <1>5 DEF FailStaleClaims, CommandRow
<1>6. CASE UNCHANGED commandVars
  BY <1>3, <1>6 DEF commandVars
<1>7. QED
  BY <1>1, <1>2, <1>4, <1>5, <1>6
     DEF Next, vars, commandVars, RegisterInsert, RegisterReplace,
         RegisterRefresh, Heartbeat, SetState, Disconnect, AppendEvent,
         GoStale, ProcessDies
-----------------------------------------------------------------------------
(* The inductive invariant holds in every reachable state, for any number of *)
(* sessions, connections, commands and events.                               *)
THEOREM Invariance == Spec => []IInv
<1>1. Init => IInv
  <2> SUFFICES ASSUME Init PROVE IInv
    OBVIOUS
  <2>1. TypeOK
    BY InitType
  <2>2. /\ events = <<>> /\ claims = <<>> /\ Len(events) = 0
        /\ \A t \in Tracking : queue[t] = <<>> /\ sessions[t].owner = NoConnection
    BY DEF Init, NoRow
  <2>3. SessionInv
    BY <2>2, NoConnectionAssumption
       DEF SessionInv, StreamTellsOwner, OnlyTheHolderPublishes,
           ShortIdNamesOneSession, Owns, HasRow, HoldsAfter, HoldsIn
  <2>4. LedgerInv
    BY <2>2 DEF LedgerInv, QueuedOnce, QueuedIsKnown, PendingIsUnclaimed,
                ClaimedIsKnown, ClaimedOnce, NoOvertaking,
                KnownIsQueued, Queued, Init
  <2>5. ClaimedByAHolder
    BY <2>2 DEF ClaimedByAHolder
  <2>6. QED
    BY <2>1, <2>3, <2>4, <2>5 DEF IInv
<1>2. IInv /\ [Next]_vars => IInv'
  BY NextType, SessionStep, LedgerStep, HolderStep DEF IInv
<1>3. QED
  BY <1>1, <1>2, PTL DEF Spec

(* The event stream always names the owner recorded in tui_sessions.         *)
THEOREM StreamTellsOwnerTheorem == Spec => []StreamTellsOwner
BY Invariance, PTL DEF IInv, SessionInv

(* No connection gets an event into a stream it does not hold.               *)
THEOREM OnlyTheHolderPublishesTheorem == Spec => []OnlyTheHolderPublishes
BY Invariance, PTL DEF IInv, SessionInv

(* Commands of a session are claimed in the order they were enqueued.        *)
THEOREM NoOvertakingTheorem == Spec => []NoOvertaking
BY Invariance, PTL DEF IInv, LedgerInv

(* No command is claimed twice, whatever replaces, crashes or expires.       *)
THEOREM ClaimedOnceTheorem == Spec => []ClaimedOnce
BY Invariance, PTL DEF IInv, LedgerInv

(* A command is only ever claimed by a holder of the session it was sent to. *)
THEOREM ClaimedByAHolderTheorem == Spec => []ClaimedByAHolder
BY Invariance, PTL DEF IInv

(* A short id never names two sessions.                                      *)
THEOREM ShortIdTheorem == Spec => []ShortIdNamesOneSession
BY Invariance, PTL DEF IInv, SessionInv
-----------------------------------------------------------------------------
(* A live session is not taken away from its owner.                          *)
THEOREM LiveRowNotStolenTheorem == Spec => LiveRowNotStolen
<1> DEFINE Safe ==
      \A t \in Tracking :
          RowLive(t) /\ sessions'[t].owner # sessions[t].owner =>
              /\ sessions'[t].owner = NoConnection
              /\ events'[Len(events')].kind = "disconnected"
              /\ events'[Len(events')].by = sessions[t].owner
<1>1. TypeOK /\ [Next]_vars => [Safe]_vars
  <2> SUFFICES ASSUME TypeOK, Next, NEW u \in Tracking, RowLive(u),
                      sessions'[u].owner # sessions[u].owner
               PROVE  /\ sessions'[u].owner = NoConnection
                      /\ events'[Len(events')].kind = "disconnected"
                      /\ events'[Len(events')].by = sessions[u].owner
    OBVIOUS
  <2>a. sessions \in [Tracking -> Row] /\ events \in Seq(Event)
    BY DEF TypeOK
  <2>1. ASSUME NEW t \in Tracking, NEW c \in Connection, NEW s \in ShortId,
               RegisterInsert(t, c, s)
        PROVE  FALSE
    BY <2>1, <2>a DEF RegisterInsert, RowLive, HasRow
  <2>2. ASSUME NEW t \in Tracking, NEW c \in Connection, RegisterReplace(t, c)
        PROVE  FALSE
    BY <2>2, <2>a DEF RegisterReplace
  <2>3. ASSUME NEW t \in Tracking, NEW c \in Connection, RegisterRefresh(t, c)
        PROVE  FALSE
    BY <2>3, <2>a DEF RegisterRefresh, Owns, NewRow
  <2>4. ASSUME NEW t \in Tracking, NEW c \in Connection, Disconnect(t, c)
        PROVE  /\ sessions'[u].owner = NoConnection
               /\ events'[Len(events')].kind = "disconnected"
               /\ events'[Len(events')].by = sessions[u].owner
    BY <2>4, <2>a DEF Disconnect, AppendEventRow, Owns, NoRow
  <2>5. ASSUME NEW t \in Tracking, NEW c \in Connection, Heartbeat(t, c)
        PROVE  FALSE
    BY <2>5, <2>a DEF Heartbeat, Row
  <2>6. ASSUME NEW t \in Tracking, NEW c \in Connection, NEW st \in SessionState,
               SetState(t, c, st)
        PROVE  FALSE
    BY <2>6, <2>a DEF SetState, Row
  <2>7. ASSUME NEW t \in Tracking, GoStale(t)
        PROVE  FALSE
    BY <2>7, <2>a DEF GoStale, Row
  <2>8. CASE sessions' = sessions
    BY <2>8
  <2>9. QED
    BY <2>1, <2>2, <2>3, <2>4, <2>5, <2>6, <2>7, <2>8
       DEF Next, AppendEvent, EnqueueCommand, ClaimNextCommand,
           CompleteCommand, FailCommand, FailStaleClaims, ProcessDies
<1>2. QED
  BY <1>1, TypeCorrect, PTL DEF Spec, LiveRowNotStolen
-----------------------------------------------------------------------------
(* The tables implement the mailbox                                          *)

TakenOf == [t \in Tracking |-> {i \in DOMAIN queue[t] : ~PendingAt(t, i)}]
OutcomeOf == [k \in Command |->
                IF commands[k].state \in {"completed", "failed"}
                THEN commands[k].state ELSE "open"]

(* A step that leaves the command tables alone leaves the mailbox alone.     *)
LEMMA MailboxQuiet ==
    ASSUME UNCHANGED commandVars
    PROVE  UNCHANGED Mailbox!vars
BY DEF commandVars, Mailbox!vars, PendingAt

LEMMA EnqueueIsSend ==
    ASSUME TypeOK, LedgerInv, NEW t \in Tracking, NEW k \in Command,
           EnqueueCommand(t, k)
    PROVE  Mailbox!Send(t, k)
<1>1. /\ queue \in [Tracking -> Seq(Command)]
      /\ commands \in [Command -> CommandRow]
  BY DEF TypeOK
<1>2. /\ queue' = [queue EXCEPT ![t] = Append(@, k)]
      /\ commands' = [commands EXCEPT ![k] = [state |-> "pending",
                                              owner |-> NoConnection]]
      /\ commands[k].state = "absent"
  BY DEF EnqueueCommand, Queued
<1>3. \A u \in Tracking : \A i \in DOMAIN queue[u] :
         queue[u][i] # k /\ queue[u][i] \in Command
  BY <1>1, <1>2 DEF LedgerInv, QueuedIsKnown, Queued
<1>4. TakenOf' = TakenOf
  <2>1. ASSUME NEW u \in Tracking
        PROVE  {i \in DOMAIN queue'[u] : commands'[queue'[u][i]].state # "pending"}
                 = {i \in DOMAIN queue[u] : commands[queue[u][i]].state # "pending"}
    <3>1. \A i \in DOMAIN queue[u] :
             i \in DOMAIN queue'[u] /\ queue'[u][i] = queue[u][i]
      BY <1>1, <1>2
    <3>2. \A i \in DOMAIN queue'[u] :
             i \in DOMAIN queue[u] \/ queue'[u][i] = k
      BY <1>1, <1>2
    <3>3. \A i \in DOMAIN queue[u] : commands'[queue[u][i]] = commands[queue[u][i]]
      BY <1>1, <1>2, <1>3
    <3>4. commands'[k].state = "pending"
      BY <1>1, <1>2
    <3>5. QED
      BY <3>1, <3>2, <3>3, <3>4
  <2>2. QED
    BY <2>1 DEF TakenOf, PendingAt
<1>5. OutcomeOf' = OutcomeOf
  BY <1>1, <1>2 DEF OutcomeOf
<1>6. QED
  BY <1>2, <1>3, <1>4, <1>5 DEF Mailbox!Send, Mailbox!Logged, TakenOf, OutcomeOf

LEMMA ClaimIsTake ==
    ASSUME TypeOK, LedgerInv, NEW t \in Tracking, NEW c \in Connection,
           ClaimNextCommand(t, c)
    PROVE  Mailbox!Take(t)
<1>1. /\ queue \in [Tracking -> Seq(Command)]
      /\ commands \in [Command -> CommandRow]
  BY DEF TypeOK
<1>2. PICK i \in DOMAIN queue[t] :
         /\ OldestPending(t, i)
         /\ commands' = [commands EXCEPT ![queue[t][i]] =
                            [state |-> "claimed", owner |-> c]]
  BY DEF ClaimNextCommand
<1> DEFINE k == queue[t][i]
<1>3. queue' = queue /\ k \in Command /\ commands[k].state = "pending"
  BY <1>1, <1>2 DEF ClaimNextCommand, OldestPending, PendingAt
<1>4. \A m \in Command : commands'[m] = IF m = k
                              THEN [state |-> "claimed", owner |-> c]
                              ELSE commands[m]
  BY <1>1, <1>2, <1>3
<1>5. \A u \in Tracking : \A j \in DOMAIN queue[u] :
         queue[u][j] = k => u = t /\ j = i
  BY DEF LedgerInv, QueuedOnce
<1>6. ASSUME NEW u \in Tracking
      PROVE  {j \in DOMAIN queue[u] : commands'[queue[u][j]].state # "pending"}
               = {j \in DOMAIN queue[u] : commands[queue[u][j]].state # "pending"}
                   \cup (IF u = t THEN {i} ELSE {})
  <2>1. \A j \in DOMAIN queue[u] :
           commands'[queue[u][j]].state # "pending"
             <=> commands[queue[u][j]].state # "pending" \/ (u = t /\ j = i)
    <3>1. \A j \in DOMAIN queue[u] : queue[u][j] \in Command
      BY <1>1
    <3>2. QED
      BY <3>1, <1>3, <1>4, <1>5
  <2>2. QED
    BY <2>1, <1>2
<1>7. TakenOf' = [TakenOf EXCEPT ![t] = @ \cup {i}]
  <2>1. TakenOf' = [u \in Tracking |-> TakenOf[u] \cup (IF u = t THEN {i} ELSE {})]
    BY <1>3, <1>6, Zenon DEF TakenOf, PendingAt
  <2>2. QED
    BY <2>1 DEF TakenOf
<1>8. OutcomeOf' = OutcomeOf
  BY <1>3, <1>4 DEF OutcomeOf
<1>9. Mailbox!IsNext(t, i)
  <2>1. \A j \in 1..(i - 1) : j \in DOMAIN queue[t]
    BY <1>1
  <2>2. QED
    BY <1>2, <2>1 DEF Mailbox!IsNext, OldestPending, PendingAt
<1>10. QED
  BY <1>3, <1>7, <1>8, <1>9 DEF Mailbox!Take, TakenOf, OutcomeOf

(* Settling a set of claimed commands, with the same result for all.         *)
LEMMA SettleIsSettle ==
    ASSUME TypeOK, LedgerInv, NEW result \in {"completed", "failed"},
           NEW ks \in SUBSET Command,
           \A k \in ks : commands[k].state = "claimed",
           UNCHANGED queue,
           commands' = [k \in Command |->
                          IF k \in ks THEN [commands[k] EXCEPT !.state = result]
                                      ELSE commands[k]]
    PROVE  Mailbox!Settle(ks, result)
<1>1. /\ queue \in [Tracking -> Seq(Command)]
      /\ commands \in [Command -> CommandRow]
  BY DEF TypeOK
<1>2. ASSUME NEW k \in Command
      PROVE  commands'[k].state = IF k \in ks THEN result ELSE commands[k].state
  BY <1>1, <1>2 DEF CommandRow
<1>3. TakenOf' = TakenOf
  <2>1. \A t \in Tracking : \A i \in DOMAIN queue[t] : PendingAt(t, i)' <=> PendingAt(t, i)
    BY <1>1, <1>2 DEF PendingAt
  <2>2. QED
    BY <2>1 DEF TakenOf
<1>4. OutcomeOf' = [k \in Command |-> IF k \in ks THEN result ELSE OutcomeOf[k]]
  BY <1>2 DEF OutcomeOf
<1>5. ASSUME NEW k \in ks
      PROVE  Mailbox!HandedOver(k) /\ OutcomeOf[k] = "open"
  <2>1. PICK t \in Tracking : \E i \in DOMAIN queue[t] : queue[t][i] = k
    BY DEF LedgerInv, KnownIsQueued, Queued
  <2>2. PICK i \in DOMAIN queue[t] : queue[t][i] = k
    BY <2>1
  <2>3. i \in TakenOf[t]
    BY <2>2 DEF TakenOf, PendingAt
  <2>4. QED
    BY <2>2, <2>3 DEF Mailbox!HandedOver, TakenOf, OutcomeOf
<1>6. QED
  BY <1>3, <1>4, <1>5 DEF Mailbox!Settle, TakenOf, OutcomeOf

(* The store implements the mailbox: for the commands, rows, connections,    *)
(* replacement, crashes and claim expiry amount to an ordered, at-most-once  *)
(* hand-over with final outcomes.                                            *)
THEOREM ImplementsMailbox == Spec => MailboxSpec
<1>1. Init => Mailbox!Init
  BY DEF Init, Mailbox!Init, PendingAt
<1>2. TypeOK /\ LedgerInv /\ [Next]_vars => [Mailbox!Next]_(Mailbox!vars)
  <2> SUFFICES ASSUME TypeOK, LedgerInv, [Next]_vars
               PROVE  Mailbox!Next \/ UNCHANGED Mailbox!vars
    OBVIOUS
  <2>a. commands \in [Command -> CommandRow]
    BY DEF TypeOK
  <2>1. ASSUME NEW t \in Tracking, NEW k \in Command, EnqueueCommand(t, k)
        PROVE  Mailbox!Next
    BY <2>1, EnqueueIsSend DEF Mailbox!Next
  <2>2. ASSUME NEW t \in Tracking, NEW c \in Connection, ClaimNextCommand(t, c)
        PROVE  Mailbox!Next
    BY <2>2, ClaimIsTake DEF Mailbox!Next
  <2>3. ASSUME NEW k \in Command, NEW c \in Connection, CompleteCommand(k, c)
        PROVE  Mailbox!Next
    <3>1. /\ commands[k].state = "claimed" /\ UNCHANGED queue
          /\ commands' = [m \in Command |->
                             IF m \in {k} THEN [commands[m] EXCEPT !.state = "completed"]
                                         ELSE commands[m]]
      BY <2>3, <2>a DEF CompleteCommand, MaySettle
    <3>2. Mailbox!Settle({k}, "completed")
      BY <3>1, SettleIsSettle
    <3>3. QED
      BY <3>2 DEF Mailbox!Next
  <2>4. ASSUME NEW k \in Command, NEW c \in Connection, FailCommand(k, c)
        PROVE  Mailbox!Next
    <3>1. /\ commands[k].state = "claimed" /\ UNCHANGED queue
          /\ commands' = [m \in Command |->
                             IF m \in {k} THEN [commands[m] EXCEPT !.state = "failed"]
                                         ELSE commands[m]]
      BY <2>4, <2>a DEF FailCommand, MaySettle
    <3>2. Mailbox!Settle({k}, "failed")
      BY <3>1, SettleIsSettle
    <3>3. QED
      BY <3>2 DEF Mailbox!Next
  <2>5. ASSUME NEW n \in 1..Len(claims), FailStaleClaims(n)
        PROVE  Mailbox!Next
    <3>1. \A k \in ClaimedUpTo(n) : commands[k].state = "claimed"
      BY DEF ClaimedUpTo
    <3>2. ClaimedUpTo(n) \in SUBSET Command
      BY DEF ClaimedUpTo
    <3>3. Mailbox!Settle(ClaimedUpTo(n), "failed")
      BY <2>5, <3>1, <3>2, SettleIsSettle DEF FailStaleClaims
    <3>4. QED
      BY <3>2, <3>3 DEF Mailbox!Next
  <2>6. CASE UNCHANGED commandVars
    BY <2>6, MailboxQuiet
  <2>7. QED
    BY <2>1, <2>2, <2>3, <2>4, <2>5, <2>6
       DEF Next, vars, commandVars, RegisterInsert, RegisterReplace,
           RegisterRefresh, Heartbeat, SetState, Disconnect, AppendEvent,
           GoStale, ProcessDies
<1>3. QED
  BY <1>1, <1>2, Invariance, PTL DEF Spec, IInv, MailboxSpec, Mailbox!Spec
=============================================================================
