------------------------------ MODULE TuiStore ------------------------------
(***************************************************************************)
(* The durable transport of the selective runtime: the tables              *)
(* tui_sessions, tui_events and tui_commands of src/store.mjs.  Every      *)
(* action is one BEGIN IMMEDIATE transaction; its caller is any connection *)
(* (or the broker) at any time, so the module is the store under its most  *)
(* general client.  TuiExtension restricts the callers to what the Pi      *)
(* extension does.  Acknowledging an event marks a row no connection reads *)
(* back; it belongs to the broker's drain.                                 *)
(*                                                                         *)
(* A transaction that answers {ok: false} changes no row; it is a          *)
(* stuttering step and has no action.  Time is abstracted to what the      *)
(* rows' liveness test tells apart: a heartbeat inside the caller's cutoff *)
(* (fresh) or not.  The wall clock does not go backwards between two       *)
(* inserts, so (created_at, rowid) order is insertion order.               *)
(***************************************************************************)
EXTENDS Naturals, Sequences, FiniteSets

CONSTANTS Tracking,      \* tracking ids
          Connection,    \* connection ids; each belongs to one OS process
          NoConnection,  \* the owner column of an absent row
          ShortId,       \* short ids a human types
          NoShortId,
          SessionState,  \* values of the state column: TUI_SESSION_STATES
          Command,       \* command ids
          MaxEvents      \* bound: rows ever inserted into tui_events

ASSUME NoConnectionAssumption == NoConnection \notin Connection
ASSUME NoShortIdAssumption == NoShortId \notin ShortId
ASSUME SessionStateAssumption == "connected" \in SessionState
ASSUME MaxEventsAssumption == MaxEvents \in Nat

VARIABLES
    sessions,  \* tui_sessions: the row of each tracking id
    events,    \* tui_events in event_id order
    queue,     \* tui_commands of each tracking id, in insertion order
    commands,  \* state and owner_connection_id of each command
    claims,    \* the commands in the order of their claimed_at
    dead       \* connections whose process (pid) is verifiably gone

sessionVars == <<sessions, events>>
commandVars == <<queue, commands, claims>>
vars == <<sessions, events, queue, commands, claims, dead>>

CommandState == {"absent", "pending", "claimed", "completed", "failed"}
EventKind == {"connected", "disconnected", "output"}

Row == [owner : Connection \cup {NoConnection}, state : SessionState,
        fresh : BOOLEAN, shortId : ShortId \cup {NoShortId}]
Event == [tracking : Tracking, kind : EventKind, by : Connection]
CommandRow == [state : CommandState, owner : Connection \cup {NoConnection}]

NoRow == [owner |-> NoConnection, state |-> "connected", fresh |-> FALSE,
          shortId |-> NoShortId]
NewRow(c, s) == [owner |-> c, state |-> "connected", fresh |-> TRUE,
                 shortId |-> s]

-----------------------------------------------------------------------------
HasRow(t) == sessions[t].owner # NoConnection

(* Plausible bug: a CAS that compares the tracking id only.                  *)
OwnsIgnoringConnection(c, t) == HasRow(t)

(* WHERE tracking_id = ? AND connection_id = ?                               *)
Owns(c, t) == sessions[t].owner = c

Alive(c) == c \notin dead
RowLive(t) == HasRow(t) /\ sessions[t].fresh /\ Alive(sessions[t].owner)


(* Plausible bug: rows that went stale no longer reserve their short id.     *)
ShortIdsOfLiveRows == {sessions[t].shortId : t \in {u \in Tracking : RowLive(u)}}

ShortIdsInUse == {sessions[t].shortId : t \in {u \in Tracking : HasRow(u)}}
Queued(k) == commands[k].state # "absent"

EventRoom == Len(events) < MaxEvents
AppendEventRow(t, kind, c) ==
    events' = Append(events, [tracking |-> t, kind |-> kind, by |-> c])

-----------------------------------------------------------------------------
(* Sessions *)

(* No row yet: insert one with a short id no other row holds.                *)
RegisterInsert(t, c, s) ==
    /\ Alive(c) /\ ~HasRow(t) /\ EventRoom
    /\ s \notin ShortIdsInUse
    /\ sessions' = [sessions EXCEPT ![t] = NewRow(c, s)]
    /\ AppendEventRow(t, "connected", c)
    /\ UNCHANGED <<queue, commands, claims, dead>>

(* Plausible bug: the last registration always wins.                         *)
RegisterStealing(t, c) ==
    /\ Alive(c) /\ HasRow(t) /\ ~Owns(c, t) /\ EventRoom
    /\ sessions' = [sessions EXCEPT ![t] = NewRow(c, @.shortId)]
    /\ AppendEventRow(t, "connected", c)
    /\ UNCHANGED <<queue, commands, claims, dead>>

(* A stale or dead row of another connection is taken over, keeping its      *)
(* short id; a live one answers 'session_live_elsewhere'.                    *)
RegisterReplace(t, c) ==
    /\ Alive(c) /\ HasRow(t) /\ ~Owns(c, t) /\ EventRoom
    /\ ~RowLive(t)
    /\ sessions' = [sessions EXCEPT ![t] = NewRow(c, @.shortId)]
    /\ AppendEventRow(t, "connected", c)
    /\ UNCHANGED <<queue, commands, claims, dead>>

(* The same connection registers again: refresh, no second event.            *)
RegisterRefresh(t, c) ==
    /\ Alive(c) /\ Owns(c, t)
    /\ sessions' = [sessions EXCEPT ![t] = NewRow(c, @.shortId)]
    /\ UNCHANGED <<events, queue, commands, claims, dead>>

Heartbeat(t, c) ==
    /\ Alive(c) /\ Owns(c, t)
    /\ sessions' = [sessions EXCEPT ![t].fresh = TRUE]
    /\ UNCHANGED <<events, queue, commands, claims, dead>>

SetState(t, c, st) ==
    /\ Alive(c) /\ Owns(c, t)
    /\ sessions' = [sessions EXCEPT ![t].state = st]
    /\ UNCHANGED <<events, queue, commands, claims, dead>>

(* Plausible bug: the row goes, and nobody is told.                          *)
DisconnectSilently(t, c) ==
    /\ Alive(c) /\ Owns(c, t) /\ EventRoom
    /\ sessions' = [sessions EXCEPT ![t] = NoRow]
    /\ UNCHANGED <<events, queue, commands, claims, dead>>

(* Row delete and 'disconnected' event in one transaction; commands stay.    *)
Disconnect(t, c) ==
    /\ Alive(c) /\ Owns(c, t) /\ EventRoom
    /\ sessions' = [sessions EXCEPT ![t] = NoRow]
    /\ AppendEventRow(t, "disconnected", c)
    /\ UNCHANGED <<queue, commands, claims, dead>>
-----------------------------------------------------------------------------
(* Events *)

(* appendTuiEvent with its connection CAS.                                   *)
AppendEvent(t, c) ==
    /\ Alive(c) /\ Owns(c, t) /\ EventRoom
    /\ AppendEventRow(t, "output", c)
    /\ UNCHANGED <<sessions, queue, commands, claims, dead>>
-----------------------------------------------------------------------------
(* Commands *)

(* Plausible bug: INSERT without the primary key check.                      *)
EnqueueWithoutDedup(t, k) ==
    /\ HasRow(t)
    /\ Len(queue[t]) < Cardinality(Command)
    /\ queue' = [queue EXCEPT ![t] = Append(@, k)]
    /\ commands' = [commands EXCEPT ![k] = [state |-> "pending",
                                            owner |-> NoConnection]]
    /\ UNCHANGED <<sessions, events, claims, dead>>

(* INSERT OR IGNORE: a known command id is 'duplicate_command'; no row for   *)
(* the session is 'unknown_session'.                                         *)
EnqueueCommand(t, k) ==
    /\ HasRow(t)
    /\ ~Queued(k)
    /\ queue' = [queue EXCEPT ![t] = Append(@, k)]
    /\ commands' = [commands EXCEPT ![k] = [state |-> "pending",
                                            owner |-> NoConnection]]
    /\ UNCHANGED <<sessions, events, claims, dead>>

PendingAt(t, i) == commands[queue[t][i]].state = "pending"

(* Plausible bug: ORDER BY a random command_id, that is, any pending one.    *)
AnyPending(t, i) == i \in DOMAIN queue[t] /\ PendingAt(t, i)

(* WHERE tracking_id = ? AND state = 'pending' ORDER BY created_at, rowid    *)
(* LIMIT 1                                                                   *)
OldestPending(t, i) ==
    /\ i \in DOMAIN queue[t] /\ PendingAt(t, i)
    /\ \A j \in 1..(i - 1) : ~PendingAt(t, j)

ClaimNextCommand(t, c) ==
    /\ Alive(c) /\ Owns(c, t)
    /\ \E i \in DOMAIN queue[t] :
          /\ OldestPending(t, i)
          /\ commands' = [commands EXCEPT ![queue[t][i]] =
                             [state |-> "claimed", owner |-> c]]
          /\ claims' = Append(claims, queue[t][i])
    /\ UNCHANGED <<sessions, events, queue, dead>>

(* Plausible bug: a command that is already settled may be settled again.    *)
MaySettleTwice(k, c) == commands[k].owner = c

(* The checks of completeTuiCommand and failTuiCommand: not_found,           *)
(* invalid_state, not_owner.                                                 *)
MaySettle(k, c) == commands[k].state = "claimed" /\ commands[k].owner = c

CompleteCommand(k, c) ==
    /\ Alive(c) /\ MaySettle(k, c)
    /\ commands' = [commands EXCEPT ![k].state = "completed"]
    /\ UNCHANGED <<sessions, events, queue, claims, dead>>

FailCommand(k, c) ==
    /\ Alive(c) /\ MaySettle(k, c)
    /\ commands' = [commands EXCEPT ![k].state = "failed"]
    /\ UNCHANGED <<sessions, events, queue, claims, dead>>

ClaimedUpTo(n) == {k \in Command : /\ commands[k].state = "claimed"
                                   /\ \E i \in 1..n : claims[i] = k}

(* Plausible bug: the result code 'claim_expired' lands in the state column. *)
ExpireIntoState(n) ==
    /\ ClaimedUpTo(n) # {}
    /\ commands' = [k \in Command |->
                      IF k \in ClaimedUpTo(n)
                      THEN [commands[k] EXCEPT !.state = "claim_expired"]
                      ELSE commands[k]]
    /\ UNCHANGED <<sessions, events, queue, claims, dead>>

(* Plausible bug: expired claims go back to 'pending' for another delivery.  *)
RequeueStaleClaims(n) ==
    /\ ClaimedUpTo(n) # {}
    /\ commands' = [k \in Command |->
                      IF k \in ClaimedUpTo(n)
                      THEN [state |-> "pending", owner |-> NoConnection]
                      ELSE commands[k]]
    /\ UNCHANGED <<sessions, events, queue, claims, dead>>

(* claimed_at <= now - claimTimeoutMs: the n oldest claims, those still      *)
(* 'claimed' fail with 'claim_expired'.                                      *)
FailStaleClaims(n) ==
    /\ ClaimedUpTo(n) # {}
    /\ commands' = [k \in Command |->
                      IF k \in ClaimedUpTo(n)
                      THEN [commands[k] EXCEPT !.state = "failed"]
                      ELSE commands[k]]
    /\ UNCHANGED <<sessions, events, queue, claims, dead>>
-----------------------------------------------------------------------------
(* The environment of the tables *)

(* No heartbeat for longer than the staleness window.                        *)
GoStale(t) ==
    /\ HasRow(t)
    /\ sessions' = [sessions EXCEPT ![t].fresh = FALSE]
    /\ UNCHANGED <<events, queue, commands, claims, dead>>

(* The process that made the connections cs is gone without a disconnect.    *)
ProcessDies(cs) ==
    /\ \A c \in cs : Alive(c)
    /\ dead' = dead \cup cs
    /\ UNCHANGED <<sessions, events, queue, commands, claims>>

Init ==
    /\ sessions = [t \in Tracking |-> NoRow]
    /\ events = <<>>
    /\ queue = [t \in Tracking |-> <<>>]
    /\ commands = [k \in Command |-> [state |-> "absent",
                                      owner |-> NoConnection]]
    /\ claims = <<>>
    /\ dead = {}

Next ==
    \/ \E t \in Tracking, c \in Connection, s \in ShortId :
          RegisterInsert(t, c, s)
    \/ \E t \in Tracking, c \in Connection : RegisterReplace(t, c)
    \/ \E t \in Tracking, c \in Connection : RegisterRefresh(t, c)
    \/ \E t \in Tracking, c \in Connection : Heartbeat(t, c)
    \/ \E t \in Tracking, c \in Connection, st \in SessionState :
          SetState(t, c, st)
    \/ \E t \in Tracking, c \in Connection : Disconnect(t, c)
    \/ \E t \in Tracking, c \in Connection : AppendEvent(t, c)
    \/ \E t \in Tracking, k \in Command : EnqueueCommand(t, k)
    \/ \E t \in Tracking, c \in Connection : ClaimNextCommand(t, c)
    \/ \E k \in Command, c \in Connection : CompleteCommand(k, c)
    \/ \E k \in Command, c \in Connection : FailCommand(k, c)
    \/ \E n \in 1..Len(claims) : FailStaleClaims(n)
    \/ \E t \in Tracking : GoStale(t)
    \/ \E cs \in SUBSET Connection : ProcessDies(cs)

Spec == Init /\ [][Next]_vars
-----------------------------------------------------------------------------
(* Properties *)

TypeOK ==
    /\ sessions \in [Tracking -> Row]
    /\ events \in Seq(Event)
    /\ queue \in [Tracking -> Seq(Command)]
    /\ commands \in [Command -> CommandRow]
    /\ claims \in Seq(Command)
    /\ dead \subseteq Connection

(* According to the first n events of es, c holds session t: c's 'connected' *)
(* event is the last lifecycle event of t among them.                        *)
HoldsIn(es, t, c, n) ==
    \E i \in 1..n :
        /\ es[i].tracking = t /\ es[i].kind = "connected" /\ es[i].by = c
        /\ \A j \in (i + 1)..n : es[j].tracking # t \/ es[j].kind = "output"

HoldsAfter(t, c, n) == HoldsIn(events, t, c, n)

(* The event stream, which is all the broker and so the phone ever see, and   *)
(* the session table never disagree about who holds a session: registration,  *)
(* replacement and disconnect append exactly the events that say so.          *)
StreamTellsOwner ==
    \A t \in Tracking, c \in Connection :
        Owns(c, t) <=> HoldsAfter(t, c, Len(events))

(* A connection publishes only while the stream says it holds the session:    *)
(* a replaced or disconnected connection never gets a message into the new    *)
(* owner's stream, whatever transactions it still issues.                     *)
OnlyTheHolderPublishes ==
    \A i \in DOMAIN events :
        events[i].kind \in {"output", "disconnected"} =>
            HoldsAfter(events[i].tracking, events[i].by, i - 1)

(* Commands of one session are claimed in the order they were enqueued, and   *)
(* none is skipped: an abort queued before a prompt is claimed before it,     *)
(* also across replacement, reconnects and expired claims.                    *)
NoOvertaking ==
    \A b \in DOMAIN claims, t \in Tracking :
        \A j \in DOMAIN queue[t] :
            queue[t][j] = claims[b] =>
                \A i \in 1..(j - 1) :
                    \E a \in 1..(b - 1) : claims[a] = queue[t][i]

(* No command is ever claimed twice, by whatever connections and after        *)
(* whatever crash: failed claims are not replayed.                            *)
ClaimedOnce ==
    \A a, b \in DOMAIN claims : claims[a] = claims[b] => a = b

(* Whoever claimed a command addressed to t held t at some point: a command   *)
(* is never handed to a connection that was not its session's owner.          *)
ClaimedByAHolder ==
    \A t \in Tracking : \A i \in DOMAIN queue[t] :
        commands[queue[t][i]].owner # NoConnection =>
            \E n \in 0..Len(events) :
                HoldsAfter(t, commands[queue[t][i]].owner, n)

(* Two rows never answer to the same short id, so "/use <sid>" names one      *)
(* session.                                                                   *)
ShortIdNamesOneSession ==
    \A t, u \in Tracking :
        HasRow(t) /\ HasRow(u) /\ sessions[t].shortId = sessions[u].shortId
            => t = u

(* A live row changes hands only through its owner's own disconnect: a        *)
(* registration never steals a session that is heartbeating in a live process.*)
LiveRowNotStolen ==
    [][\A t \in Tracking :
          RowLive(t) /\ sessions'[t].owner # sessions[t].owner =>
              /\ sessions'[t].owner = NoConnection
              /\ events'[Len(events')].kind = "disconnected"
              /\ events'[Len(events')].by = sessions[t].owner]_vars

(* To the commands, the three tables and all their CAS rules are the mailbox   *)
(* of CommandMailbox.                                                          *)
Mailbox == INSTANCE CommandMailbox WITH
    log <- queue,
    taken <- [t \in Tracking |-> {i \in DOMAIN queue[t] : ~PendingAt(t, i)}],
    outcome <- [k \in Command |->
                  IF commands[k].state \in {"completed", "failed"}
                  THEN commands[k].state ELSE "open"]

(* Commands leave in order, at most once, and outcomes are final: the store    *)
(* implements CommandMailbox.                                                  *)
MailboxSpec == Mailbox!Spec
=============================================================================
