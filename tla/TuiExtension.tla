---------------------------- MODULE TuiExtension ----------------------------
(***************************************************************************)
(* extension/selective-tui-extension.ts inside one interactive Pi, on top  *)
(* of the store: linking and unlinking, opt-in across reloads, the poll    *)
(* tick that claims remote commands and acts on them, its reports, and the *)
(* state pushes.  The broker is an environment that enqueues commands.     *)
(*                                                                         *)
(* #connectFresh draws a random tracking id and a random connection id; a  *)
(* Link is such a pair, used for one opt-in.  Handlers run to completion   *)
(* on the one JavaScript thread, so nothing of this process interleaves    *)
(* with a poll tick; the broker's transactions, the staleness of the row   *)
(* and the end of the process do, between any two of its transactions.     *)
(***************************************************************************)
EXTENDS Naturals, Sequences, FiniteSets

CONSTANTS Link, NoLink,
          Command,
          Kind,       \* the kinds of command the broker sends
          MaxClaims,  \* MAX_COMMANDS_PER_POLL
          MaxEvents,  \* bound: events ever appended
          MaxFaults   \* bound: calls of the store or of Pi that throw

(* "slash" is a prompt, steer or follow-up whose text the extension refuses: *)
(* empty, or beginning with "/".  "steer" stands for steer and followup,     *)
(* which differ in deliverAs only.                                           *)
KindAssumption ==
    Kind \subseteq {"prompt", "slash", "steer", "abort", "status", "disconnect"}

ASSUME KindAssumption
ASSUME NoLinkAssumption == NoLink \notin Link
ASSUME BoundsAssumption ==
    MaxClaims \in Nat \ {0} /\ MaxEvents \in Nat /\ MaxFaults \in Nat

VARIABLES
    sessions, events, queue, commands, claims, dead,   \* the store
    conn,         \* #connection: the link in use, or NoLink
    optIn,        \* the globalThis flag: the link opted in, or NoLink
    agentActive, uiPrompt,   \* flags of #connection
    pi,           \* external: the agent behind ctx.isIdle() and ctx.abort()
    phase,        \* where the poll tick stands; "idle": no tick is running
    polling,      \* the connection the tick was started for
    batch,        \* claimed by this tick, not yet handled
    verdict,      \* the ok argument of the report under way
    kind,         \* the kind of each enqueued command
    executed,     \* history: commands that made Pi do something
    announced,    \* history: commands whose command_result was appended
    faults        \* calls that threw so far

States == {"connected", "busy", "waiting"}

Store == INSTANCE TuiStore WITH
    Tracking <- Link, Connection <- Link, NoConnection <- NoLink,
    ShortId <- Link, NoShortId <- NoLink, SessionState <- States

storeVars == <<sessions, events, queue, commands, claims, dead>>
connVars == <<conn, optIn, agentActive, uiPrompt>>
tickVars == <<phase, polling, batch, verdict>>
history == <<kind, executed, announced>>
vars == <<sessions, events, queue, commands, claims, dead, conn, optIn,
          agentActive, uiPrompt, pi, phase, polling, batch, verdict, kind,
          executed, announced, faults>>

Idle == phase = "idle"
Connected == conn # NoLink
Used == {events[i].by : i \in DOMAIN events}

(* Every command known and not yet announced may still cost an event (a       *)
(* status two), and so may the end of the link: room for those is kept, so    *)
(* that the bound MaxEvents never blocks the extension.                       *)
Unannounced(kinds) ==
    Cardinality({k \in Command : kind[k] \in kinds /\ k \notin announced})
Owed == Unannounced(Kind) + Unannounced({"status"})
Room(n) == Len(events) + Owed + n < MaxEvents

(* A call that throws (the store with SQLITE_BUSY or an I/O error, Pi with a   *)
(* stale context) changes no row.                                             *)
Throws ==
    /\ faults < MaxFaults
    /\ faults' = faults + 1
    /\ UNCHANGED storeVars
-----------------------------------------------------------------------------
(* Linking *)

(* /tg and /telegram-connect through #connectFresh.                           *)
LocalConnect(l) ==
    /\ Idle /\ ~Connected
    /\ l \notin Used /\ Room(1)
    /\ Store!RegisterInsert(l, l, l)
    /\ conn' = l /\ optIn' = l
    /\ agentActive' = FALSE /\ uiPrompt' = FALSE
    /\ UNCHANGED <<pi, tickVars, history, faults>>

(* Plausible bug: teardown without the disconnect, as for a lost connection.  *)
ReleaseLocally ==
    /\ Connected
    /\ conn' = NoLink
    /\ agentActive' = FALSE /\ uiPrompt' = FALSE
    /\ UNCHANGED <<storeVars, faults>>

(* #disposeConnection({ disconnectRemote: true }); a throwing disconnect is   *)
(* swallowed and leaves the row to age out.                                   *)
Dispose ==
    /\ Connected
    /\ conn' = NoLink
    /\ agentActive' = FALSE /\ uiPrompt' = FALSE
    /\ \/ Store!Disconnect(conn, conn) /\ UNCHANGED faults
       \/ Throws

(* /tg off and /telegram-disconnect.                                          *)
LocalUnlink ==
    /\ Idle
    /\ Dispose
    /\ optIn' = NoLink
    /\ UNCHANGED <<pi, tickVars, history>>

(* session_shutdown for reload, new, resume or fork: the opt-in stays.        *)
SessionReplaced ==
    /\ Idle
    /\ Dispose
    /\ UNCHANGED <<optIn, pi, tickVars, history>>

(* session_shutdown for quit.                                                 *)
Quit ==
    /\ Idle
    /\ optIn # NoLink
    /\ \/ Dispose
       \/ /\ ~Connected
          /\ UNCHANGED <<storeVars, conn, agentActive, uiPrompt, faults>>
    /\ optIn' = NoLink
    /\ UNCHANGED <<pi, tickVars, history>>

(* session_start through #reconnectFromOptIn: the row was released, or, if    *)
(* its release failed, is still this connection's.  (A throw changes nothing *)
(* and the opt-in stays.)                                                     *)
SessionStart ==
    /\ Idle /\ ~Connected
    /\ optIn # NoLink
    /\ \/ Room(1) /\ Store!RegisterInsert(optIn, optIn, optIn)
       \/ Store!RegisterRefresh(optIn, optIn)
    /\ conn' = optIn
    /\ agentActive' = FALSE /\ uiPrompt' = FALSE
    /\ UNCHANGED <<optIn, pi, tickVars, history, faults>>

(* The OS process is gone, at any point of a tick; memory and the opt-in with *)
(* it.  What follows is a new process, which starts detached.                 *)
ProcessEnds ==
    /\ Used \ dead # {}
    /\ Store!ProcessDies(Used \ dead)
    /\ conn' = NoLink /\ optIn' = NoLink
    /\ agentActive' = FALSE /\ uiPrompt' = FALSE
    /\ pi' = "idle"
    /\ phase' = "idle" /\ polling' = NoLink /\ batch' = <<>> /\ verdict' = FALSE
    /\ UNCHANGED <<history, faults>>
-----------------------------------------------------------------------------
(* Events of Pi *)

(* #derivedState                                                              *)
Derived(agent, prompt) ==
    IF prompt THEN "waiting" ELSE IF agent THEN "busy" ELSE "connected"

(* Plausible bug: a dialog opening or closing is not pushed.                  *)
PushAgentOnly(agent, prompt) ==
    IF Connected
    THEN /\ agentActive' = agent /\ uiPrompt' = prompt
         /\ IF agent # agentActive
            THEN Store!SetState(conn, conn, Derived(agent, prompt))
            ELSE UNCHANGED storeVars
         /\ UNCHANGED faults
    ELSE UNCHANGED <<storeVars, agentActive, uiPrompt, faults>>

(* The flags of #connection and #pushState, whose failures are swallowed.     *)
Push(agent, prompt) ==
    IF Connected
    THEN /\ agentActive' = agent /\ uiPrompt' = prompt
         /\ \/ Store!SetState(conn, conn, Derived(agent, prompt))
               /\ UNCHANGED faults
            \/ Throws
    ELSE UNCHANGED <<storeVars, agentActive, uiPrompt, faults>>

AgentStart ==
    /\ Idle
    /\ pi # "running" /\ pi' = "running"
    /\ Push(TRUE, uiPrompt)
    /\ UNCHANGED <<conn, optIn, tickVars, history>>

AgentSettled ==
    /\ Idle
    /\ pi = "running" /\ pi' = "idle"
    /\ Push(FALSE, uiPrompt)
    /\ UNCHANGED <<conn, optIn, tickVars, history>>

(* ui_prompt_start (open) and ui_prompt_end (~open).                          *)
UiPrompt(open) ==
    /\ Idle /\ Connected
    /\ uiPrompt # open
    /\ Push(agentActive, open)
    /\ UNCHANGED <<conn, optIn, pi, tickVars, history>>

(* message_end of the assistant with final text.                              *)
Output ==
    /\ Idle /\ Connected /\ Room(1)
    /\ Store!AppendEvent(conn, conn)
    /\ UNCHANGED <<connVars, pi, tickVars, history, faults>>

Heartbeat ==
    /\ Idle /\ Connected
    /\ Store!Heartbeat(conn, conn)
    /\ UNCHANGED <<connVars, pi, tickVars, history, faults>>
-----------------------------------------------------------------------------
(* The poll tick: claiming *)

PollClaim ==
    /\ phase \in {"idle", "claiming"} /\ Connected
    /\ Len(batch) < MaxClaims
    /\ Store!ClaimNextCommand(conn, conn)
    /\ phase' = "claiming" /\ polling' = conn
    /\ batch' = Append(batch, claims'[Len(claims')])
    /\ UNCHANGED <<connVars, pi, verdict, history, faults>>

NothingPending == \A k \in Command : \A i \in DOMAIN queue[conn] :
                     queue[conn][i] = k => commands[k].state # "pending"

(* Plausible bug: the tick waits until its batch is full.                     *)
WaitForFullBatch ==
    /\ phase = "claiming"
    /\ Len(batch) = MaxClaims
    /\ phase' = "handling"
    /\ UNCHANGED <<storeVars, connVars, pi, polling, batch, verdict, history,
                   faults>>

(* The batch is full, or claimNextTuiCommand answered empty.                  *)
PollDone ==
    /\ phase = "claiming"
    /\ Len(batch) = MaxClaims \/ NothingPending
    /\ phase' = "handling"
    /\ UNCHANGED <<storeVars, connVars, pi, polling, batch, verdict, history,
                   faults>>

(* Plausible bug: the claimed commands of a finished tick are kept.           *)
EndTickKeepingBatch ==
    phase' = "idle" /\ polling' = NoLink /\ batch' = batch /\ verdict' = FALSE

EndTick == phase' = "idle" /\ polling' = NoLink /\ batch' = <<>> /\ verdict' = FALSE

(* A claim throws after others committed: poll() throws, the tick is skipped  *)
(* and what it had claimed is forgotten.                                      *)
PollThrows ==
    /\ phase = "claiming"
    /\ Throws
    /\ EndTick
    /\ UNCHANGED <<connVars, pi, history>>

(* On to the next command of the batch.                                       *)
Proceed ==
    IF Len(batch) = 1
    THEN EndTick
    ELSE /\ phase' = "handling" /\ batch' = Tail(batch) /\ verdict' = FALSE
         /\ UNCHANGED polling
-----------------------------------------------------------------------------
(* The poll tick: #handleRemoteCommand for the head of the batch *)

(* Plausible bug: the claim is trusted, ownership is not looked at again.     *)
TrustTheClaim == TRUE

(* #revalidate.  The row of a link is removed by that link only, so the       *)
(* getSession test cannot fail otherwise than by throwing.                    *)
Revalidated == conn = polling /\ optIn # NoLink

(* Plausible bug: the newest of the batch is handled first.                   *)
LatestOfBatch == batch[Len(batch)]

Current == Head(batch)

Handling == phase = "handling"

(* The connection was dropped mid-batch: its store handle is closed, so the   *)
(* report throws and is swallowed.                                            *)
HandleDetached ==
    /\ Handling /\ ~Revalidated
    /\ Proceed
    /\ UNCHANGED <<storeVars, connVars, pi, history, faults>>

ReportNext(ok) == phase' = "settling" /\ verdict' = ok
                    /\ UNCHANGED <<polling, batch>>

(* getSession throws: refused, 'not_connected'.                               *)
HandleUnverified ==
    /\ Handling /\ Revalidated
    /\ Throws
    /\ ReportNext(FALSE)
    /\ UNCHANGED <<connVars, pi, history>>

(* What isIdle() may answer: between a message delivered to an idle Pi and    *)
(* its agent_start Pi does not say which.                                     *)
IsIdle == CASE pi = "idle" -> {TRUE}
            [] pi = "starting" -> BOOLEAN
            [] OTHER -> {FALSE}

(* sendUserMessage: an idle Pi will start an agent run, a running one queues. *)
DeliverText ==
    /\ Handling /\ Revalidated
    /\ kind[Current] \in {"prompt", "steer"}
    /\ \E idle \in IsIdle :
          /\ kind[Current] = "prompt" => idle
          /\ pi' = IF pi = "idle" THEN "starting" ELSE pi
    /\ executed' = Append(executed, Current)
    /\ ReportNext(TRUE)
    /\ UNCHANGED <<storeVars, connVars, kind, announced, faults>>

(* Plausible bug: the message is queued in a running Pi, then 'not_idle'.     *)
RefuseAfterSending ==
    /\ Handling /\ Revalidated
    /\ kind[Current] = "prompt" /\ FALSE \in IsIdle
    /\ executed' = Append(executed, Current)
    /\ ReportNext(FALSE)
    /\ UNCHANGED <<storeVars, connVars, pi, kind, announced, faults>>

(* 'rejected_slash_prefix', 'invalid_text', or a prompt for a Pi that is not   *)
(* idle: 'not_idle'.                                                          *)
Refuse ==
    /\ Handling /\ Revalidated
    /\ \/ kind[Current] = "slash"
       \/ kind[Current] = "prompt" /\ FALSE \in IsIdle
    /\ ReportNext(FALSE)
    /\ UNCHANGED <<storeVars, connVars, pi, history, faults>>

(* sendUserMessage or abort throws: 'send_failed', 'no_live_context'.         *)
PiThrows ==
    /\ Handling /\ Revalidated
    /\ kind[Current] \in {"prompt", "steer", "abort"}
    /\ Throws
    /\ ReportNext(FALSE)
    /\ UNCHANGED <<connVars, pi, history>>

(* ctx.abort(); the run settles later, or was not there.                      *)
Abort ==
    /\ Handling /\ Revalidated
    /\ kind[Current] = "abort"
    /\ executed' = Append(executed, Current)
    /\ ReportNext(TRUE)
    /\ UNCHANGED <<storeVars, connVars, pi, kind, announced, faults>>

(* A status is an event like the output.                                      *)
PublishStatus ==
    /\ Handling /\ Revalidated
    /\ kind[Current] = "status"
    /\ \/ Store!AppendEvent(conn, conn) /\ ReportNext(TRUE) /\ UNCHANGED faults
       \/ Throws /\ ReportNext(FALSE)
    /\ UNCHANGED <<connVars, pi, history>>

(* disconnect: report while the connection can still write, then tear down.   *)
AcceptDisconnect ==
    /\ Handling /\ Revalidated
    /\ kind[Current] = "disconnect"
    /\ ReportNext(TRUE)
    /\ UNCHANGED <<storeVars, connVars, pi, history, faults>>

(* A disconnect tears down whether or not its report got through; one whose   *)
(* revalidation threw was refused and does not.                               *)
AfterReport == IF kind[Current] = "disconnect" /\ verdict
               THEN phase' = "unlinking" /\ UNCHANGED <<polling, batch, verdict>>
               ELSE Proceed

(* Plausible bug: a disconnect is torn down before its result is announced.   *)
SettleThenTearDown ==
    /\ phase = "settling"
    /\ IF verdict THEN Store!CompleteCommand(Current, polling)
                  ELSE Store!FailCommand(Current, polling)
    /\ phase' = IF kind[Current] = "disconnect" /\ verdict THEN "unlinking"
                                                           ELSE "announcing"
    /\ UNCHANGED <<connVars, pi, polling, batch, verdict, history, faults>>

(* reportCommandResult, first transaction: settle the command.                *)
ReportSettle ==
    /\ phase = "settling"
    /\ IF verdict THEN Store!CompleteCommand(Current, polling)
                  ELSE Store!FailCommand(Current, polling)
    /\ phase' = "announcing"
    /\ UNCHANGED <<connVars, pi, polling, batch, verdict, history, faults>>

(* Second transaction: append the command_result event.                       *)
ReportAnnounce ==
    /\ phase = "announcing"
    /\ Store!AppendEvent(polling, polling)
    /\ announced' = announced \cup {Current}
    /\ AfterReport
    /\ UNCHANGED <<connVars, pi, kind, executed, faults>>

(* Either transaction throws: the report is lost from there on.               *)
ReportThrows ==
    /\ phase \in {"settling", "announcing"}
    /\ Throws
    /\ AfterReport
    /\ UNCHANGED <<connVars, pi, history>>

(* Plausible bug: the remote disconnect forgets #clearOptIn.                  *)
RemoteUnlinkKeepingOptIn ==
    /\ phase = "unlinking"
    /\ Dispose
    /\ Proceed
    /\ UNCHANGED <<optIn, pi, history>>

(* #unlinkConnected for a remote disconnect.                                  *)
RemoteUnlink ==
    /\ phase = "unlinking"
    /\ Dispose
    /\ optIn' = NoLink
    /\ Proceed
    /\ UNCHANGED <<pi, history>>
-----------------------------------------------------------------------------
(* Outside the process *)

BrokerEnqueues(k, l, what) ==
    /\ kind[k] = "none"
    /\ Room(IF what = "status" THEN 2 ELSE 1)
    /\ Store!EnqueueCommand(l, k)
    /\ kind' = [kind EXCEPT ![k] = what]
    /\ UNCHANGED <<connVars, pi, tickVars, executed, announced, faults>>

RowGoesStale(l) ==
    /\ Store!GoStale(l)
    /\ UNCHANGED <<connVars, pi, tickVars, history, faults>>

Init ==
    /\ Store!Init
    /\ conn = NoLink /\ optIn = NoLink
    /\ agentActive = FALSE /\ uiPrompt = FALSE
    /\ pi = "idle"
    /\ phase = "idle" /\ polling = NoLink /\ batch = <<>> /\ verdict = FALSE
    /\ kind = [k \in Command |-> "none"]
    /\ executed = <<>> /\ announced = {}
    /\ faults = 0

Tick ==
    \/ PollClaim \/ PollDone
    \/ HandleDetached \/ DeliverText \/ Refuse
    \/ Abort \/ PublishStatus \/ AcceptDisconnect
    \/ ReportSettle \/ ReportAnnounce \/ RemoteUnlink

TickThrows == PollThrows \/ HandleUnverified \/ PiThrows \/ ReportThrows

Next ==
    \/ \E l \in Link : LocalConnect(l)
    \/ LocalUnlink \/ SessionReplaced \/ Quit \/ SessionStart \/ ProcessEnds
    \/ AgentStart \/ AgentSettled \/ \E open \in BOOLEAN : UiPrompt(open)
    \/ Output \/ Heartbeat
    \/ Tick \/ TickThrows
    \/ \E k \in Command, l \in Link, what \in Kind : BrokerEnqueues(k, l, what)
    \/ \E l \in Link : RowGoesStale(l)

Spec == Init /\ [][Next]_vars

(* The poll timer keeps firing while the connection stands, and a tick, once  *)
(* entered, runs to its end unless the process dies.  Nothing has to throw.   *)
FairSpec == Spec /\ WF_vars(Tick)
-----------------------------------------------------------------------------
(* Properties *)

TypeOK ==
    /\ Store!TypeOK
    /\ {conn, optIn, polling} \subseteq Link \cup {NoLink}
    /\ {agentActive, uiPrompt, verdict} \subseteq BOOLEAN
    /\ pi \in {"idle", "starting", "running"}
    /\ phase \in {"idle", "claiming", "handling", "settling", "announcing",
                  "unlinking"}
    /\ batch \in Seq(Command) /\ Len(batch) <= MaxClaims
    /\ (phase = "idle") = (batch = <<>>)
    /\ kind \in [Command -> Kind \cup {"none"}]
    /\ executed \in Seq(Command) /\ announced \subseteq Command
    /\ faults \in 0..MaxFaults

SentTo(k, l) == \E i \in DOMAIN queue[l] : queue[l][i] = k

(* Pi acts on the commands of a link in the order the broker enqueued them,   *)
(* on each at most once, whatever batches, lost polls, reloads and restarts   *)
(* lie in between.                                                            *)
ExecutedInOrder ==
    \A a, b \in DOMAIN executed : a < b =>
        /\ executed[a] # executed[b]
        /\ \A l \in Link : \A i, j \in DOMAIN queue[l] :
              queue[l][i] = executed[a] /\ queue[l][j] = executed[b] => i < j

(* What the phone is told is true: a message or abort reported as done did     *)
(* reach Pi, and one reported as failed did not.                              *)
ReportTruthful ==
    \A k \in Command : kind[k] \in {"prompt", "slash", "steer", "abort"} =>
        LET reached == \E i \in DOMAIN executed : executed[i] = k
        IN  /\ commands[k].state = "completed" => reached
            /\ commands[k].state = "failed" => ~reached

(* The two transactions of a report stay together but for the end of the       *)
(* process or a throwing store: no command is settled behind the phone's back,*)
(* the disconnect that removes the very row included.                         *)
SettledIsAnnounced ==
    \A k \in Command :
        /\ commands[k].state \in {"completed", "failed"} /\ k \notin announced
        /\ faults = 0 /\ commands[k].owner \notin dead
        => phase = "announcing" /\ Current = k

(* Opt-in only: while its process lives, a row in the table is the one link    *)
(* this user opted in to, unless a disconnect threw and it is ageing out.     *)
RowNeedsOptIn ==
    faults = 0 =>
        \A l \in Link : Store!HasRow(l) /\ l \notin dead => l = optIn

(* A disconnect the phone was told of is final: neither the tick that did it   *)
(* nor any later reload brings the link back.                                 *)
UnlinkedForGood ==
    \A k \in announced, l \in Link :
        /\ kind[k] = "disconnect" /\ commands[k].state = "completed"
        /\ SentTo(k, l)
        /\ phase # "unlinking"
        => conn # l /\ optIn # l

(* The state column, from which the broker decides between a prompt and a      *)
(* busy card, is what the flags of the connection derive, after reconnects    *)
(* too, unless a push threw.                                                  *)
RowMirrorsConnection ==
    Connected /\ faults = 0 =>
        sessions[conn].state = Derived(agentActive, uiPrompt)

(* Remote input reaches Pi only through the link that claimed it, while that   *)
(* link is opted in, connected and owns its row: an earlier command of the    *)
(* same batch that unlinked keeps the rest of the batch out.                  *)
OptedInExecution ==
    [][executed' # executed =>
          conn = polling /\ optIn = polling /\ Store!Owns(conn, polling)]_vars

(* While its link stands and no store call throws, every command enqueued for  *)
(* it is claimed, acted on or refused, and announced.                         *)
ConnectedIsServed ==
    \A k \in Command, l \in Link :
        SentTo(k, l) /\ conn = l ~>
            k \in announced \/ conn # l \/ faults > 0

(* Per the header and #handleRemoteCommand, "Exactly-one terminal report per   *)
(* claimed command, whatever happens": in a process that lives on, with a     *)
(* store that never throws, a claimed command is settled in the end.          *)
ClaimedIsReported ==
    \A k \in Command :
        commands[k].state = "claimed" ~>
            commands[k].state # "claimed" \/ commands[k].owner \in dead

(* The guide maps "Stop the task and use my message" to "abort, then dispatch  *)
(* held prompt to the idle session": a prompt enqueued right behind an abort  *)
(* is not refused.                                                            *)
StopThenPromptDelivered ==
    \A l \in Link : \A i \in DOMAIN queue[l] :
        i > 1 /\ kind[queue[l][i]] = "prompt" /\ kind[queue[l][i - 1]] = "abort"
            => commands[queue[l][i]].state # "failed"

(* Every step of the extension and its environment is a step of the store      *)
(* under its most general client: what TuiStore guarantees holds here.        *)
StoreSpec == Store!Spec
=============================================================================
