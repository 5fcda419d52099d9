# Verification of pi-telegram-bridge

TLA+ models of the bridge that lets one Telegram user talk to interactive Pi
sessions. Each component is model-checked with TLC on small instances; its safety
properties are proved with TLAPS for every value of the constants. Paths below are relative to the repository.

## The system

The repository holds two runtimes over one SQLite file, `src/store.mjs`.

**Selective runtime (the default).** A person types `/tg` in a Pi session; the
extension registers the session; a broker process forwards between it and Telegram.

    Telegram <--> SelectiveTelegramBroker <--> Store (SQLite) <--> TuiBridgeClient, TUI extension, Pi
                  one broker process           transactions        one per Pi process

| component | state it keeps | operations |
|---|---|---|
| TUI tables of `store.mjs` | `tui_sessions`, `tui_events`, `tui_commands` | register, heartbeat, set state, disconnect, append event, enqueue, claim, complete, fail, expire claims; each one `BEGIN IMMEDIATE` transaction |
| `selective-tui-extension.ts`, `tui-bridge-client.mjs` | the connection, the opt-in in `globalThis`, the flags agentActive and uiPrompt | link, unlink, reconnect after a reload, poll tick, remote command, report, state push, heartbeat |
| `selective-telegram-broker.mjs`, inbound | store: inbox, offset; memory: selection, held prompt, reply queue | poll, handle update (one transaction), plan text, commands and taps |
| the same, outbound | store: acknowledgements; memory: limiter, chunk in hand | flush replies, drain events, send chunks, retry |
| `runtime-broker.mjs`, `scripts/telegram.ps1` | `broker-meta.json`, `broker-control.json`, the scheduled task | launch, boot, heartbeat, control tick, end; switch on, switch off |

The two sides never call each other. Broker and extensions share tables; any
transaction of one may fall between any two of the other. The extension handles
claimed commands on Pi's one JavaScript thread.

**Legacy runtime.** A host process owns one Pi child and asks the human through the
phone; a worker process does the talking.

    Telegram <--> TelegramWorker <--> Store: inbox, outbox, actions, requests <--> SessionHost <--> PiAdapter, Pi
                  worker process             host_lease, worker_lease               host process     child

| component | state it keeps | operations |
|---|---|---|
| `session-host.mjs`, `pi-adapter.mjs` | store: requests, actions, host generation; memory: pending dialogs, tools in flight, demo lifecycles | records of Pi (tool start and end, dialog, notify, settled, exit); tick: expire, then claim and handle actions; shutdown |
| `telegram-worker.mjs` | store: inbox, offset, outbox | poll, handle update (one transaction: reply, queue actions), render approvals and notes, drain, mark |
| `runtime-host.mjs`, `runtime-worker.mjs`, the leases | leases, `control.json`, the worker handle | acquire, refuse, spawn, tick, control command, shutdown, crash |

Host and worker never call each other: the worker writes actions, which the host
claims at its next tick; the host writes approval and notification rows, which the
worker renders when it drains. Pi talks to its host by JSON lines over stdio.

Hard behaviours: connections that are replaced, reload or die between two
transactions; redelivered updates; keyboards that outlive the broker that sent them;
memory that does not roll back with its transaction; uncertain sends; a limiter
that interrupts a message; claims that outlive their claimant. `PROJECT.json` lists
them as hazards at their lines.

What makes each part correct:
* *store*: who publishes and claims for a session is who the event stream says holds it; commands leave in order, at most once, with one final outcome;
* *extension*: commands take effect in order, at most once, only while opted in, and what is reported is what happened; an unlink is final;
* *broker, inbound*: every update is handled, none twice; a held text is sent by its own card, once;
* *broker, outbound*: events arrive in order, whole, and in the end;
* *session host*: a question is decided at most once, by the host that asked it; Pi is told what was recorded; every dialog of Pi gets an answer;
* *worker*: no keyboard without its whole text; a question reaches the phone or visibly fails;
* *leases*: one host and one worker;
* *broker process*: a broker that is up is seen by the switch, which then asks it to stop before it disables the task.

## Modules

| module | models | composed from |
|---|---|---|
| `CommandMailbox` | abstract: what the transport promises about commands | |
| `TuiStore` | the three TUI tables of `store.mjs` under any client | implements `CommandMailbox` (`MailboxSpec`) |
| `TuiStore_proofs` | theorems about `TuiStore` | extends `TuiStore`, `TLAPS` |
| `TuiExtension` | the extension and its client inside one Pi, with process deaths | instantiates `TuiStore`; its broker is an environment that enqueues |
| `TuiExtension_proofs` | theorems about `TuiExtension` | extends it and `TLAPS`, instantiates `TuiStore_proofs` |
| `SelectiveBroker` | the broker from Telegram updates to commands | the tables appear as the rows it reads and the commands it writes |
| `SelectiveBroker_proofs` | theorems about `SelectiveBroker` | extends it and `TLAPS` |
| `BrokerDelivery` | the broker from replies and events to the chat | |
| `BrokerDelivery_proofs` | theorems about `BrokerDelivery` | extends it and `TLAPS` |
| `RequestLifecycle` | abstract: what the bridge promises about one question | |
| `SessionHost` | the host, its tables, Pi as it meets the host, the actions of the phone | implements `RequestLifecycle` (`RequestPromise`) |
| `SessionHost_proofs` | theorems about `SessionHost` | extends it and `TLAPS` |
| `TelegramWorker` | the worker over inbox and outbox; the host as the rows it writes | |
| `TelegramWorker_proofs` | theorems about `TelegramWorker` | extends it and `TLAPS` |
| `HostSupervision` | host and worker processes, leases, control file | its `Tick` is the supervisor's part of the tick of `SessionHost` |
| `HostSupervision_proofs` | theorems about `HostSupervision` | extends it and `TLAPS` |
| `BrokerProcess` | broker processes, status and control file, the switch over the task | what a broker does while up is `SelectiveBroker` and `BrokerDelivery` |
| `BrokerProcess_proofs` | theorems about `BrokerProcess` | extends it and `TLAPS` |
| `MC*` | the instances of the runs | |

Operators named *plausible bug* are variants of the definition that follows them.
No specification uses them; each shows that some property would notice that bug.

### TuiStore
One action is one transaction; a transaction that answers `{ok: false}` changes no
row and is a stuttering step. `sessions[t]` is the row of a tracking id, `events` the
event table in id order, `queue[t]` the command rows of a session in insertion order,
`claims` the order of `claimed_at`. Time is the bit `fresh` (heartbeat inside the
staleness window) and `dead` (the pid is gone). `FailStaleClaims(n)` expires the n
oldest claims, which is what any cutoff does.

### TuiExtension
A `Link` is one drawn pair of tracking and connection ids. Handlers run to completion
on the JavaScript thread, so events of Pi require `phase = "idle"`. A poll tick is
split where other processes can get in, at its transactions: `PollClaim` (one per
claimed command), `PollDone`, one handling action per command of the batch,
`ReportSettle`, `ReportAnnounce`, `RemoteUnlink`. `ProcessEnds` may come between any
two. `faults` counts calls of the store or of Pi that throw. `pi` is the agent as
`ctx.isIdle()` shows it: `starting` is the moment between a delivered message and
`agent_start`, in which either answer is possible. The local dialogs (confirm
unlink) are modal; the confirmation is the action. A heartbeat answered `not_owner`
drops the connection in the code; a row is only ever taken from a stale or dead
connection by a *different* one with the same tracking id, and tracking ids are
drawn at random by one process, so the composition never takes that branch.

### SelectiveBroker
`Plan(id)` is what an update asks for given rows and memory: commands, replies,
selection, held prompt. `HandleUpdate` is the transaction of `handleUpdate`; the
memory changes with it but is not rolled back when it fails (`HandleThrows`), nor
when a message plan fails inside it (`MessageSwallowed`). A handler that throws may
have got to any point: a reply is queued only once the selection and a new held
message are in memory, as in the code. Texts are the ids of the
updates that brought them; buttons carry the short id and generation they were made
with, and every button shown stays tappable. `Plans` adds the silent refusal of the
inbound limiter. Rows change at any time.

### BrokerDelivery
The run loop: poll, flush, drain. One action per limiter decision, attempt and
acknowledgement. A failed attempt may have arrived. `hits` counts the sends of the
last so many long polls.

### SessionHost
`requests` is the table in order of creation, `queue` the pending actions, `dialogs`,
`inFlight` and `demo` the memory of the host. The handler of one record of Pi is one
action, as the code has no await in it that matters: `ToolStart`, `OpenDialog` (with
`RefuseDialog`, `BusyDialog`, `AmbiguousDialog` for the early returns), `ToolEnd`,
`DemoNotify`, `Settle`, `PiExits`. `Tick` is one step of `tick()`: `Sweep` expires
what is overdue and late, `Handle` takes one action of the queue; an action is
handled only when nothing is left to sweep, the order inside the code's tick. `Tap`,
`CancelCommand` and `FollowupCommand` are the transactions of the worker that queue
an action. `HostStart` draws the next generation, `HostCrash` loses the memory,
`ShutdownBegin` and `ShutdownEnd` are the orderly end. `asker` and `answer` are on
Pi's side: what each question tool, gated tool and the demo waits for, and what it
was told.

Of Pi the model assumes only what the host's code does. Tools run in parallel, with
each other and with the demo: `ToolStart` needs nothing but a call that is not running
and that the host does not take to be running (`session-host.mjs:235` and its test
have two at once). A tool may end in error with its dialog open, its end may be lost, a
run may settle (`Settle`) with dialogs open, and Pi may exit. The demo's prompt may
time out at any moment of its life, before its dialog opens too: its time runs from the
prompt, that of a request from its dialog. A gated tool that was not approved is
blocked, and its end is an error (the gate of `bridge-extension.ts`).

`letGo` is a history variable, which no guard reads: the askers whose dialog the end of
a question tool took off the map while they were waiting on it (`Stranded`). It names
the exception that two properties make; see *Dialogs* below.

### TelegramWorker
`pc` is the place in the loop of `run()`; `Render` and `RenderRow` queue the rows of
one approval, one transaction each; `Send` is the call of the Bot API with four
outcomes (it arrives or not, and that is known or not), `Mark` the transaction after
it. `MaySend` is the guard of a keyboard: every context message of
its batch is delivered. `Crash` may fall between any two steps. Updates are planned
as the rows they reply; the actions they queue are in `SessionHost`.

### HostSupervision
Hosts and workers are pids. `Tick` is `#processControl` and `#superviseWorker`;
`SpawnBegins` and `SpawnEnds` are apart because credentials are awaited between
them, and `ref` shows what the supervisor believes of its worker. Leases are taken
over only from a dead process; both are released by their common name.

### BrokerProcess
Brokers are pids, `enabled` is the bit of the task. The switch is split where it
waits: `TurnOff` writes the request, `OffIsConfirmed` or `OffTimesOut` end the wait
and disable the task or leave it. `control` remembers for whom a request was written,
which the code does not.

## Runs

All bounds are constants; each guard that uses one is a condition on a counter of
the model. `CHECK_DEADLOCK FALSE` everywhere: the environment (user, other processes,
Pi) may stop, and bounds end every behaviour.

| run | instance | what it shows |
|---|---|---|
| `tui_store` | 2 connections, 4 events | no interleaving of transactions, staleness and process death breaks stream, order, single claim, short ids; refinement of `CommandMailbox`. Three events are a connect, a takeover and a late publish by the loser; four allow a return. |
| `tui_extension` | 1 link, 2 commands of any kind, 1 throwing call | order, truthful reports, state pushes, service. Two commands make every pair in one batch and in two. |
| `tui_extension_relink` | 2 links, 2 commands | a disconnect and a prompt in one batch, with reload and relink after it |
| `tui_extension_report` | 1 link, disconnect and prompt | **violated**: a command claimed behind a disconnect stays claimed |
| `tui_extension_stop` | 1 link, abort and prompt | **violated**: the prompt behind an abort is refused `not_idle` |
| `selective_broker` | 1 session, all typings and buttons, 2 updates, 1 restart or failure | updates are not skipped and all handled |
| `selective_broker_held` | 2 sessions, texts and the buttons of held messages, 3 updates, 1 restart or failure | the held message; three updates are hold, replace, and a tap on either card |
| `selective_broker_offset` | 2 updates, 1 failure | **violated**: a failing update is skipped when the next one advances the offset |
| `broker_delivery` | 2 events, 1 reply, 2 chunks, 1 trouble, 2 attempts | order, completeness, progress under the limiter |
| `session_host` | 1 question tool, 1 gated tool, the demo, all in parallel, 2 requests, 1 action pending, 2 hosts, 2 choices | 311,452 states: refinement of `RequestLifecycle`, true answers, completion on evidence, no dialog without an end, prompts never between a question and its answer. Two requests make a question that is asked again, or a gate beside a question or the demo; two hosts a restart with a decision under way. |
| `telegram_worker` | 1 request of 2 context messages, 2 attempts, 1 update, 1 crash | 167,023 states: keyboards only after their text, and a question is shown or fails. Two messages are the first that can arrive in part. With 2 updates: 3,055,348 states, no error. |
| `worker_lease` | 2 hosts, 3 workers | **violated**: two workers poll |

Bounds of `SessionHost` beside its constants: a tool starts only while a request is
left for it to make (`RequestLeft`); a failed start of a host is modelled between two
hosts, as before the first only the number of the generation would differ; the phone
and the clock stop when the last host no longer ticks (`Continues`), as nothing that
follows changes a row. Fewer requests or hosts take away a case each: with one request
no dialog meets another's request, with one host no generation is compared.

Symmetry is used over links and commands, and over sessions, only in runs without
leads-to properties.

### Fairness
* `TuiExtension!FairSpec`: weak fairness of `Tick`, the steps of a poll tick that do not
  throw. `setInterval` keeps firing while the connection stands, and a tick is
  synchronous code. Throwing (`TickThrows`) is possible but never forced. Nothing is
  assumed of Pi, of the broker or of the user.
* `SelectiveBroker!FairSpec`: weak fairness of the loop of `run()`. Restarts are
  bounded: a broker that always dies handles nothing.
* `BrokerDelivery!FairSpec`: the same loop. A long poll returns after 25 s at the
  latest (`longPollTimeoutSec`), which is what ages the limiter. Progress of a
  two-chunk message needs more sends per window than the cycles inside a window can
  waste, two per cycle: 10 against 3 cycles in the code, 5 against 2 in the run. With
  2 or 3 sends in the instance TLC finds no end to the first chunks being sent again,
  so the margin matters.
* `SessionHost!Spec`: weak fairness of `Tick` (the interval timer of a host that is
  up) and of `Time`: while something can become overdue or late, something does. Nothing
  is assumed of Pi or the phone, and nothing starts a host; the liveness properties
  hold of a host that stays up.
* `TelegramWorker!Spec`: weak fairness of `Works`, the loop of `run()`, and strong
  fairness of `Send`: the outbound limiter denies at times (`Throttled`) and not for
  ever, because its window slides on. No fairness of `Start`: nobody restarts a
  worker that ended (see below).

### What the violated runs say
1. `ClaimedIsReported`: "Exactly-one terminal report per claimed command, whatever
   happens" does not hold. Commands claimed in the batch of a disconnect, or before a
   poll that throws, stay `claimed`; `recoverStaleCommands` would expire them but has
   no caller in the running system.
2. `StopThenPromptDelivered`: "Stop the task and use my message" sends abort and prompt
   at once; both are handled in one tick, the agent has not settled, and the prompt
   fails with `not_idle` after the held text was cleared.
3. `OffsetBehindInbox`: "the offset never advances past unhandled work" holds for one
   update, not for a batch.
4. `OneWorker`: "worker lease is singleton" does not hold. A worker that was refused
   the lease, or was stopped before it had it, releases it by its name in `dispose()`;
   the row of the worker that polls is gone, and the next one acquires it. The host
   lease has the same release by name, but a host that was refused does not call it.

### What else the models show
Behaviours of the code met while modelling. They are visible in the models; no run
states them.

*Requests.* A request that is `resuming` when its host dies or shuts down is ended by
nobody: expiry takes `running` and `waiting` only, and the apply window is in memory.
The session id is always `main`, so every later host answers `session_busy` to every
question. A dialog refused as ambiguous leaves its request `running`
(`session-host.mjs:319`), which does the same until it expires, although the comment
before it has the real dialog classified cleanly afterwards. A question tool that
ends unanswered loses its entry while its request stays `waiting`; a later tap makes
it `resuming` for ever. `/cancel` of the demo's request leaves the demo lifecycle
open, so that followups are refused and later gate dialogs are taken for the demo's. A
request of an earlier generation that expires closes the demo lifecycle of this one.
Action ids are derived from the request, so a decision that a crash left claimed
cannot be issued again, although `store.mjs:952` asks the human to.

*Dialogs.* They carry no tool call id, and tools run in parallel. Two questions at once
are answered, although the comment at `session-host.mjs:235` says that their dialogs
stay blocked. The dialog of a gated tool, or of a demo whose prompt timed out, that
opens beside one running question is taken for that question's. When the question then
ends (its own dialog was refused as `session_busy`, say), there are two cases:
* the other dialog was approved: line 480 of `session-host.mjs` marks its request
  completed, although its own tool may have failed since;
* it still waits: `completeRequest` refuses, but line 454 takes the entry off the map.
  The tool hangs in Pi on a dialog that neither a tap nor the expiry answers any more,
  and followups are let through beside it.

The end of any gated tool closes the one answered gate, so that an approved tool's end
completes the gate of another. `CompletedOnEvidence`, `PromptsNeverInterleave` and
`AskedEnds` hold with exactly these exceptions, and TLC refutes them when one is
dropped. An in-flight entry whose tool end is lost is never cleared.

*Worker.* An update whose transaction throws is skipped like the broker's (run 3
above). One whose planning throws is swallowed with the rows it has queued so far:
`PlanDetails` queues any prefix of a rendering, and a context without its keyboard is
repaired by the next `/details`, as no keyboard row is there. The end of a worker process is not observed (`runtime-host.mjs:397` tests a
promise for being a function), so a worker that ended comes back only through
`stop-worker` and `start-worker` or a new host, and the adoption of an old host's
worker that the comments describe does not happen. A spawn whose credentials arrive
after the shutdown began leaves a worker without a host. `renewWorkerLease` has no
caller.

*Broker process.* A broker takes no lease; `IgnoreNew` of the task and Telegram's 409
are what keeps two apart. A stop request that its broker did not consume (`off` timed
out, or the broker died first) stays in `broker-control.json` under the id of the
installation, and the next broker stops at its first control tick: what
`broker-service-common.ps1:456` says "can never silently swallow the next logon
start". `off` while a broker boots disables the task and reports OFF, and the broker
comes up.

## Proofs

Every proof is from the assumptions of its component alone. TLC checked each
inductive invariant before it was proved.

### TuiStore_proofs
It proves, for all sets of sessions, connections, short ids and
commands and any `MaxEvents`, from the assumptions of `TuiStore` alone
(`NoConnection \notin Connection`, `NoShortId \notin ShortId`, `"connected" \in
SessionState`, `MaxEvents \in Nat`):

* `TypeCorrect`, and `Invariance` of
  `IInv == TypeOK /\ SessionInv /\ LedgerInv /\ ClaimedByAHolder`;
* from it `StreamTellsOwner`, `OnlyTheHolderPublishes`, `ShortIdNamesOneSession`,
  `NoOvertaking`, `ClaimedOnce`, `ClaimedByAHolder`, `LiveRowNotStolen`;
* `ImplementsMailbox`: `Spec => MailboxSpec`.

None of the safety properties is inductive alone. `OnlyTheHolderPublishes` needs
`StreamTellsOwner` for the event being appended (the CAS reads the table, the property
the stream), so the two form `SessionInv` with the uniqueness of short ids.
`NoOvertaking` and `ClaimedOnce` need the ledger to tie the state column to the
history: a command is in `claims` exactly if it is neither absent nor pending, it has
one place in one queue, and what stands in a queue before a claimed command is
claimed before it. `LedgerInv` is that conjunction. The mailbox follows because a
queue position is taken exactly when its command is no longer pending.

### TuiExtension_proofs
Assumes what `TuiExtension` declares: kinds of commands among the six, `NoLink \notin
Link`, `MaxClaims` positive, `MaxEvents` and `MaxFaults` natural.

* `TypeCorrect`, and `ImplementsStore`: every step of the extension, of its process and
  of the broker is a step of the store or leaves the tables alone (one lemma per
  action). `StoreInvariance` therefore carries the invariant of `TuiStore_proofs` over:
  the module instantiates it and cites its lemmas about claims and queues.
* `Invariance` of `IInv == TypeInv /\ LinkInv /\ CommandInv /\ TickInv /\ ExecutedInv
  /\ ReportInv`, and from it `ExecutedInOrder`, `ReportTruthful`,
  `SettledIsAnnounced`, `RowMirrorsConnection`, `RowNeedsOptIn`, `UnlinkedForGood`,
  `OptedInExecution`.

What carries the proof is `BatchIsSuffix` in `TickInv`: the batch of the tick is the
end of the store's order of claims, so what reached Pi lies before what is still to be
handled, and the order of claims (`NoOvertaking`, of the store) becomes the order of
execution. `ReportTruthful` needs `VerdictTruthful` for the moment between handling
and settling. `RowNeedsOptIn` is not inductive: it says nothing of a row whose process
quits and comes back, which `RowNeedsConnection` does. `UnlinkedForGood` needs
`TornDown`, which also covers the steps between the report and the unlink.
TLC checked `IInv` on both instances of the runs (500,758 and 734,336 states) and on
one of 3 commands, batches of 3 and 8 events (6,755,154 states).

### SelectiveBroker_proofs
Assumes `NoSession \notin Session`, natural bounds, and what the user types and
taps to be among the inputs of the module.

* `Invariance` of `IInv == TypeOK /\ ShapeInv /\ CardInv /\ BatchInv /\ OnceInv /\
  OffsetBehindInboxUnlessFaulty /\ DispatchedOnce`; from it these two and `TypeOK`;
* the action properties `CardSendsItsOwnText` and `HeldNotLost`.

A text may become a command when it is handled, or later through the button of a
card. `DispatchedOnce` needs both to be new: what was sent on is behind the offset, and
what is held was not sent on (`OnceInv`); a card names a message held earlier
(`CardInv`), and `BatchInv` ties the batch to the offset. `PlanSound` shows, one lemma
per command of the bot, that any plan keeps this up.
The proof corrected the model: `HandleThrows` had queued a reply before its plan
reached memory, so a queued card could name a message never held, and with three
failures one text was sent twice. The code selects, holds and then replies.
TLC checked `IInv` on the instances of both passing runs (413,137 and 2,171,587
states) and 17.2 million states of a larger one, not to its end.

### BrokerDelivery_proofs
Assumes positive limits (`MaxHits`, `WindowPolls`, `MaxAttempts`, `MaxPerDrain`,
`MaxReplies`, `MaxChunks`) and natural bounds.

* `Invariance` of `IInv == TypeOK /\ PlaceInv /\ OrderInv /\ WholeInv /\ OnceInv`, and
  from it `EventsInOrder`, `AckedIsOnThePhone`, `OneChunkShownOnce`.

An event is acknowledged after its last chunk, from a counter that restarts, failures
and the limiter reset. `WholeInv` is what the counter means: the chunks before it are
on the phone, in order. `EventsInOrder` needs the acknowledged events to be a prefix
of the stream and the phone to show nothing newer than the oldest pending one
(`OrderInv`). TLC checked `IInv` on the instance of the run (70,444 states) and a
larger one (9.6 million).

### SessionHost_proofs
Assumes question tools, gated tools and the demo to be distinct, `Approve` to be a
choice and `"none"`, `"cancelled"` none, natural bounds.

* `Invariance` of `IInv == TypeInv /\ TableInv /\ DialogInv /\ AnsweredAsDecided`, and
  from it `TypeOK` and `AnsweredAsDecided`;
* the action properties `CompletedOnEvidence`, `PromptsNeverInterleave`, and
  `ForgetsOnlyClosed`, the safety half of `RespondedIsSettled`;
* `ImplementsLifecycle`: `Spec => RequestPromise`; each action moves every question as
  `RequestLifecycle` allows.

A dialog carries no tool call id, so the host infers whose it is, and nothing is
assumed about which tools run at once. `DialogInv` states what may be relied on all the
same:
* a dialog in memory is one of an active request of this generation, answered if and
  only if the request is resuming (`HeldIsActive`);
* whatever Pi blocks on has a dialog, unless it was let go (`AskingIsHeld`);
* an asker that was given a choice was given the decision of its dialog still held
  (`AnswerIsItsOwn`);
* a dialog that was rightly taken for its own asker's question waits, or was answered
  with what is recorded, as long as it is held, and no question is taken for the demo
  (`OwnQuestion`).

`CompletedOnEvidence` follows case by case: the demo's notify completes what it
echoes; the end of a question completes its own dialog with its own answer
(`OwnQuestion`) or one taken for it, which is the first exception; the end of an
approved gated tool completes its own gate (`AnswerIsItsOwn`) or another's, the second.
`PromptsNeverInterleave` is `AskingIsHeld` read against the guard of the followup.
TLC checked `IInv` on the instance of the run (311,452 states), with two question tools
(2,083,453) and with two gated tools (1,569,150).

### TelegramWorker_proofs
Assumes at least one message per context and one attempt, natural bounds, and that
`"none"` is no request.

* `Invariance` of `IInv == TypeOK /\ OutboxInv /\ StageOK`, and from it `TypeOK` and
  `KeyboardAfterItsText`.

`MaySend` compares delivered with queued messages of a batch, so the theorem depends
on the batch having been queued whole before its keyboard, over crashes in the midst of
a rendering: `BatchOK` and `TodoOK` say that queued and still to be queued messages are
together one whole context, its keyboard last. TLC checked `IInv` on the instance of
the run (167,023 states), with 3 context messages (716,612) and with 2 updates
(3,055,348).

### HostSupervision_proofs, BrokerProcess_proofs
`HostSupervision_proofs` proves, for all sets of hosts and workers and with no
assumption: `ActiveHoldsLeaseTheorem`, the invariance of `HInv` (host states, and
every active host is the one the lease names), and from it `OneHostTheorem`. The
stronger `HInv` is needed because a lease is released by a name all hosts share:
`EndingKeepsHInv` shows that the row an ending host deletes is its own. The same
argument fails for workers, which is run 4 above.

`BrokerProcess_proofs` proves, for any number of brokers: `StatusInvariance` of `BInv`
(at most one broker runs, and `RunningIsSeen`), and `RunningIsSeenTheorem`. A broker's
writes of the status file speak only of itself, so `RunningIsSeen` needs that no other
writes while it runs; `Launched` (`IgnoreNew`) gives that.

TLC checked `OneHost` and `ActiveHoldsLease` (2 hosts, 3 workers, 370,564 states) and
`RunningIsSeen` (3 brokers, 1,425 states) before they were proved; as the theorems
cover every instance, they have no runs.

### Only model-checked
* Liveness (fairness and ENABLED are out of the prover's reach): `ConnectedIsServed`,
  `UpdatesHandled`, `EveryEventIsTold`, `KeptNoticeDelivered`, `AskedEnds`,
  `AskedIsShown`, and the first half of `RespondedIsSettled`.
* The four violated properties, which are counterexamples.

Every other property of a passing run is stated by a theorem.

## Not modelled, and why
* Callback answers (`answerCallbackQuery`): best effort, no state depends on them.
* Voice messages before the transaction: a transcribed one is a text, a failed one a
  reply.
* Start-up refusals, webhook conflicts: the loop ends; nothing happens afterwards.
* Legacy worker: authorisation and the inbound limiter (an update that is dropped
  counts as one without rows), the callback token table (a tap may come from any
  rendering, which allows more).
* Session host: store calls that throw (in the middle of a dialog, one leaves Pi
  waiting for it), decisions of the shape `{cancelled}`, which no client produces, the
  auto-answer of its test mode.
* Status files of the legacy host and their aggregation (`bridge-control.mjs`), log
  rotation: nothing reads them back into a decision.
* Broker process: the log line about an unclean death, control files of other
  installations or malformed, writes that fail.
* Redaction, labels, copy, QR rendering, pairing, configuration, path and ACL checks,
  DPAPI, set-up scripts: text processing, static files or operating system calls.

## Plan
1. Shorter proofs: the lemmas about appending to a sequence that `TuiStore_proofs`,
   `BrokerDelivery_proofs` and `SelectiveBroker_proofs` each state for themselves.
2. The safety halves of the liveness properties, as far as they say something of their
   own (as `ForgetsOnlyClosed` does): no step of the extension lets go of a claimed
   command it has not announced unless it unlinks or a call throws; no event is
   acknowledged out of turn.
3. What the runs assume of each other: that the rows `TelegramWorker` renders are those
   `SessionHost` writes, and that the events `BrokerDelivery` drains are those
   `TuiStore` appends.
