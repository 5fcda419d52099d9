----------------------------- MODULE SessionHost -----------------------------
(***************************************************************************)
(* The legacy runtime's host: src/session-host.mjs over the tables         *)
(* requests and actions of src/store.mjs, the child Pi behind              *)
(* src/pi-adapter.mjs, and the worker process that queues what the phone   *)
(* decides.  One host process runs one session ('main').                   *)
(*                                                                         *)
(* The host is single-threaded: the handler of one record of Pi is one     *)
(* step, and so is, in a tick, the sweep and each action that is claimed   *)
(* and handled after it; an action is handled only when nothing is left to *)
(* sweep.  The worker acts, and the host may crash, between any two steps; *)
(* a record of Pi between two actions of one tick is one between two       *)
(* ticks.  The clock is the host's, read at each tick.                     *)
(*                                                                         *)
(* A request is asked by one asker: a question tool (bridge_decision), a   *)
(* gated tool (write, edit) or the demo every host starts. Pi is external: *)
(* tools run beside each other and beside the demo; a tool may end in      *)
(* error, with its dialog open, or without an end that is seen, and a run  *)
(* may settle with a dialog open.  #classifyDialog takes any dialog that   *)
(* comes while one question runs for that question's ("certain             *)
(* association"), another tool's as well.  The name of a tool call is used *)
(* again when the host knows nothing of an earlier call of that name.      *)
(*                                                                         *)
(* Left out: store calls of the host that throw, notifications and the     *)
(* other rows for the phone (TelegramWorker models the outbox), the auto-  *)
(* answer of the host_demo test mode, and decisions of the shape           *)
(* {cancelled}, which neither the worker nor the test mode produces. Two   *)
(* actions queued in one millisecond are claimed in the order of their     *)
(* random ids: the same queue as if they had been queued the other way     *)
(* round. A claimed action never becomes pending again: completed or left  *)
(* claimed by a crash, it is off the queue.                                *)
(***************************************************************************)
EXTENDS Naturals, Sequences, FiniteSets

CONSTANTS Question,     \* calls of the bridge_decision tool
          Gated,        \* calls of tools that need a confirmation
          Demo,         \* the /bridge-demo command of the host
          Choice,       \* what the human may choose
          Approve,      \* the choice that lets a gated tool run
          MaxRequests,  \* bound: requests ever created
          MaxActions,   \* bound: actions pending at a time
          MaxHosts      \* bound: host generations

ASSUME AskerAssumption ==
    /\ Question \cap Gated = {} /\ Demo \notin Question \cup Gated
    /\ "none" \notin Question \cup Gated \cup {Demo}
ASSUME ChoiceAssumption ==
    Approve \in Choice /\ {"none", "cancelled"} \cap Choice = {}
ASSUME BoundAssumption ==
    {MaxRequests, MaxActions, MaxHosts} \subseteq Nat

Tool == Question \cup Gated
Asker == Tool \cup {Demo}
Request == 1..MaxRequests

VARIABLES
    requests,    \* table requests, by order of creation
    generation,  \* meta host_generation
    queue,       \* the pending rows of table actions, oldest first
    cancels,     \* requests with a 'cancel:<id>' row, unless it was handled
    host,        \* the host process: "down", "up", "stopping"
    dialogs,     \* #pendingDialogs, by request
    inFlight,    \* #inFlightDecisionTools
    demo,        \* #demoLifecycles has the session
    pi,          \* the Pi child: "up" or "gone"
    asker,       \* what each asker does inside Pi
    answer,      \* what each asker's dialog was answered with
    letGo        \* history: askers whose dialog another question's end dropped

tables == <<requests, generation, queue, cancels>>
memory == <<dialogs, inFlight, demo>>
child == <<pi, asker, answer, letGo>>
vars == <<requests, generation, queue, cancels, host, dialogs, inFlight, demo,
          pi, asker, answer, letGo>>

RequestRow == [asker : Asker, gen : Nat,
               state : {"none", "running", "waiting", "resuming", "completed",
                        "dropped"},
               decision : Choice \cup {"none"}, due : BOOLEAN]
Action == [type : {"decision", "cancel", "followup"},
           req : Request \cup {0}, choice : Choice \cup {"none"}]
Dialog == [kind : {"none", "demo", "tool_question", "gate"},
           tool : Question \cup {"none"}, responded : BOOLEAN, late : BOOLEAN]

NoRequest == [asker |-> Demo, gen |-> 0, state |-> "none", decision |-> "none",
              due |-> FALSE]
NoDialog == [kind |-> "none", tool |-> "none", responded |-> FALSE, late |-> FALSE]

-----------------------------------------------------------------------------
(* Requests *)

Active(r) == requests[r].state \in {"running", "waiting", "resuming"}
SessionBusy == \E r \in Request : Active(r)
Undecided(r) == requests[r].state \in {"running", "waiting"}

(* Ids are random in the code; here requests are numbered as they come.      *)
Fresh(r) == /\ requests[r].state = "none"
            /\ \A s \in 1..(r - 1) : requests[s].state # "none"

Created(a, r, state) ==
    [requests EXCEPT ![r] = [asker |-> a, gen |-> generation, state |-> state,
                             decision |-> "none", due |-> FALSE]]

(* requests after each of rs that may make the transition has made it.       *)
Moved(rs, from, to) ==
    [r \in Request |-> IF r \in rs /\ requests[r].state \in from
                       THEN [requests[r] EXCEPT !.state = to, !.due = FALSE]
                       ELSE requests[r]]

ActiveStates == {"running", "waiting", "resuming"}
Failed(rs) == Moved(rs, ActiveStates, "dropped")

(* Plausible bug: what still waits is completed as well.                     *)
CompletedFromWaiting(rs) == Moved(rs, ActiveStates, "completed")

Completed(rs) == Moved(rs, {"running", "resuming"}, "completed")

(* Plausible bug: the generation is not compared.                            *)
DecidableInAnyGeneration(r) == requests[r].state = "waiting"

(* Plausible bug: a decision may be recorded over another one.               *)
DecidableTwice(r) ==
    requests[r].state \in {"waiting", "resuming"} /\ requests[r].gen = generation

(* recordDecision: compare-and-set on state and current generation.          *)
Decidable(r) == requests[r].state = "waiting" /\ requests[r].gen = generation
Decided(r, c) == [requests EXCEPT ![r].state = "resuming", ![r].decision = c,
                                  ![r].due = FALSE]

-----------------------------------------------------------------------------
(* Dialogs of Pi *)

Held(r) == dialogs[r].kind # "none"
Without(rs) == [r \in Request |-> IF r \in rs THEN NoDialog ELSE dialogs[r]]

Dispatching == host # "down" /\ pi = "up"
Asking(a) == pi = "up" /\ asker[a] = "asking"

(* respondUi to the dialogs of the askers in as; a child that is gone or     *)
(* exiting does not hear it, and the failure is swallowed.                   *)
Respond(as, ans) ==
    /\ asker' = [a \in Asker |-> IF a \in as /\ Asking(a) THEN "answered" ELSE asker[a]]
    /\ answer' = [a \in Asker |-> IF a \in as /\ Asking(a) THEN ans ELSE answer[a]]
    /\ UNCHANGED <<pi, letGo>>

(* A dialog that arrives and is cancelled in the same step.                  *)
Refuse(a) ==
    /\ asker' = [asker EXCEPT ![a] = "answered"]
    /\ answer' = [answer EXCEPT ![a] = "cancelled"]
    /\ UNCHANGED <<pi, letGo>>

(* The askers in as are done: a tool may be called again.                    *)
Leaves(as, s) ==
    /\ asker' = [a \in Asker |-> IF a \in as THEN s ELSE asker[a]]
    /\ answer' = [a \in Asker |-> IF a \in as THEN "none" ELSE answer[a]]
    /\ UNCHANGED pi

(* What a tick has to sweep, and its turn to claim an action.                *)
Expired == {r \in Request : Undecided(r) /\ requests[r].due}
Unapplied == {r \in Request : Held(r) /\ dialogs[r].responded /\ dialogs[r].late}
Swept == Expired \cup Unapplied = {}
Turn == host = "up" /\ queue # <<>> /\ Swept

AskersOf(rs) == {requests[r].asker : r \in {s \in rs : Held(s)}}

-----------------------------------------------------------------------------
(* The host process *)

ForgetPi(s) ==
    /\ pi' = s
    /\ asker' = [a \in Asker |-> IF a = Demo /\ s = "up" THEN "started" ELSE "idle"]
    /\ answer' = [a \in Asker |-> "none"]
    /\ letGo' = {}

ForgetMemory ==
    /\ dialogs' = [r \in Request |-> NoDialog]
    /\ inFlight' = {}
    /\ demo' = FALSE

(* The lease is free or its holder is dead: a new generation, a new Pi, and  *)
(* the demo is prompted.                                                     *)
HostStart ==
    /\ host = "down" /\ generation < MaxHosts
    /\ host' = "up"
    /\ generation' = generation + 1
    /\ demo' = TRUE
    /\ ForgetPi("up")
    /\ UNCHANGED <<requests, queue, cancels, dialogs, inFlight>>

(* Pi does not start: the generation is spent, the lease is released.        *)
(* Bound: between two hosts; before the first only the number would differ.  *)
HostStartFails ==
    /\ host = "down" /\ generation \in 1..(MaxHosts - 1)
    /\ generation' = generation + 1
    /\ UNCHANGED <<requests, queue, cancels, host, memory, child>>

(* A crash between two transactions.  During a tick the oldest action may be *)
(* claimed, and a decision recorded and not yet sent.                        *)
HostCrash ==
    /\ host # "down"
    /\ host' = "down"
    /\ \/ UNCHANGED <<requests, queue>>
       \/ /\ Turn /\ queue' = Tail(queue)
          /\ \/ UNCHANGED requests
             \/ /\ Head(queue).type = "decision" /\ Decidable(Head(queue).req)
                /\ requests' = Decided(Head(queue).req, Head(queue).choice)
    /\ ForgetMemory
    /\ ForgetPi("gone")
    /\ UNCHANGED <<generation, cancels>>

(* Shutdown cancels the requests that wait for a decision, in Pi too, and    *)
(* nothing else; then Pi is killed while its last records still come in.     *)
ShutdownBegin ==
    /\ host = "up"
    /\ host' = "stopping"
    /\ LET waiting == {r \in Request : requests[r].state = "waiting"} IN
          /\ requests' = Moved(waiting, {"waiting"}, "dropped")
          /\ Respond(AskersOf(waiting), "cancelled")
          /\ dialogs' = Without(waiting)
    /\ UNCHANGED <<generation, queue, cancels, inFlight, demo>>

ShutdownEnd ==
    /\ host = "stopping"
    /\ host' = "down"
    /\ ForgetMemory
    /\ ForgetPi("gone")
    /\ UNCHANGED <<requests, generation, queue, cancels>>

-----------------------------------------------------------------------------
(* Records of Pi *)

(* The child exits: every pending RPC is rejected, the demo's prompt among   *)
(* them.  The host keeps running without a Pi.                               *)
PiExits ==
    /\ pi = "up" /\ host # "down"
    /\ ForgetPi("gone")
    /\ demo' = (demo /\ asker[Demo] = "ended")
    /\ UNCHANGED <<tables, host, dialogs, inFlight>>

(* The demo's prompt RPC times out, its dialog not yet open, open or         *)
(* answered: its time runs from the prompt, a request's from its dialog.     *)
DemoPromptTimesOut ==
    /\ host # "down"
    /\ demo /\ asker[Demo] # "ended"
    /\ demo' = FALSE
    /\ UNCHANGED <<tables, host, dialogs, inFlight, child>>

(* Bound on the calls of tools: one that can still ask something.            *)
RequestLeft == \E r \in Request : requests[r].state = "none"

(* Plausible bug: every tool is taken for a question.                        *)
ToolStartAnyTool(a) ==
    /\ Dispatching /\ asker[a] = "idle" /\ a \notin inFlight /\ RequestLeft
    /\ asker' = [asker EXCEPT ![a] = "started"]
    /\ inFlight' = inFlight \cup {a}
    /\ UNCHANGED <<tables, host, dialogs, demo, pi, answer, letGo>>

(* The host notes that a question tool has begun, whatever else runs.        *)
ToolStart(a) ==
    /\ Dispatching /\ asker[a] = "idle" /\ a \notin inFlight /\ RequestLeft
    /\ asker' = [asker EXCEPT ![a] = "started"]
    /\ inFlight' = IF a \in Question THEN inFlight \cup {a} ELSE inFlight
    /\ UNCHANGED <<tables, host, dialogs, demo, pi, answer, letGo>>

(* A dialog with sensitive content or unrenderable options.                  *)
RefuseDialog(a) ==
    /\ Dispatching /\ asker[a] = "started"
    /\ Refuse(a)
    /\ UNCHANGED <<tables, host, memory>>

BusyDialog(a) ==
    /\ Dispatching /\ asker[a] = "started"
    /\ SessionBusy
    /\ Refuse(a)
    /\ UNCHANGED <<tables, host, memory>>

Ambiguous == demo /\ inFlight # {}

(* The request has been created by the time the dialog is refused.           *)
AmbiguousDialog(a) ==
    /\ Dispatching /\ asker[a] = "started"
    /\ ~SessionBusy /\ Ambiguous
    /\ \E r \in Request : Fresh(r) /\ requests' = Created(a, r, "running")
    /\ Refuse(a)
    /\ demo' = FALSE
    /\ UNCHANGED <<generation, queue, cancels, host, dialogs, inFlight>>

Classified ==
    [NoDialog EXCEPT
        !.kind = IF demo THEN "demo"
                 ELSE IF inFlight # {} THEN "tool_question" ELSE "gate",
        !.tool = IF demo \/ Cardinality(inFlight) # 1 THEN "none"
                 ELSE CHOOSE a \in inFlight : TRUE]

(* Plausible bug: the dialog is answered to the chat before it is entered.   *)
OpenDialogUnregistered(a) ==
    /\ Dispatching /\ asker[a] = "started"
    /\ ~SessionBusy /\ ~Ambiguous
    /\ \E r \in Request : Fresh(r) /\ requests' = Created(a, r, "waiting")
    /\ asker' = [asker EXCEPT ![a] = "asking"]
    /\ UNCHANGED <<generation, queue, cancels, host, memory, pi, answer, letGo>>

OpenDialog(a) ==
    /\ Dispatching /\ asker[a] = "started"
    /\ ~SessionBusy /\ ~Ambiguous
    /\ \E r \in Request :
          /\ Fresh(r)
          /\ requests' = Created(a, r, "waiting")
          /\ dialogs' = [dialogs EXCEPT ![r] = Classified]
    /\ asker' = [asker EXCEPT ![a] = "asking"]
    /\ UNCHANGED <<generation, queue, cancels, host, inFlight, demo, pi,
                   answer, letGo>>

(* The dialogs a tool's end closes: those taken for the question's, or the   *)
(* one gate that has been answered, whichever gated tool ended.              *)
AnsweredGates == {r \in Request : dialogs[r].kind = "gate" /\ dialogs[r].responded}
ClosedBy(a) ==
    IF a \in Question
    THEN {r \in Request : dialogs[r].kind = "tool_question" /\ dialogs[r].tool = a}
    ELSE IF Cardinality(AnsweredGates) = 1 THEN AnsweredGates ELSE {}

(* Who still waits in Pi on a dialog that was taken for a's.                 *)
Stranded(a) ==
    {b \in Asker \ {a} : Asking(b) /\ \E r \in ClosedBy(a) : requests[r].asker = b}

(* A gated tool that was not approved is blocked, which Pi reports as an     *)
(* error; a run that is aborted ends its tools with their dialogs open.      *)
ToolEnd(a, error) ==
    /\ Dispatching /\ asker[a] \in {"started", "asking", "answered"}
    /\ a \in Gated /\ answer[a] # Approve => error
    /\ Leaves({a}, "idle")
    /\ inFlight' = inFlight \ {a}
    /\ requests' = IF error THEN Failed(ClosedBy(a)) ELSE Completed(ClosedBy(a))
    /\ dialogs' = Without(ClosedBy(a))
    /\ letGo' = (letGo \ {a}) \cup Stranded(a)
    /\ UNCHANGED <<generation, queue, cancels, host, demo>>

(* The demo's strict notify.  It completes the demo dialog whose recorded    *)
(* decision it echoes; a cancelled demo has no choice and is rejected.       *)
DemoNotify ==
    /\ Dispatching /\ asker[Demo] = "answered"
    /\ Leaves({Demo}, "ended")
    /\ LET proven == {r \in Request :
                        /\ demo /\ answer[Demo] \in Choice
                        /\ dialogs[r].kind = "demo" /\ dialogs[r].responded
                        /\ requests[r].asker \notin Gated
                        /\ requests[r].state = "resuming"
                        /\ requests[r].decision = answer[Demo]} IN
          /\ requests' = Completed(proven)
          /\ dialogs' = Without(proven)
          /\ demo' = (demo /\ proven = {})
    /\ UNCHANGED <<generation, queue, cancels, host, inFlight, letGo>>

(* agent_settled: a run is over, and the ends of some tools never came; a    *)
(* dialog nobody answered survives it.                                       *)
Settle ==
    /\ Dispatching
    /\ \E lost \in SUBSET {a \in Tool : asker[a] \in {"started", "answered"}} :
          Leaves(lost, "idle")
    /\ LET unapplied == {r \in Request : /\ dialogs[r].kind = "tool_question"
                                         /\ dialogs[r].responded
                                         /\ dialogs[r].tool # "none"} IN
          /\ requests' = Failed(unapplied)
          /\ dialogs' = Without(unapplied)
    /\ UNCHANGED <<generation, queue, cancels, host, inFlight, demo, letGo>>

-----------------------------------------------------------------------------
(* The worker process queues actions, whether the host is up or not.         *)

(* Bound: nothing of interest happens once the last host no longer ticks.    *)
Continues == host = "up" \/ generation < MaxHosts

Enqueue(type, r, c) ==
    /\ Continues /\ Len(queue) < MaxActions
    /\ queue' = Append(queue, [type |-> type, req |-> r, choice |-> c])
    /\ UNCHANGED <<requests, generation, host, memory, child>>

(* It waits, has not expired and was asked by the current host.  The text    *)
(* for an input dialog is taken under the same conditions as a tap.          *)
Answerable(r) == Decidable(r) /\ ~requests[r].due

(* A button consumes its token, but every rendering of a question has        *)
(* buttons of its own.                                                       *)
Tap(r, c) ==
    /\ Answerable(r)
    /\ Enqueue("decision", r, c)
    /\ UNCHANGED cancels

(* The action id is 'cancel:<id>': a second /cancel of a request is ignored. *)
CancelCommand(r) ==
    /\ Undecided(r) /\ r \notin cancels
    /\ Enqueue("cancel", r, "none")
    /\ cancels' = cancels \cup {r}

FollowupCommand == Enqueue("followup", 0, "none") /\ UNCHANGED cancels

-----------------------------------------------------------------------------
(* One tick: sweep, then claim and handle until no action is pending         *)

(* Plausible bug: a decision that was sent is taken for applied.             *)
SweepExpiredOnly ==
    /\ host = "up" /\ Expired # {}
    /\ UNCHANGED <<queue, cancels>>
    /\ requests' = Moved(Expired, {"running", "waiting"}, "dropped")
    /\ Respond(AskersOf(Expired), "cancelled")
    /\ dialogs' = Without(Expired)
    /\ demo' = (demo /\ Expired = {})
    /\ UNCHANGED <<generation, host, inFlight>>

Sweep ==
    /\ host = "up" /\ ~Swept
    /\ UNCHANGED <<queue, cancels>>
    /\ requests' = [r \in Request |->
                      IF r \in Expired THEN Moved(Expired, {"running", "waiting"}, "dropped")[r]
                      ELSE Failed(Unapplied)[r]]
    /\ Respond(AskersOf(Expired), "cancelled")
    /\ dialogs' = Without(Expired \cup Unapplied)
    /\ demo' = (demo /\ Expired \cup Unapplied = {})
    /\ UNCHANGED <<generation, host, inFlight>>

(* The oldest pending action is claimed, handled and completed; the loop     *)
(* ends when none is pending.                                                *)
Settled ==
    /\ queue' = Tail(queue)
    /\ UNCHANGED <<generation, host, inFlight, demo>>

(* submitDecision: record, then answer the dialog if this host holds it.     *)
HandleDecision ==
    /\ Turn /\ Head(queue).type = "decision"
    /\ LET r == Head(queue).req
           c == Head(queue).choice IN
          IF Decidable(r)
          THEN /\ requests' = Decided(r, c)
               /\ dialogs' = IF Held(r) THEN [dialogs EXCEPT ![r].responded = TRUE]
                             ELSE dialogs
               /\ Respond(AskersOf({r}), c)
          ELSE UNCHANGED <<requests, dialogs, child>>
    /\ Settled
    /\ UNCHANGED cancels

(* cancelRequest: running or waiting only; the dialog is cancelled in Pi.    *)
(* Either way the request is decided or closed, and its cancel row is never  *)
(* read again.                                                               *)
HandleCancel ==
    /\ Turn /\ Head(queue).type = "cancel"
    /\ LET r == Head(queue).req IN
          IF Undecided(r)
          THEN /\ requests' = Moved({r}, {"running", "waiting"}, "dropped")
               /\ dialogs' = Without({r})
               /\ Respond(AskersOf({r}), "cancelled")
          ELSE UNCHANGED <<requests, dialogs, child>>
    /\ Settled
    /\ cancels' = cancels \ {Head(queue).req}

(* Plausible bug: only the demo is looked at.                                *)
MayPromptWithDialogs == pi = "up" /\ ~demo

MayPrompt == pi = "up" /\ ~demo /\ \A r \in Request : ~Held(r)

(* The prompt is sent when MayPrompt holds, and refused with a notice when   *)
(* not; what Pi answers is only told to the phone.                           *)
HandleFollowup ==
    /\ Turn /\ Head(queue).type = "followup"
    /\ Settled
    /\ UNCHANGED <<requests, cancels, dialogs, child>>

-----------------------------------------------------------------------------
(* Time *)

(* expires_at passes.                                                        *)
Overdue(r) ==
    /\ Continues
    /\ Undecided(r) /\ ~requests[r].due
    /\ requests' = [requests EXCEPT ![r].due = TRUE]
    /\ UNCHANGED <<generation, queue, cancels, host, memory, child>>

(* respondedAt is longer ago than decisionApplyTimeoutMs.                    *)
Late(r) ==
    /\ Held(r) /\ dialogs[r].responded /\ ~dialogs[r].late
    /\ dialogs' = [dialogs EXCEPT ![r].late = TRUE]
    /\ UNCHANGED <<tables, host, inFlight, demo, child>>

-----------------------------------------------------------------------------
Init ==
    /\ requests = [r \in Request |-> NoRequest]
    /\ generation = 0
    /\ queue = <<>> /\ cancels = {}
    /\ host = "down"
    /\ dialogs = [r \in Request |-> NoDialog]
    /\ inFlight = {} /\ demo = FALSE
    /\ pi = "gone"
    /\ asker = [a \in Asker |-> "idle"]
    /\ answer = [a \in Asker |-> "none"]
    /\ letGo = {}

HostProcess ==
    HostStart \/ HostStartFails \/ HostCrash \/ ShutdownBegin \/ ShutdownEnd

PiRecord ==
    \/ PiExits \/ DemoPromptTimesOut \/ DemoNotify \/ Settle
    \/ \E a \in Tool : ToolStart(a) \/ \E error \in BOOLEAN : ToolEnd(a, error)
    \/ \E a \in Asker : \/ RefuseDialog(a) \/ BusyDialog(a) \/ AmbiguousDialog(a)
                        \/ OpenDialog(a)

Worker ==
    \/ \E r \in Request : CancelCommand(r) \/ \E c \in Choice : Tap(r, c)
    \/ FollowupCommand

Handle == HandleDecision \/ HandleCancel \/ HandleFollowup
Tick == Sweep \/ Handle
Time == \E r \in Request : Overdue(r) \/ Late(r)

Next == HostProcess \/ PiRecord \/ Worker \/ Tick \/ Time

(* Time passes and the host's interval timer keeps firing.  Nothing makes Pi *)
(* send a record, the human answer, or a host start.                         *)
Fairness == WF_vars(Time) /\ WF_vars(Tick)

Spec == Init /\ [][Next]_vars /\ Fairness

-----------------------------------------------------------------------------
(* Properties *)

TypeOK ==
    /\ requests \in [Request -> RequestRow]
    /\ generation \in 0..MaxHosts
    /\ queue \in Seq(Action) /\ Len(queue) <= MaxActions
    /\ cancels \subseteq Request
    /\ host \in {"down", "up", "stopping"}
    /\ dialogs \in [Request -> Dialog]
    /\ inFlight \subseteq Question
    /\ demo \in BOOLEAN
    /\ pi \in {"up", "gone"}
    /\ asker \in [Asker -> {"idle", "started", "asking", "answered", "ended"}]
    /\ answer \in [Asker -> Choice \cup {"none", "cancelled"}]
    /\ letGo \subseteq Asker

(* Pi is told exactly what was recorded: when a dialog of Pi has been        *)
(* answered with a choice, the durable row of that very dialog, made by this *)
(* generation of the host, has that choice as its decision.  Taps of both    *)
(* buttons, cancellation, expiry and a restart race for it.                  *)
AnsweredAsDecided ==
    \A a \in Asker : answer[a] \in Choice =>
        \E r \in Request : /\ requests[r].asker = a
                           /\ requests[r].gen = generation
                           /\ requests[r].decision = answer[a]

(* "Applied" is never claimed without evidence: a request that becomes       *)
(* completed has a recorded decision, and its own asker in Pi was answered   *)
(* with it and has not left.  Evidence of another dialog or run, or of a Pi  *)
(* that has gone, completes nothing, with two exceptions that the code has   *)
(* when tools run in parallel: the end of the question a dialog was taken    *)
(* for, and the end of another approved gated tool while this gate is the    *)
(* one that is answered.                                                     *)
TakenForAnother(r) ==
    \E b \in Question \ {requests[r].asker} :
        dialogs[r].tool = b /\ ToolEnd(b, FALSE)
GateOfAnother(r) ==
    /\ dialogs[r].kind = "gate"
    /\ \E b \in Gated \ {requests[r].asker} : answer[b] = Approve /\ ToolEnd(b, FALSE)

CompletedOnEvidence ==
    [][\A r \in Request :
          requests[r].state # "completed" /\ requests'[r].state = "completed" =>
              /\ requests[r].decision # "none"
              /\ \/ answer[requests[r].asker] = requests[r].decision
                 \/ TakenForAnother(r) \/ GateOfAnother(r)]_vars

(* A followup never reaches Pi while one of Pi's dialogs waits for a human   *)
(* ("never interleaved with a new prompt"): the host's map of dialogs knows  *)
(* of every dialog Pi blocks on, but for one that was taken for a question   *)
(* of another call and dropped at that call's end.                           *)
PromptsNeverInterleave ==
    [][HandleFollowup /\ MayPrompt =>
          \A a \in Asker : Asking(a) => a \in letGo]_vars

(* Every dialog Pi blocks on comes to an end while the host is up: it is     *)
(* decided, cancelled or expired, or refused at once, and nobody waits; only *)
(* one that was dropped at the end of another question hangs.  No request    *)
(* stays undecided either, with a dialog or, like that of an ambiguous one,  *)
(* without.                                                                  *)
AskedEnds ==
    []<>(\/ /\ \A a \in Asker : Asking(a) => a \in letGo
            /\ \A r \in Request : ~Undecided(r)
         \/ host # "up")

(* A decision that was sent does not stay "resuming" under a running host:   *)
(* within the window it is applied or observed as failed, and the host does  *)
(* not forget the dialog before.                                             *)
RespondedIsSettled ==
    /\ []<>((\A r \in Request : ~dialogs[r].responded) \/ host # "up")
    /\ [][\A r \in Request :
              dialogs[r].responded /\ ~dialogs'[r].responded =>
                  requests'[r].state \notin ActiveStates \/ host' = "down"]_vars

(* The host implements RequestLifecycle: one open request, decided at most   *)
(* once and only in the generation that asked it, closed for good.           *)
Phase(state) ==
    CASE state = "none" -> "none"
      [] state \in {"running", "waiting"} -> "open"
      [] state = "resuming" -> "decided"
      [] OTHER -> "closed"

Promise == INSTANCE RequestLifecycle
    WITH NoChoice <- "none",
         era <- generation,
         phase <- [r \in Request |-> Phase(requests[r].state)],
         bornIn <- [r \in Request |-> requests[r].gen],
         choice <- [r \in Request |-> requests[r].decision]

RequestPromise == Promise!Spec
=============================================================================
