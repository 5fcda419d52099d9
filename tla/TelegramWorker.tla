--------------------------- MODULE TelegramWorker ---------------------------
(***************************************************************************)
(* The legacy runtime's Telegram process: src/telegram-worker.mjs over the *)
(* tables inbox and outbox of src/store.mjs.                               *)
(*                                                                         *)
(* One process loops: poll, handle each update in one transaction, drain   *)
(* the outbox.  Each store call of the drain is a transaction of its own,  *)
(* so the process may die between the rows of one rendering, and between   *)
(* a message's arrival at the phone and the mark in its row.  The host     *)
(* process, seen here only through the rows it writes, asks requests and   *)
(* settles them at any time (SessionHost models what it does inside).      *)
(*                                                                         *)
(* Texts are abstracted to their row, a choice to its keyboard, Telegram's *)
(* answers to four outcomes.  Left out: authorisation and inbound rate     *)
(* limits (an update that is dropped counts as a reply of no rows), the    *)
(* notice for options no keyboard can hold (the host refuses such dialogs  *)
(* before), and the lease (HostSupervision).                               *)
(***************************************************************************)
EXTENDS Naturals, Sequences, FiniteSets

CONSTANTS Request,      \* decision requests
          Chunks,       \* messages that the context of a request takes
          MaxAttempts,  \* maxKeyboardSendAttempts
          MaxUpdates,   \* bound: updates the phone makes
          MaxCrashes    \* bound: times the worker dies

ASSUME WorkerAssumption ==
    /\ Chunks \in Nat \ {0} /\ MaxAttempts \in Nat \ {0}
    /\ {MaxUpdates, MaxCrashes} \subseteq Nat
    /\ "none" \notin Request

VARIABLES
    requests,  \* table requests, as far as the worker reads it
    outbox,    \* table outbox, by outbox_id
    batches,   \* render batches made so far
    inbox,     \* updates in table inbox
    offset,    \* transport_offset: updates below it are confirmed
    sent,      \* update_id of the last update the phone made
    shown,     \* batches whose keyboard is on the phone
    pc,        \* where the worker is, "down" when it is not running
    fetched,   \* updates of the last poll not yet handled
    todo,      \* rows the rendering still has to queue
    outcome,   \* of the call to the Bot API, not yet marked
    crashes

tables == <<requests, outbox, batches, inbox, offset>>
worker == <<pc, fetched, todo, outcome, crashes>>
vars == <<tables, sent, shown, worker>>

Row == [kind : {"approval", "note", "text", "keyboard"},
        req : Request \cup {"none"}, batch : Nat,
        st : {"pending", "delivered", "failed"}, attempts : Nat]

NewRow(kind, r, b) ==
    [kind |-> kind, req |-> r, batch |-> b, st |-> "pending", attempts |-> 0]

(* All that a plan replies, the answer to a tap included (no limiter stops   *)
(* that one), or a notification says.                                        *)
Reply == NewRow("text", "none", 0)

-----------------------------------------------------------------------------
(* The outbox *)

Pending == {i \in DOMAIN outbox : outbox[i].st = "pending"}
First == CHOOSE i \in Pending : \A j \in Pending : i <= j

(* A settled row that no summary counts, of no request, is never read again: *)
(* it is dropped.                                                            *)
Marked(i, st) ==
    IF outbox[i].req = "none"
    THEN SubSeq(outbox, 1, i - 1) \o SubSeq(outbox, i + 1, Len(outbox))
    ELSE [outbox EXCEPT ![i].st = st]

Attempted(i) == [outbox EXCEPT ![i].attempts = @ + 1]

(* outboxBatchSummary: the context rows of one rendering.                    *)
Context(b) == {i \in DOMAIN outbox : outbox[i].kind = "text" /\ outbox[i].batch = b}
ContextLost(b) == \E i \in Context(b) : outbox[i].st = "failed"
ContextReady(b) == \A i \in Context(b) : outbox[i].st = "delivered"

(* outboxRequestSummary.                                                     *)
Keyboards(r) == {i \in DOMAIN outbox : outbox[i].kind = "keyboard" /\ outbox[i].req = r}
KeyboardFailed(r) == \E i \in Keyboards(r) : outbox[i].st = "failed"

(* #enqueueApprovalKeyboard: the context, then its keyboard, of one batch.   *)
Rendering(r, b) ==
    [i \in 1..(Chunks + 1) |->
        IF i <= Chunks THEN NewRow("text", r, b) ELSE NewRow("keyboard", r, b)]

Waits(r) == requests[r] = "waiting"

-----------------------------------------------------------------------------
(* The host process *)

HostOnly == UNCHANGED <<batches, inbox, offset, sent, shown, worker>>

(* One request is active at a time.  The request waits before the row for    *)
(* the phone is queued: a host that dies between leaves it without one.      *)
Ask(r) ==
    /\ requests[r] = "none" /\ ~\E s \in Request : Waits(s)
    /\ requests' = [requests EXCEPT ![r] = "waiting"]
    /\ \/ outbox' = Append(outbox, NewRow("approval", r, 0))
       \/ UNCHANGED outbox
    /\ HostOnly

(* It is decided, cancelled, expired for good or failed, which may queue a   *)
(* decision_applied row.  Notifications at other times are left out.         *)
Settle(r) ==
    /\ Waits(r)
    /\ requests' = [requests EXCEPT ![r] = "over"]
    /\ outbox' \in {outbox, Append(outbox, NewRow("note", "none", 0))}
    /\ HostOnly

-----------------------------------------------------------------------------
(* Updates.  What one says is read when it is handled, and chosen then.      *)

(* An update may as well be made just before the poll that returns it.       *)
PhoneSends ==
    /\ pc = "poll" /\ sent < MaxUpdates
    /\ sent' = sent + 1
    /\ UNCHANGED <<tables, shown, worker>>

(* /details shows a question again when it waits and no keyboard was queued  *)
(* for it or one failed.  Its rows are queued one by one: an error among     *)
(* them is swallowed, and the rows before it stay.                           *)
PlanDetails ==
    \E r \in Request :
       IF Waits(r) /\ (Keyboards(r) = {} \/ KeyboardFailed(r))
       THEN /\ \E n \in 0..(Chunks + 1) :
                  outbox' = Append(outbox, Reply) \o SubSeq(Rendering(r, batches + 1), 1, n)
            /\ batches' = batches + 1
       ELSE outbox' = Append(outbox, Reply) /\ UNCHANGED batches

(* Any other message or tap, or an update that is dropped.                   *)
PlanOther == outbox' \in {outbox, Append(outbox, Reply)} /\ UNCHANGED batches

Plan == PlanDetails \/ PlanOther

(* The receipt is new; the offset never moves back.                          *)
FirstSighting(id) == id \notin inbox
Advanced(id) == IF id > offset THEN id ELSE offset

-----------------------------------------------------------------------------
(* The worker process *)

Start ==
    /\ pc = "down" /\ pc' = "poll"
    /\ UNCHANGED <<tables, sent, shown, fetched, todo, outcome, crashes>>

(* It dies, or stops on a conflict or an authorisation failure.              *)
Crash ==
    /\ pc # "down" /\ crashes < MaxCrashes
    /\ pc' = "down" /\ crashes' = crashes + 1
    /\ fetched' = <<>> /\ todo' = <<>> /\ outcome' = "none"
    /\ UNCHANGED <<tables, sent, shown>>

(* A poll that fails counts as one without updates.                          *)
Poll ==
    /\ pc = "poll"
    /\ fetched' \in {<<>>, [i \in 1..(sent - offset) |-> offset + i]}
    /\ pc' = IF fetched' = <<>> THEN "drain" ELSE "handle"
    /\ UNCHANGED <<tables, sent, shown, todo, outcome, crashes>>

NextUpdate ==
    /\ fetched' = Tail(fetched)
    /\ pc' = IF fetched' = <<>> THEN "drain" ELSE "handle"
    /\ UNCHANGED <<requests, sent, shown, todo, outcome, crashes>>

(* Receipt, plan and offset in one transaction.                              *)
HandleUpdate ==
    /\ pc = "handle"
    /\ LET id == Head(fetched) IN
          IF FirstSighting(id)
          THEN /\ Plan
               /\ inbox' = inbox \cup {id}
               /\ offset' = Advanced(id)
          ELSE UNCHANGED <<outbox, batches, inbox, offset>>
    /\ NextUpdate

(* The transaction is rolled back; the loop goes on with the next update.    *)
HandleThrows ==
    /\ pc = "handle"
    /\ NextUpdate
    /\ UNCHANGED <<outbox, batches, inbox, offset>>

(* #renderApprovalRequest begins: tokens and batch are made, rows follow; a  *)
(* request that no longer waits has none.                                    *)
Render ==
    /\ pc = "drain" /\ Pending # {} /\ outbox[First].kind = "approval"
    /\ pc' = "render"
    /\ IF Waits(outbox[First].req)
       THEN /\ todo' = Rendering(outbox[First].req, batches + 1)
            /\ batches' = batches + 1
       ELSE todo' = <<>> /\ UNCHANGED batches
    /\ UNCHANGED <<requests, outbox, inbox, offset, sent, shown, fetched,
                   outcome, crashes>>

(* #renderNotification and #renderDecisionApplied.                           *)
RenderNote ==
    /\ pc = "drain" /\ Pending # {} /\ outbox[First].kind = "note"
    /\ pc' = "render" /\ todo' = <<Reply>>
    /\ UNCHANGED <<tables, sent, shown, fetched, outcome, crashes>>

(* One row is queued; after the last the job is marked delivered.            *)
RenderRow ==
    /\ pc = "render" /\ todo # <<>>
    /\ outbox' = Append(outbox, Head(todo))
    /\ todo' = Tail(todo)
    /\ UNCHANGED <<requests, batches, inbox, offset, sent, shown, pc, fetched,
                   outcome, crashes>>

(* Plausible bug: the job is marked while rows of it are still to be queued. *)
RenderEndEarly ==
    /\ pc = "render"
    /\ outbox' = Marked(First, "delivered")
    /\ pc' = "drain" /\ todo' = <<>>
    /\ UNCHANGED <<requests, batches, inbox, offset, sent, shown, fetched,
                   outcome, crashes>>

RenderEnd ==
    /\ pc = "render" /\ todo = <<>>
    /\ outbox' = Marked(First, "delivered")
    /\ pc' = "drain"
    /\ UNCHANGED <<requests, batches, inbox, offset, sent, shown, fetched,
                   todo, outcome, crashes>>

(* Plausible bug: a keyboard is sent without a look at its context.          *)
MaySendAnyContext(i) ==
    outbox[i].kind = "keyboard" => outbox[i].attempts < MaxAttempts

(* Plausible bug: a keyboard is tried for ever.                              *)
MaySendForEver(i) == outbox[i].kind = "keyboard" => ContextReady(outbox[i].batch)

(* The guards of #sendKeyboard; a text has none.                             *)
MaySend(i) ==
    outbox[i].kind = "keyboard" =>
        ContextReady(outbox[i].batch) /\ outbox[i].attempts < MaxAttempts

Sendable == pc = "drain" /\ Pending # {} /\ outbox[First].kind \in {"text", "keyboard"}

(* The Bot API is called: the message arrives and that is known or not, or   *)
(* it does not arrive and that is known or not.  What becomes of a message   *)
(* of no rendering is never read: it counts as arrived.                      *)
Send ==
    /\ Sendable /\ MaySend(First)
    /\ pc' = "mark"
    /\ \E arrives \in BOOLEAN :
          /\ outbox[First].batch = 0 => arrives
          /\ outcome' \in IF outbox[First].batch = 0 THEN {"ok"}
                          ELSE {"uncertain", IF arrives THEN "ok" ELSE "refused"}
          /\ shown' = IF arrives /\ outbox[First].kind = "keyboard"
                      THEN shown \cup {outbox[First].batch} ELSE shown
    /\ UNCHANGED <<tables, sent, fetched, todo, crashes>>

(* An uncertain text counts as delivered, an uncertain keyboard as an        *)
(* attempt.                                                                  *)
Mark ==
    /\ pc = "mark"
    /\ pc' = "drain" /\ outcome' = "none"
    /\ outbox' = CASE outcome = "refused" -> Marked(First, "failed")
                   [] outcome = "uncertain" /\ outbox[First].kind = "keyboard" ->
                          Attempted(First)
                   [] OTHER -> Marked(First, "delivered")
    /\ UNCHANGED <<requests, batches, inbox, offset, sent, shown, fetched,
                   todo, crashes>>

(* context_lost or max_attempts.  A keyboard whose context is still pending  *)
(* would wait; it is behind its context.                                     *)
GiveUp ==
    /\ Sendable /\ outbox[First].kind = "keyboard"
    /\ \/ ContextLost(outbox[First].batch)
       \/ ContextReady(outbox[First].batch) /\ outbox[First].attempts >= MaxAttempts
    /\ outbox' = Marked(First, "failed")
    /\ UNCHANGED <<requests, batches, inbox, offset, sent, shown, worker>>

(* The rate limiter denies: the row stays pending.                           *)
Throttled == Sendable /\ MaySend(First)

DrainEnd ==
    /\ pc = "drain"
    /\ Pending = {} \/ Throttled
    /\ pc' = "poll"
    /\ UNCHANGED <<tables, sent, shown, fetched, todo, outcome, crashes>>

-----------------------------------------------------------------------------
Init ==
    /\ requests = [r \in Request |-> "none"]
    /\ outbox = <<>> /\ batches = 0
    /\ inbox = {} /\ offset = 0
    /\ sent = 0 /\ shown = {}
    /\ pc = "down" /\ fetched = <<>> /\ todo = <<>> /\ outcome = "none"
    /\ crashes = 0

Host == \E r \in Request : Ask(r) \/ Settle(r)

Works ==
    \/ Poll \/ HandleUpdate \/ HandleThrows
    \/ Render \/ RenderNote \/ RenderRow \/ RenderEnd
    \/ Send \/ Mark \/ GiveUp \/ DrainEnd

Next == Host \/ PhoneSends \/ Start \/ Works \/ Crash

(* The worker's loop goes on and the rate limiter does not deny for ever.    *)
(* That a worker which ended is started again is not assumed: its host does  *)
(* not observe the end.                                                      *)
Fairness == WF_vars(Works) /\ SF_vars(Send)

Spec == Init /\ [][Next]_vars /\ Fairness

-----------------------------------------------------------------------------
(* Properties *)

TypeOK ==
    /\ requests \in [Request -> {"none", "waiting", "over"}]
    /\ outbox \in Seq(Row)
    /\ \A i \in DOMAIN outbox : outbox[i].attempts <= MaxAttempts
    /\ batches \in Nat
    /\ inbox \subseteq 1..sent
    /\ offset \in 0..sent
    /\ sent \in 0..MaxUpdates
    /\ shown \subseteq 1..batches
    /\ pc \in {"down", "poll", "handle", "drain", "render", "mark"}
    /\ fetched \in Seq(1..sent)
    /\ todo \in Seq(Row)
    /\ outcome \in {"none", "ok", "uncertain", "refused"}
    /\ crashes \in 0..MaxCrashes

(* Nobody is asked to approve what he was not shown: the buttons of a        *)
(* rendering reach the phone only when every message of its own context was  *)
(* sent and none was refused, whatever crashed, was retried or was rendered  *)
(* again between ("a keyboard is never sent before its context").            *)
KeyboardAfterItsText ==
    \A b \in shown :
        /\ Cardinality(Context(b)) = Chunks
        /\ ContextReady(b)

(* A question that was queued for the phone gets there, or ends as a row     *)
(* that visibly failed and that /details can show again, unless the worker   *)
(* stays down: no crash loses it.                                            *)
Queued(r) == \E i \in DOMAIN outbox : outbox[i].kind = "approval" /\ outbox[i].req = r
Shown(r) == \E i \in Keyboards(r) : outbox[i].batch \in shown

AskedIsShown ==
    \A r \in Request :
        []<>(Queued(r) => Shown(r) \/ KeyboardFailed(r) \/ ~Waits(r) \/ pc = "down")
=============================================================================
