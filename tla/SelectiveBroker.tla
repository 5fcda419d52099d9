--------------------------- MODULE SelectiveBroker ---------------------------
(***************************************************************************)
(* The inbound half of src/selective-telegram-broker.mjs: Telegram updates *)
(* become commands in the store.  Telegram keeps updates until getUpdates  *)
(* is called with a higher offset and may deliver one again; the store     *)
(* keeps the inbox, the offset and the commands; selection, held prompt    *)
(* and queued replies live in the memory of the broker process, which may  *)
(* die between any two steps.                                              *)
(*                                                                         *)
(* Texts are the update ids that brought them.  Of the row of a session    *)
(* the broker sees its state, while it is live, and its short id, a number *)
(* that a new row never reuses (TuiStore: two rows never share one).  A    *)
(* row that is stale or absent is "off"; a stale one may come back; one    *)
(* that is 'waiting' is to the broker as good as 'connected'.  What a      *)
(* reply says is left out; its buttons, which return as taps, are not.     *)
(* A voice message that was transcribed is a text; /sessions, like any     *)
(* slash command without effect, is "help".                                *)
(***************************************************************************)
EXTENDS Naturals, Sequences, FiniteSets

CONSTANTS Session, NoSession,  \* tracking ids
          Typing,      \* what the user types
          Tapping,     \* the buttons the user taps
          MaxReplies,  \* MAX_PENDING_REPLIES
          MaxUpdates, MaxRows, MaxTroubles  \* bounds

ASSUME NoSessionAssumption == NoSession \notin Session
ASSUME BoundsAssumption ==
    {MaxReplies, MaxUpdates, MaxRows, MaxTroubles} \subseteq Nat

TextKinds == {"prompt", "steer", "followup"}
RoutedKinds == TextKinds \cup {"status", "abort", "disconnect"}
Typings == {"text", "slash", "stranger", "help", "start", "use"} \cup RoutedKinds

Buttons == RoutedKinds \cup
    {"select", "send", "abort_prompt", "discard", "chooser", "ask", "cancel"}

ASSUME UserAssumption == Typing \subseteq Typings /\ Tapping \subseteq Buttons

VARIABLES
    row,       \* store: state and short id of each session's row
    handled,   \* store: inbox ids
    offset,    \* store: broker_transport_offset
    commands,  \* store: commands in the order they were enqueued
    sent,      \* Telegram: the updates, in update_id order
    shown,     \* Telegram: buttons under messages the user can still tap
    fetched,   \* memory: update ids of the batch in hand
    selected,  \* memory: #selectedTrackingId
    pending,   \* memory: #pendingPrompt, as its generation; 0 is null
    replies,   \* memory: #pendingReplies, as the buttons of each
    held,      \* history: the text of each generation ever made
    crashes, faults  \* how often the process died, a transaction failed

store == <<row, handled, offset, commands>>
memory == <<fetched, selected, pending, replies>>
vars == <<row, handled, offset, commands, sent, shown, fetched, selected,
          pending, replies, held, crashes, faults>>

Button == [op : Buttons, t : Session \cup {NoSession}, sid : Nat, gen : Nat]

On(op, t, g) == [op |-> op, t |-> t, sid |-> row[t].sid, gen |-> g]
Off(op, g) == [op |-> op, t |-> NoSession, sid |-> 0, gen |-> g]
-----------------------------------------------------------------------------
(* Sessions as the broker sees them *)

Live == {t \in Session : row[t].state \in {"connected", "busy"}}

(* The one live session whose short id is on the button or in the command.   *)
Names(b) == b.t \in Live /\ row[b.t].sid = b.sid

(* #resolveTarget without a short id: the selection while it is live, else,   *)
(* where that is allowed, the only live session.  The selection follows.      *)
Target(allowSole) ==
    IF selected \in Live THEN selected
    ELSE IF allowSole /\ Cardinality(Live) = 1 THEN CHOOSE t \in Live : TRUE
    ELSE NoSession

(* #chooserReply: the buttons send the held prompt p, or, without, select.    *)
Chooser(p) ==
    IF Live = {} THEN {}
    ELSE {On(IF p = 0 THEN "select" ELSE "send", t, p) : t \in Live}
           \cup {Off("chooser", 0)}

BusyCard(t, g) ==
    {On(op, t, g) : op \in {"followup", "steer", "abort_prompt"}}
      \cup {Off("discard", g)}

(* #sessionActionKeyboard: Stop is offered to a busy session only.            *)
SessionCard(t, busy) ==
    {On(op, t, 0) : op \in {"status", "ask"} \cup IF busy THEN {"abort"} ELSE {}}
      \cup {Off("chooser", 0)}
-----------------------------------------------------------------------------
(* Planning: what an update asks for, given the store and the memory *)

Fresh == Len(held) + 1

(* A reply with these buttons and no other effect.                            *)
Answer(buttons) == [cmds |-> <<>>, replies |-> <<buttons>>,
                    sel |-> selected, pend |-> pending]
Ignore == [Answer({}) EXCEPT !.replies = <<>>]

Cmd(t, kind, text) == [t |-> t, kind |-> kind, text |-> text]

(* #planFreeText.  A text with a line that begins with "/" is refused.        *)
FreeText(id, slash) ==
    LET t == Target(TRUE)
        o == [Answer({}) EXCEPT !.sel = t]
    IN  CASE slash \/ Live = {} -> o
          [] ~slash /\ Live # {} /\ t = NoSession ->
               [o EXCEPT !.pend = Fresh, !.replies = <<Chooser(Fresh)>>]
          [] ~slash /\ t # NoSession /\ row[t].state = "busy" ->
               [o EXCEPT !.pend = Fresh, !.replies = <<BusyCard(t, Fresh)>>]
          [] OTHER ->
               [o EXCEPT !.pend = 0, !.cmds = <<Cmd(t, "prompt", id)>>]

(* #planRouted: /send, /steer, /followup, /abort, /status, /disconnect.       *)
Routed(id, b) ==
    LET t == CASE b.t = NoSession -> Target(b.op = "status")
               [] b.t # NoSession /\ Names(b) -> b.t
               [] OTHER -> NoSession
        o == [Answer({}) EXCEPT !.sel = IF b.t = NoSession THEN t ELSE selected]
    IN  IF t = NoSession THEN o
        ELSE [o EXCEPT !.cmds =
                 <<Cmd(t, b.op, IF b.op \in TextKinds THEN id ELSE 0)>>]

(* #planStart                                                                 *)
Start ==
    LET sole == CHOOSE t \in Live : TRUE
    IN  CASE Live = {} -> [Answer({}) EXCEPT !.sel = NoSession]
          [] Cardinality(Live) = 1 ->
               [Answer(SessionCard(sole, row[sole].state = "busy")) EXCEPT !.sel = sole]
          [] OTHER -> Answer(Chooser(pending))

(* #planUse                                                                   *)
Use(b) == IF Names(b) THEN [Answer({}) EXCEPT !.sel = b.t] ELSE Answer({})

(* Plausible bug: any held prompt will do for a button that sends one.        *)
HoldsAnything(b) == pending # 0

(* pending !== null and pending.pendingId === parsed.pendingId                *)
Holds(b) == pending # 0 /\ b.gen = pending

(* The commands a button sends with the held text.                            *)
HeldCommands(b) ==
    CASE b.op = "send" -> <<Cmd(b.t, "prompt", held[pending])>>
      [] b.op = "abort_prompt" ->
           <<Cmd(b.t, "abort", 0), Cmd(b.t, "prompt", held[pending])>>
      [] OTHER -> <<Cmd(b.t, b.op, held[pending])>>

(* Plausible bug: the held prompt stays after it was sent.                    *)
SendHeldKeepingIt(b) ==
    [Answer({}) EXCEPT !.sel = b.t, !.cmds = HeldCommands(b)]

(* v1:p, v1:f, v1:t, v1:a, with an acknowledgement for each command.          *)
SendHeld(b) ==
    [Answer({}) EXCEPT !.sel = b.t, !.pend = 0, !.cmds = HeldCommands(b),
                       !.replies = [i \in DOMAIN HeldCommands(b) |-> {}]]

(* Plausible bug: the held prompt is dropped when its target has closed.      *)
FallBackDropping == [Answer(Chooser(0)) EXCEPT !.pend = 0]

(* Dead target or stale generation: the safest current chooser.               *)
FallBack == Answer(Chooser(pending))

(* #planCallback                                                              *)
Tap(b) ==
    CASE b.op = "cancel" -> Answer({})
      [] b.op = "discard" ->
           IF Holds(b) THEN [Answer({}) EXCEPT !.pend = 0] ELSE FallBack
      [] b.op \in {"send", "followup", "steer", "abort_prompt"} ->
           IF Holds(b) /\ Names(b) THEN SendHeld(b) ELSE FallBack
      [] b.op = "select" -> IF Names(b) THEN Use(b) ELSE FallBack
      [] b.op = "ask" ->
           IF Names(b) THEN Answer({On("disconnect", b.t, 0), Off("cancel", 0)})
           ELSE FallBack
      [] b.op \in {"status", "abort", "disconnect"} ->
           IF Names(b)
           THEN [Answer({}) EXCEPT !.sel = b.t, !.cmds = <<Cmd(b.t, b.op, 0)>>]
           ELSE FallBack
      [] OTHER -> FallBack

Plan(id) ==
    LET u == sent[id]
    IN  CASE u.by = "tap" -> Tap(u.on)
          [] u.by \in {"text", "slash"} -> FreeText(id, u.by = "slash")
          [] u.by \in RoutedKinds -> Routed(id, u.on)
          [] u.by = "use" -> Use(u.on)
          [] u.by = "start" -> Start
          [] u.by = "stranger" -> Ignore
          [] OTHER -> Answer({})

(* #planMessage takes a token of the inbound limiter; without one the update  *)
(* is consumed in silence.  Taps are not limited.                             *)
Plans(id) == {Plan(id)} \cup IF sent[id].by = "tap" THEN {} ELSE {Ignore}
-----------------------------------------------------------------------------
(* The broker process *)

(* getUpdates with the stored offset.                                         *)
Poll ==
    /\ fetched = {}
    /\ \E again \in SUBSET handled :
          /\ Cardinality(again) <= 1
          /\ fetched' = {i \in DOMAIN sent : i >= offset} \cup again
    /\ fetched' # {}
    /\ UNCHANGED <<store, sent, shown, selected, pending, replies, held,
                   crashes, faults>>

This == CHOOSE i \in fetched : \A j \in fetched : i <= j
NextInBatch == fetched' = fetched \ {This}

(* Plausible bug: the reply queue has no limit.                               *)
RememberEveryReply(o, id) ==
    /\ selected' = o.sel
    /\ pending' = o.pend
    /\ held' = IF o.pend = Fresh THEN Append(held, id) ELSE held
    /\ replies' = replies \o o.replies

(* What planning leaves in memory; a full reply queue drops the reply.        *)
Remember(o, id) ==
    /\ selected' = o.sel
    /\ pending' = o.pend
    /\ held' = IF o.pend = Fresh THEN Append(held, id) ELSE held
    /\ LET all == replies \o o.replies
       IN  replies' = IF Len(all) > MaxReplies THEN SubSeq(all, 1, MaxReplies)
                      ELSE all

(* advanceBrokerTransportOffset never moves backwards.                        *)
Advance(id) == offset' = IF id + 1 > offset THEN id + 1 ELSE offset

(* Plausible bug: the inbox id is not looked at.                              *)
HandleAgain ==
    /\ fetched # {}
    /\ \E o \in Plans(This) :
          /\ Remember(o, This)
          /\ commands' = commands \o o.cmds
    /\ handled' = handled \cup {This}
    /\ Advance(This)
    /\ NextInBatch
    /\ UNCHANGED <<row, sent, shown, crashes, faults>>

(* Plausible bug: the receipt of a rate-limited update is not recorded.       *)
HandleUnlessThrottled ==
    /\ fetched # {} /\ This \notin handled
    /\ \E o \in Plans(This) :
          /\ Remember(o, This)
          /\ commands' = commands \o o.cmds
          /\ handled' = IF o = Ignore THEN handled ELSE handled \cup {This}
    /\ Advance(This)
    /\ NextInBatch
    /\ UNCHANGED <<row, sent, shown, crashes, faults>>

(* handleUpdate: receipt, plan, commands and offset in one transaction.       *)
HandleUpdate ==
    /\ fetched # {} /\ This \notin handled
    /\ \E o \in Plans(This) :
          /\ Remember(o, This)
          /\ commands' = commands \o o.cmds
    /\ handled' = handled \cup {This}
    /\ Advance(This)
    /\ NextInBatch
    /\ UNCHANGED <<row, sent, shown, crashes, faults>>

(* A redelivered update: recordInbox says so, and that is all.                *)
SkipDuplicate ==
    /\ fetched # {} /\ This \in handled
    /\ NextInBatch
    /\ UNCHANGED <<store, sent, shown, selected, pending, replies, held,
                   crashes, faults>>

(* The store throws inside the transaction or at its commit: everything is    *)
(* rolled back but the memory, of which the handler may have changed a part   *)
(* by then: the selection and a message to hold before any reply is queued,   *)
(* what it drops perhaps after.  pollOnce catches and goes on.                *)
HandleThrows ==
    /\ fetched # {} /\ This \notin handled
    /\ crashes + faults < MaxTroubles /\ faults' = faults + 1
    /\ \E o \in Plans(This) : \E n \in 0..Len(o.replies) :
          \E s \in {selected, o.sel}, p \in {pending, o.pend} :
             /\ n > 0 => s = o.sel /\ (o.pend = Fresh => p = Fresh)
             /\ Remember([o EXCEPT !.replies = SubSeq(@, 1, n), !.sel = s, !.pend = p],
                         This)
    /\ NextInBatch
    /\ UNCHANGED <<store, sent, shown, crashes>>

(* For a message, a throw while planning or enqueueing is caught inside the   *)
(* transaction, which then commits without the command and its replies.       *)
MessageSwallowed ==
    /\ fetched # {} /\ This \notin handled /\ sent[This].by # "tap"
    /\ crashes + faults < MaxTroubles /\ faults' = faults + 1
    /\ \E o \in Plans(This) : Remember([o EXCEPT !.replies = <<>>], This)
    /\ handled' = handled \cup {This}
    /\ Advance(This)
    /\ NextInBatch
    /\ UNCHANGED <<row, commands, sent, shown, crashes>>

(* flushReplies: sent, uncertain or failed, the reply leaves the queue; a     *)
(* rate-limited one waits.  One that never arrived is one never tapped.       *)
FlushReply ==
    /\ fetched = {} /\ replies # <<>>
    /\ shown' = shown \cup Head(replies)
    /\ replies' = Tail(replies)
    /\ UNCHANGED <<store, sent, fetched, selected, pending, held, crashes, faults>>

(* #refreshIdentities, at the start of every drain.                           *)
RefreshIdentities ==
    /\ fetched = {}
    /\ selected \notin Live
    /\ selected' = NoSession
    /\ UNCHANGED <<store, sent, shown, fetched, pending, replies, held, crashes,
                   faults>>

(* The process dies and is started again.                                     *)
Restart ==
    /\ crashes + faults < MaxTroubles /\ crashes' = crashes + 1
    /\ fetched' = {} /\ selected' = NoSession /\ pending' = 0 /\ replies' = <<>>
    /\ UNCHANGED <<store, sent, shown, held, faults>>
-----------------------------------------------------------------------------
(* The user and the Pi sessions *)

Message(by, b) == [by |-> by, on |-> b]

(* Typed short ids are those of current rows, or none.                        *)
Typed ==
    {Message(by, Off("send", 0)) :
        by \in Typing \cap {"text", "slash", "stranger", "help", "start"}}
    \cup {Message(by, On("send", t, 0)) : by \in Typing \cap {"use"}, t \in Session}
    \cup UNION {{Message(by, On(by, t, 0)) : t \in Session}
                  \cup {Message(by, Off(by, 0))} : by \in Typing \cap RoutedKinds}

(* The cards of the event drain carry the buttons of a SessionCard too; any    *)
(* row there ever was has had one.                                            *)
EventCards == UNION {SessionCard(t, TRUE) : t \in {u \in Session : row[u].sid > 0}}
Tappable == {b \in shown \cup EventCards : b.op \in Tapping}

UserSends(u) ==
    /\ Len(sent) < MaxUpdates
    /\ sent' = Append(sent, u)
    /\ UNCHANGED <<store, memory, shown, held, crashes, faults>>

RowState == {"off", "connected", "busy"}

(* A row is inserted as 'connected' with a new short id; later its state is   *)
(* pushed, it goes stale or is deleted, or a stale one has a heartbeat again. *)
RowChanges(t, st, new) ==
    /\ row[t].state # st
    /\ IF new THEN row[t].state = "off" /\ st = "connected" /\ row[t].sid < MaxRows
              ELSE row[t].sid > 0
    /\ row' = [row EXCEPT ![t] = [state |-> st,
                                  sid |-> IF new THEN @.sid + 1 ELSE @.sid]]
    /\ UNCHANGED <<handled, offset, commands, memory, sent, shown, held, crashes,
                   faults>>

Init ==
    /\ row = [t \in Session |-> [state |-> "off", sid |-> 0]]
    /\ handled = {} /\ offset = 0 /\ commands = <<>>
    /\ sent = <<>> /\ shown = {}
    /\ fetched = {} /\ selected = NoSession /\ pending = 0 /\ replies = <<>>
    /\ held = <<>>
    /\ crashes = 0 /\ faults = 0

Work == Poll \/ HandleUpdate \/ SkipDuplicate \/ FlushReply

Next ==
    \/ Work
    \/ HandleThrows \/ MessageSwallowed \/ RefreshIdentities \/ Restart
    \/ \E u \in Typed : UserSends(u)
    \/ \E b \in Tappable : UserSends(Message("tap", b))
    \/ \E t \in Session, st \in RowState, new \in BOOLEAN : RowChanges(t, st, new)

Spec == Init /\ [][Next]_vars

(* The run loop polls, handles what it got, and flushes, until it is stopped. *)
FairSpec == Spec /\ WF_vars(Work)
-----------------------------------------------------------------------------
(* Properties *)

TypeOK ==
    /\ row \in [Session -> [state : RowState, sid : 0..MaxRows]]
    /\ handled \subseteq DOMAIN sent /\ fetched \subseteq DOMAIN sent
    /\ offset \in 0..(MaxUpdates + 1)
    /\ \A i \in DOMAIN commands :
          commands[i] \in [t : Session, kind : RoutedKinds, text : 0..MaxUpdates]
    /\ selected \in Session \cup {NoSession}
    /\ pending \in 0..Len(held)
    /\ \A g \in DOMAIN held : held[g] \in DOMAIN sent
    /\ Len(replies) <= MaxReplies /\ \A i \in DOMAIN replies : replies[i] \subseteq Button
    /\ shown \subseteq Button
    /\ {crashes, faults} \subseteq 0..MaxTroubles

(* The text of one update reaches at most one session, at most once, through  *)
(* redeliveries, second taps, old keyboards, restarts and failing             *)
(* transactions.                                                              *)
DispatchedOnce ==
    \A i, j \in DOMAIN commands :
        commands[i].text # 0 /\ commands[i].text = commands[j].text => i = j

(* A button sends the message its own card was about and nothing else: a      *)
(* keyboard left over from an earlier message or an earlier broker never      *)
(* sends the message held now, and only to the session it names.              *)
CardSendsItsOwnText ==
    [][\A i \in (Len(commands) + 1)..Len(commands') :
          LET u == sent[This]
          IN  u.by = "tap" =>
                /\ commands'[i].t = u.on.t
                /\ commands'[i].text # 0 => commands'[i].text = held[u.on.gen]
      ]_vars

(* A held message leaves the broker's memory only because it was sent, was    *)
(* discarded by its own button, or gave way to a newer message; a tap on a    *)
(* dead or old keyboard does not lose it.  A restart does, and so does a      *)
(* transaction that fails.                                                    *)
HeldNotLost ==
    [][pending # 0 /\ pending' # pending /\ crashes' = crashes /\ faults' = faults =>
          \/ \E i \in (Len(commands) + 1)..Len(commands') :
                commands'[i].text = held[pending]
          \/ sent[This].by = "text"
          \/ sent[This].by = "tap" /\ sent[This].on = Off("discard", pending)]_vars

(* "The offset never advances past unhandled work": Telegram forgets an       *)
(* update only after it was handled.                                          *)
OffsetBehindInbox == \A i \in DOMAIN sent : i < offset => i \in handled

(* The same, as long as no transaction has failed.                            *)
OffsetBehindInboxUnlessFaulty == faults = 0 => OffsetBehindInbox

(* Every update is handled in the end, whatever restarts intervene.           *)
UpdatesHandled ==
    \A i \in 1..MaxUpdates :
        i <= Len(sent) ~> i \in handled \/ faults > 0
=============================================================================
