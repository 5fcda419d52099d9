------------------------ MODULE SelectiveBroker_proofs ------------------------
(***************************************************************************)
(* Theorems about SelectiveBroker, for any sessions, any choice of what    *)
(* the user types and taps, and any bounds on updates, rows and troubles.  *)
(***************************************************************************)
EXTENDS SelectiveBroker, FiniteSetTheorems, WellFoundedInduction, TLAPS

-----------------------------------------------------------------------------
(* The inductive invariant, in five parts.  TLC checked it first.            *)

Command == [t : Session, kind : RoutedKinds, text : Nat]

ShapeInv ==
    /\ sent \in Seq([by : Typings \cup {"tap"}, on : Button])
    /\ Len(sent) <= MaxUpdates
    /\ \A i \in DOMAIN sent : sent[i].by \in RoutedKinds => sent[i].on.op = sent[i].by
    /\ commands \in Seq(Command)
    /\ held \in Seq(Nat)
    /\ replies \in Seq(SUBSET Button)

(* A button is of one of the first n held messages, or of none.              *)
CardOK(b, n) == b.gen <= n /\ (b.op = "discard" => b = Off("discard", b.gen))

(* A button was tapped after the message it is about had been sent; only a    *)
(* text is ever held.                                                         *)
CardInv ==
    /\ \A i \in DOMAIN replies : \A b \in replies[i] : CardOK(b, Len(held))
    /\ \A b \in shown : CardOK(b, Len(held))
    /\ \A i \in DOMAIN sent :
          /\ CardOK(sent[i].on, Len(held))
          /\ sent[i].on.gen # 0 => held[sent[i].on.gen] < i
    /\ \A g \in DOMAIN held : sent[held[g]].by = "text"

(* What is left of the batch is handled or not yet behind the offset; while   *)
(* no transaction has failed, it lacks nothing older than its newest update.  *)
BatchInv ==
    /\ offset <= Len(sent) + 1
    /\ \A i \in handled : i < offset
    /\ \A i \in fetched : i \in handled \/ offset <= i
    /\ faults = 0 => \A i \in DOMAIN sent :
          offset <= i => i \in fetched \/ \A j \in fetched : j < i

(* What was sent on is behind the offset; what is held was not sent on.       *)
OnceInv ==
    /\ \A i \in DOMAIN commands : commands[i].text # 0 => commands[i].text < offset
    /\ pending # 0 => \A i \in DOMAIN commands : commands[i].text # held[pending]

IInv == /\ TypeOK /\ ShapeInv /\ CardInv /\ BatchInv /\ OnceInv
        /\ OffsetBehindInboxUnlessFaulty /\ DispatchedOnce

-----------------------------------------------------------------------------
(* Sessions and buttons *)

RowsTyped == row \in [Session -> [state : RowState, sid : 0..MaxRows]]

(* What planning reads, with its types.                                      *)
Given(id) ==
    /\ RowsTyped
    /\ held \in Seq(Nat) /\ pending \in 0..Len(held)
    /\ selected \in Session \cup {NoSession}
    /\ id \in Nat \ {0}
    /\ sent[id] \in [by : Typings \cup {"tap"}, on : Button]
    /\ CardOK(sent[id].on, Len(held))
    /\ sent[id].by \in RoutedKinds => sent[id].on.op = sent[id].by

LEMMA Constants == MaxReplies \in Nat /\ MaxUpdates \in Nat /\ MaxRows \in Nat /\ MaxTroubles \in Nat
  BY BoundsAssumption

LEMMA Generations ==
    ASSUME NEW id, Given(id)
    PROVE  /\ Len(held) \in Nat /\ Fresh = Len(held) + 1 /\ Fresh \in Nat
           /\ pending \in Nat /\ pending <= Len(held) /\ pending # Fresh
           /\ selected \in Session \cup {NoSession} /\ RowsTyped
  BY DEF Given, Fresh

LEMMA Item ==
    ASSUME NEW S, NEW q \in Seq(S), NEW i \in DOMAIN q
    PROVE  q[i] \in S
  OBVIOUS

LEMMA OnIsButton ==
    ASSUME RowsTyped, NEW op \in Buttons, NEW t \in Session, NEW g \in Nat
    PROVE  On(op, t, g) \in Button
  <1>1. row[t] \in [state : RowState, sid : 0..MaxRows]
    BY DEF RowsTyped
  <1>2. row[t].sid \in Nat
    BY <1>1, Constants
  <1> QED BY <1>2 DEF On, Button

LEMMA OffIsButton ==
    ASSUME NEW op \in Buttons, NEW g \in Nat
    PROVE  Off(op, g) \in Button
  BY DEF Off, Button

(* The keyboards the broker builds are about the message they are given.     *)
LEMMA ChooserCards ==
    ASSUME RowsTyped, NEW p \in Nat
    PROVE  Chooser(p) \subseteq Button /\ \A b \in Chooser(p) : CardOK(b, p)
  <1>1. SUFFICES ASSUME NEW b \in Chooser(p) PROVE b \in Button /\ CardOK(b, p)
    OBVIOUS
  <1>2. CASE b = Off("chooser", 0)
    <2>1. b \in Button
      BY <1>2, OffIsButton DEF Buttons
    <2> QED BY <1>2, <2>1 DEF CardOK, Off
  <1>3. ASSUME NEW t \in Live, b = On(IF p = 0 THEN "select" ELSE "send", t, p)
        PROVE  b \in Button /\ CardOK(b, p)
    <2>1. t \in Session
      BY DEF Live
    <2>2. b \in Button
      BY <1>3, <2>1, OnIsButton DEF Buttons
    <2> QED BY <1>3, <2>2 DEF CardOK, On
  <1> QED BY <1>2, <1>3 DEF Chooser

LEMMA BusyCards ==
    ASSUME RowsTyped, NEW t \in Session, NEW g \in Nat
    PROVE  BusyCard(t, g) \subseteq Button /\ \A b \in BusyCard(t, g) : CardOK(b, g)
  <1>1. SUFFICES ASSUME NEW b \in BusyCard(t, g) PROVE b \in Button /\ CardOK(b, g)
    OBVIOUS
  <1>2. CASE b = Off("discard", g)
    <2>1. b \in Button
      BY <1>2, OffIsButton DEF Buttons
    <2> QED BY <1>2, <2>1 DEF CardOK, Off
  <1>3. ASSUME NEW op \in {"followup", "steer", "abort_prompt"}, b = On(op, t, g)
        PROVE  b \in Button /\ CardOK(b, g)
    <2>1. op \in Buttons /\ op # "discard"
      BY DEF Buttons, RoutedKinds, TextKinds
    <2>2. b \in Button
      BY <1>3, <2>1, OnIsButton
    <2> QED BY <1>3, <2>1, <2>2 DEF CardOK, On
  <1> QED BY <1>2, <1>3 DEF BusyCard

LEMMA SessionCards ==
    ASSUME RowsTyped, NEW t \in Session, NEW busy \in BOOLEAN
    PROVE  /\ SessionCard(t, busy) \subseteq Button
           /\ \A b \in SessionCard(t, busy) : CardOK(b, 0)
  <1>1. SUFFICES ASSUME NEW b \in SessionCard(t, busy) PROVE b \in Button /\ CardOK(b, 0)
    OBVIOUS
  <1>2. CASE b = Off("chooser", 0)
    <2>1. b \in Button
      BY <1>2, OffIsButton DEF Buttons
    <2> QED BY <1>2, <2>1 DEF CardOK, Off
  <1>3. ASSUME NEW op \in {"status", "ask", "abort"}, b = On(op, t, 0)
        PROVE  b \in Button /\ CardOK(b, 0)
    <2>1. op \in Buttons /\ op # "discard"
      BY DEF Buttons, RoutedKinds, TextKinds
    <2>2. b \in Button
      BY <1>3, <2>1, OnIsButton
    <2> QED BY <1>3, <2>1, <2>2 DEF CardOK, On
  <1> QED BY <1>2, <1>3 DEF SessionCard

LEMMA AskCards ==
    ASSUME RowsTyped, NEW t \in Session,
           NEW B, B = {On("disconnect", t, 0), Off("cancel", 0)}
    PROVE  B \subseteq Button /\ \A b \in B : CardOK(b, 0)
  <1>1. On("disconnect", t, 0) \in Button /\ Off("cancel", 0) \in Button
    BY OnIsButton, OffIsButton DEF Buttons, RoutedKinds
  <1>2. CardOK(On("disconnect", t, 0), 0) /\ CardOK(Off("cancel", 0), 0)
    BY DEF CardOK, On, Off
  <1> QED BY <1>1, <1>2

(* A button of an earlier message stays one when more are held.              *)
LEMMA CardsLater ==
    ASSUME NEW b \in Button, NEW m \in Nat, NEW n \in Nat, m <= n, CardOK(b, m)
    PROVE  CardOK(b, n)
  <1>1. b.gen \in Nat
    BY DEF Button
  <1> QED BY <1>1 DEF CardOK

LEMMA TargetIsLive ==
    ASSUME NEW id, Given(id), NEW allow \in BOOLEAN
    PROVE  Target(allow) \in Live \cup {NoSession} /\ Live \subseteq Session
  <1>1. Live \subseteq Session
    BY DEF Live
  <1>2. ASSUME Cardinality(Live) = 1 PROVE (CHOOSE t \in Live : TRUE) \in Live
    <2>1. Live # {}
      BY <1>2, FS_EmptySet
    <2> QED BY <2>1
  <1> QED BY <1>1, <1>2 DEF Target

-----------------------------------------------------------------------------
(* Planning *)

(* What an outcome does to the broker's memory.                              *)
MemoOK(o, id) ==
    /\ o.sel \in Session \cup {NoSession}
    /\ o.pend \in {0, pending, Fresh}
    /\ o.pend = Fresh => sent[id].by = "text"
    /\ o.replies \in Seq(SUBSET Button)
    /\ \A i \in DOMAIN o.replies : \A b \in o.replies[i] :
          CardOK(b, IF o.pend = Fresh THEN Fresh ELSE Len(held))

(* The commands of an outcome carry the text of the update, or the held one.  *)
CmdsOK(o, id) ==
    /\ o.cmds \in Seq(Command)
    /\ \A i, j \in DOMAIN o.cmds : o.cmds[i].text # 0 /\ o.cmds[j].text # 0 => i = j
    /\ \A i \in DOMAIN o.cmds :
          IF sent[id].by = "tap"
          THEN /\ o.cmds[i].t = sent[id].on.t
               /\ o.cmds[i].text # 0 =>
                     /\ pending # 0 /\ o.pend = 0 /\ sent[id].on.gen = pending
                     /\ o.cmds[i].text = held[pending]
          ELSE /\ o.cmds[i].text \in {0, id}
               /\ sent[id].by = "text" => o.pend = 0

(* A held message is dropped only by what may drop it.                       *)
DropOK(o, id) ==
    pending # 0 /\ o.pend # pending =>
        \/ \E i \in DOMAIN o.cmds : o.cmds[i].text = held[pending]
        \/ sent[id].by = "text"
        \/ sent[id].by = "tap" /\ sent[id].on = Off("discard", pending)

Sound(o, id) == MemoOK(o, id) /\ CmdsOK(o, id) /\ DropOK(o, id)

(* An answer that holds, drops and sends nothing.                            *)
LEMMA AnswerSound ==
    ASSUME NEW id, Given(id), NEW R \in Seq(SUBSET Button),
           \A i \in DOMAIN R : \A b \in R[i] : CardOK(b, Len(held)),
           NEW s \in Session \cup {NoSession},
           NEW o, o = [cmds |-> <<>>, replies |-> R, sel |-> s, pend |-> pending]
    PROVE  Sound(o, id)
  <1>1. /\ o.cmds = <<>> /\ o.replies = R /\ o.sel = s /\ o.pend = pending
        /\ <<>> \in Seq(Command) /\ DOMAIN <<>> = {}
    OBVIOUS
  <1>2. pending # Fresh
    BY DEF Given, Fresh
  <1>3. MemoOK(o, id)
    BY <1>1, <1>2 DEF MemoOK
  <1>4. CmdsOK(o, id)
    BY <1>1 DEF CmdsOK
  <1>5. DropOK(o, id)
    BY <1>1 DEF DropOK
  <1> QED BY <1>3, <1>4, <1>5 DEF Sound

LEMMA ReplySound ==
    ASSUME NEW id, Given(id), NEW B \in SUBSET Button, NEW m \in Nat, m <= Len(held),
           \A b \in B : CardOK(b, m),
           NEW s \in Session \cup {NoSession},
           NEW o, o = [Answer(B) EXCEPT !.sel = s]
    PROVE  Sound(o, id)
  <1>1. \A b \in B : CardOK(b, Len(held))
    BY CardsLater DEF Given
  <1>2. o = [cmds |-> <<>>, replies |-> <<B>>, sel |-> s, pend |-> pending]
    BY DEF Answer
  <1>3. <<B>> \in Seq(SUBSET Button) /\ DOMAIN <<B>> = {1} /\ <<B>>[1] = B
    OBVIOUS
  <1>4. \A i \in DOMAIN <<B>> : \A b \in <<B>>[i] : CardOK(b, Len(held))
    BY <1>1, <1>3
  <1> HIDE DEF Sound
  <1> QED BY <1>2, <1>3, <1>4, AnswerSound

LEMMA PlainSound ==
    ASSUME NEW id, Given(id), NEW B \in SUBSET Button, NEW m \in Nat, m <= Len(held),
           \A b \in B : CardOK(b, m)
    PROVE  Sound(Answer(B), id)
  <1>1. Answer(B) = [Answer(B) EXCEPT !.sel = selected]
    BY DEF Answer
  <1>2. selected \in Session \cup {NoSession}
    BY DEF Given
  <1> QED BY <1>1, <1>2, ReplySound

LEMMA EmptyAnswerSound ==
    ASSUME NEW id, Given(id)
    PROVE  /\ Sound(Answer({}), id)
           /\ \A s \in Session \cup {NoSession} : Sound([Answer({}) EXCEPT !.sel = s], id)
  <1>1. {} \in SUBSET Button /\ 0 \in Nat /\ 0 <= Len(held) /\ \A b \in {} : CardOK(b, 0)
    BY DEF Given
  <1>2. Sound(Answer({}), id)
    BY <1>1, PlainSound
  <1>3. ASSUME NEW s \in Session \cup {NoSession}
        PROVE  Sound([Answer({}) EXCEPT !.sel = s], id)
    BY <1>1, ReplySound
  <1> QED BY <1>2, <1>3

LEMMA IgnoreSound ==
    ASSUME NEW id, Given(id)
    PROVE  Sound(Ignore, id)
  <1>1. Ignore = [cmds |-> <<>>, replies |-> <<>>, sel |-> selected, pend |-> pending]
    BY DEF Ignore, Answer
  <1>2. /\ <<>> \in Seq(SUBSET Button) /\ selected \in Session \cup {NoSession}
        /\ \A i \in DOMAIN <<>> : \A b \in <<>>[i] : CardOK(b, Len(held))
    BY DEF Given
  <1> QED BY <1>1, <1>2, AnswerSound

(* One command about a live session.                                         *)
LEMMA CommandTyped ==
    ASSUME NEW t \in Session, NEW k \in RoutedKinds, NEW x \in Nat
    PROVE  /\ <<Cmd(t, k, x)>> \in Seq(Command) /\ DOMAIN <<Cmd(t, k, x)>> = {1}
           /\ <<Cmd(t, k, x)>>[1] = [t |-> t, kind |-> k, text |-> x]
  BY DEF Cmd, Command

(* A text that is held behind a keyboard.                                    *)
LEMMA HoldSound ==
    ASSUME NEW id, Given(id), sent[id].by = "text", NEW s \in Session \cup {NoSession},
           NEW B \in SUBSET Button, \A b \in B : CardOK(b, Fresh),
           NEW o, o = [cmds |-> <<>>, replies |-> <<B>>, sel |-> s, pend |-> Fresh]
    PROVE  Sound(o, id)
  <1>1. /\ o.cmds = <<>> /\ o.replies = <<B>> /\ o.sel = s /\ o.pend = Fresh
        /\ <<>> \in Seq(Command) /\ DOMAIN <<>> = {}
        /\ <<B>> \in Seq(SUBSET Button) /\ DOMAIN <<B>> = {1} /\ <<B>>[1] = B
    OBVIOUS
  <1>2. MemoOK(o, id)
    BY <1>1 DEF MemoOK
  <1>3. CmdsOK(o, id)
    BY <1>1 DEF CmdsOK
  <1>4. DropOK(o, id)
    BY <1>1 DEF DropOK
  <1> QED BY <1>2, <1>3, <1>4 DEF Sound

(* A message that is sent on at once: a text takes the place of what is held, *)
(* a slash command leaves that alone.                                         *)
LEMMA DirectSound ==
    ASSUME NEW id, Given(id), sent[id].by # "tap", NEW t \in Session,
           NEW k \in RoutedKinds, NEW x \in {0, id}, NEW s \in Session \cup {NoSession},
           NEW p \in {0, pending}, sent[id].by = "text" => p = 0,
           sent[id].by # "text" => p = pending,
           NEW o, o = [cmds |-> <<Cmd(t, k, x)>>, replies |-> <<{}>>, sel |-> s, pend |-> p]
    PROVE  Sound(o, id)
  <1>1. /\ o.cmds = <<Cmd(t, k, x)>> /\ o.replies = <<{}>> /\ o.sel = s /\ o.pend = p
        /\ <<{}>> \in Seq(SUBSET Button) /\ DOMAIN <<{}>> = {1} /\ <<{}>>[1] = {}
    OBVIOUS
  <1>2. /\ o.cmds \in Seq(Command) /\ DOMAIN o.cmds = {1}
        /\ o.cmds[1] = [t |-> t, kind |-> k, text |-> x]
    BY <1>1, CommandTyped DEF Given
  <1>3. p # Fresh
    BY DEF Given, Fresh
  <1>4. MemoOK(o, id)
    BY <1>1, <1>3 DEF MemoOK
  <1>5. CmdsOK(o, id)
    BY <1>1, <1>2 DEF CmdsOK
  <1>6. DropOK(o, id)
    BY <1>1 DEF DropOK
  <1> QED BY <1>4, <1>5, <1>6 DEF Sound

LEMMA FreeTextSound ==
    ASSUME NEW id, Given(id), sent[id].by \in {"text", "slash"}
    PROVE  Sound(FreeText(id, sent[id].by = "slash"), id)
  <1> DEFINE slash == sent[id].by = "slash"
             t == Target(TRUE)
             o == [Answer({}) EXCEPT !.sel = t]
  <1>1. t \in Live \cup {NoSession} /\ t \in Session \cup {NoSession} /\ Live \subseteq Session
    BY TargetIsLive
  <1>2. NoSession \notin Live
    BY <1>1, NoSessionAssumption
  <1>3. CASE slash \/ Live = {}
    <2>1. Live = {} => t = NoSession
      BY <1>1
    <2>2. FreeText(id, slash) = o
      BY <1>3, <2>1 DEF FreeText
    <2> HIDE DEF t
    <2> QED BY <1>1, <2>2, EmptyAnswerSound
  <1>4. CASE ~slash /\ Live # {} /\ t = NoSession
    <2>1. FreeText(id, slash) = [o EXCEPT !.pend = Fresh, !.replies = <<Chooser(Fresh)>>]
      BY <1>4 DEF FreeText
    <2>2. Chooser(Fresh) \subseteq Button /\ \A b \in Chooser(Fresh) : CardOK(b, Fresh)
      BY ChooserCards, Generations
    <2> HIDE DEF t
    <2>3. FreeText(id, slash) = [cmds |-> <<>>, replies |-> <<Chooser(Fresh)>>,
                                 sel |-> t, pend |-> Fresh]
      BY <2>1 DEF Answer
    <2> QED BY <1>1, <1>4, <2>2, <2>3, HoldSound
  <1>5. CASE ~slash /\ t # NoSession /\ row[t].state = "busy"
    <2>1. Live # {}
      BY <1>1, <1>5
    <2>2. FreeText(id, slash) = [o EXCEPT !.pend = Fresh, !.replies = <<BusyCard(t, Fresh)>>]
      BY <1>5, <2>1 DEF FreeText
    <2>3. BusyCard(t, Fresh) \subseteq Button /\ \A b \in BusyCard(t, Fresh) : CardOK(b, Fresh)
      <3>1. t \in Session
        BY <1>1, <1>5
      <3> HIDE DEF t
      <3> QED BY <3>1, BusyCards, Generations
    <2> HIDE DEF t
    <2>4. FreeText(id, slash) = [cmds |-> <<>>, replies |-> <<BusyCard(t, Fresh)>>,
                                 sel |-> t, pend |-> Fresh]
      BY <2>2 DEF Answer
    <2> QED BY <1>1, <1>5, <2>3, <2>4, HoldSound
  <1>6. CASE ~slash /\ Live # {} /\ t # NoSession /\ row[t].state # "busy"
    <2>1. FreeText(id, slash) = [o EXCEPT !.pend = 0, !.cmds = <<Cmd(t, "prompt", id)>>]
      BY <1>6 DEF FreeText
    <2>2. t \in Session /\ "prompt" \in RoutedKinds /\ id \in Nat
      BY <1>1, <1>6 DEF RoutedKinds, TextKinds, Given
    <2> HIDE DEF t
    <2>3. FreeText(id, slash) = [cmds |-> <<Cmd(t, "prompt", id)>>, replies |-> <<{}>>,
                                 sel |-> t, pend |-> 0]
      BY <2>1 DEF Answer
    <2> QED BY <1>6, <2>2, <2>3, DirectSound
  <1> QED BY <1>3, <1>4, <1>5, <1>6

LEMMA RoutedSound ==
    ASSUME NEW id, Given(id), sent[id].by \in RoutedKinds
    PROVE  Sound(Routed(id, sent[id].on), id)
  <1> DEFINE b == sent[id].on
             t == CASE b.t = NoSession -> Target(b.op = "status")
                    [] b.t # NoSession /\ Names(b) -> b.t
                    [] OTHER -> NoSession
             s == IF b.t = NoSession THEN t ELSE selected
             x == IF b.op \in TextKinds THEN id ELSE 0
             o == [Answer({}) EXCEPT !.sel = s]
  <1>1. Target(b.op = "status") \in Live \cup {NoSession} /\ Live \subseteq Session
    BY TargetIsLive
  <1>2. t \in Session \cup {NoSession}
    BY <1>1 DEF Names
  <1>3. s \in Session \cup {NoSession}
    BY <1>2 DEF Given
  <1>4. Routed(id, b) = IF t = NoSession THEN o ELSE [o EXCEPT !.cmds = <<Cmd(t, b.op, x)>>]
    BY DEF Routed
  <1>5. /\ b.op \in RoutedKinds /\ x \in {0, id}
        /\ sent[id].by # "tap" /\ sent[id].by # "text"
    BY DEF Given, RoutedKinds, TextKinds
  <1> HIDE DEF b, t, s, x
  <1>6. CASE t = NoSession
    BY <1>3, <1>4, <1>6, EmptyAnswerSound DEF b
  <1>7. CASE t # NoSession
    <2>1. Routed(id, b) = [cmds |-> <<Cmd(t, b.op, x)>>, replies |-> <<{}>>,
                           sel |-> s, pend |-> pending]
      BY <1>4, <1>7 DEF Answer
    <2>2. t \in Session
      BY <1>2, <1>7
    <2> QED BY <1>3, <1>5, <2>1, <2>2, DirectSound DEF b
  <1> QED BY <1>6, <1>7

LEMMA StartSound ==
    ASSUME NEW id, Given(id)
    PROVE  Sound(Start, id)
  <1> DEFINE sole == CHOOSE t \in Live : TRUE
  <1>1. CASE Live = {}
    <2>1. Cardinality(Live) # 1
      BY <1>1, FS_EmptySet
    <2>2. Start = [Answer({}) EXCEPT !.sel = NoSession]
      BY <1>1, <2>1 DEF Start
    <2> QED BY <2>2, EmptyAnswerSound
  <1>2. CASE Live # {} /\ Cardinality(Live) = 1
    <2>1. sole \in Session
      BY <1>2 DEF Live
    <2>2. Start = [Answer(SessionCard(sole, row[sole].state = "busy")) EXCEPT !.sel = sole]
      BY <1>2 DEF Start
    <2> HIDE DEF sole
    <2>3. /\ SessionCard(sole, row[sole].state = "busy") \in SUBSET Button
          /\ \A b \in SessionCard(sole, row[sole].state = "busy") : CardOK(b, 0)
      BY <2>1, SessionCards, Generations
    <2>4. 0 <= Len(held)
      BY DEF Given
    <2> QED BY <2>1, <2>2, <2>3, <2>4, ReplySound
  <1>3. CASE Live # {} /\ Cardinality(Live) # 1
    <2>1. Start = Answer(Chooser(pending))
      BY <1>3 DEF Start
    <2>2. /\ Chooser(pending) \in SUBSET Button /\ pending \in Nat /\ pending <= Len(held)
          /\ \A b \in Chooser(pending) : CardOK(b, pending)
      BY ChooserCards, Generations
    <2> QED BY <2>1, <2>2, PlainSound
  <1> QED BY <1>1, <1>2, <1>3

LEMMA FallBackSound ==
    ASSUME NEW id, Given(id)
    PROVE  Sound(FallBack, id)
  <1>1. /\ Chooser(pending) \in SUBSET Button /\ pending \in Nat /\ pending <= Len(held)
        /\ \A b \in Chooser(pending) : CardOK(b, pending)
    BY ChooserCards, Generations
  <1> QED BY <1>1, PlainSound DEF FallBack

LEMMA UseSound ==
    ASSUME NEW id, Given(id), NEW b
    PROVE  Sound(Use(b), id)
  <1>1. CASE Names(b)
    <2>1. b.t \in Session
      BY <1>1 DEF Names, Live
    <2> QED BY <1>1, <2>1, EmptyAnswerSound DEF Use
  <1>2. CASE ~Names(b)
    BY <1>2, EmptyAnswerSound DEF Use
  <1> QED BY <1>1, <1>2

(* A tapped button sends the held message, if that is the one it is about.   *)
LEMMA HeldCommandsTyped ==
    ASSUME NEW id, Given(id), NEW b \in Button, Holds(b), Names(b),
           b.op \in {"send", "followup", "steer", "abort_prompt"}
    PROVE  /\ HeldCommands(b) \in Seq(Command)
           /\ \A i \in DOMAIN HeldCommands(b) :
                 /\ HeldCommands(b)[i].t = b.t
                 /\ HeldCommands(b)[i].text \in {0, held[pending]}
           /\ \A i, j \in DOMAIN HeldCommands(b) :
                 HeldCommands(b)[i].text # 0 /\ HeldCommands(b)[j].text # 0 => i = j
           /\ \E i \in DOMAIN HeldCommands(b) : HeldCommands(b)[i].text = held[pending]
  <1>1. b.t \in Session
    BY DEF Names, Live
  <1>2. held[pending] \in Nat
    <2>1. pending \in DOMAIN held /\ held \in Seq(Nat)
      BY DEF Given, Holds
    <2> QED BY <2>1
  <1> DEFINE x == held[pending]
  <1>3. x \in Nat
    BY <1>2
  <1>4. {"prompt", "followup", "steer", "abort"} \subseteq RoutedKinds
    BY DEF RoutedKinds, TextKinds
  <1>5. CASE b.op = "abort_prompt"
    <2>1. HeldCommands(b) = <<Cmd(b.t, "abort", 0), Cmd(b.t, "prompt", x)>>
      BY <1>5 DEF HeldCommands
    <2> HIDE DEF x
    <2>2. /\ Cmd(b.t, "abort", 0) = [t |-> b.t, kind |-> "abort", text |-> 0]
          /\ Cmd(b.t, "prompt", x) = [t |-> b.t, kind |-> "prompt", text |-> x]
      BY DEF Cmd
    <2>3. /\ Cmd(b.t, "abort", 0) \in Command /\ Cmd(b.t, "abort", 0).text = 0
          /\ Cmd(b.t, "prompt", x) \in Command /\ Cmd(b.t, "prompt", x).text = x
          /\ Cmd(b.t, "abort", 0).t = b.t /\ Cmd(b.t, "prompt", x).t = b.t
      BY <1>1, <1>3, <1>4, <2>2 DEF Command
    <2>4. /\ HeldCommands(b) \in Seq(Command) /\ DOMAIN HeldCommands(b) = {1, 2}
          /\ HeldCommands(b)[1] = Cmd(b.t, "abort", 0)
          /\ HeldCommands(b)[2] = Cmd(b.t, "prompt", x)
      BY <2>1, <2>3
    <2> QED BY <2>3, <2>4 DEF x
  <1>6. CASE b.op # "abort_prompt"
    <2> DEFINE k == IF b.op = "send" THEN "prompt" ELSE b.op
    <2>1. HeldCommands(b) = <<Cmd(b.t, k, x)>>
      BY <1>6 DEF HeldCommands
    <2>2. k \in RoutedKinds
      BY <1>4, <1>6
    <2> HIDE DEF x, k
    <2>3. /\ HeldCommands(b) \in Seq(Command) /\ DOMAIN HeldCommands(b) = {1}
          /\ HeldCommands(b)[1] = [t |-> b.t, kind |-> k, text |-> x]
      BY <1>1, <1>3, <2>1, <2>2, CommandTyped
    <2> QED BY <2>3 DEF x
  <1> QED BY <1>5, <1>6

LEMMA SendHeldSound ==
    ASSUME NEW id, Given(id), sent[id].by = "tap", NEW b, b = sent[id].on,
           Holds(b), Names(b), b.op \in {"send", "followup", "steer", "abort_prompt"}
    PROVE  Sound(SendHeld(b), id)
  <1> DEFINE C == HeldCommands(b)
             R == [i \in DOMAIN C |-> {}]
             o == SendHeld(b)
  <1>1. b \in Button /\ b.t \in Session
    BY DEF Given, Names, Live
  <1>2. /\ C \in Seq(Command)
        /\ \A i \in DOMAIN C : C[i].t = b.t /\ C[i].text \in {0, held[pending]}
        /\ \A i, j \in DOMAIN C : C[i].text # 0 /\ C[j].text # 0 => i = j
        /\ \E i \in DOMAIN C : C[i].text = held[pending]
    BY <1>1, HeldCommandsTyped
  <1>3. R \in Seq(SUBSET Button) /\ \A i \in DOMAIN R : R[i] = {}
    <2>1. Len(C) \in Nat /\ DOMAIN C = 1..Len(C)
      BY <1>2
    <2>2. R \in [1..Len(C) -> SUBSET Button]
      BY <2>1
    <2> QED BY <2>1, <2>2
  <1>4. o.cmds = C /\ o.replies = R /\ o.sel = b.t /\ o.pend = 0
    <2>1. o = [Answer({}) EXCEPT !.sel = b.t, !.pend = 0, !.cmds = C, !.replies = R]
      BY DEF SendHeld
    <2> HIDE DEF C, R, o
    <2> QED BY <2>1 DEF Answer
  <1>5. pending # 0 /\ b.gen = pending
    BY DEF Holds
  <1> HIDE DEF C, R, o
  <1>6. o.cmds = C /\ o.replies = R /\ o.sel = b.t /\ o.pend = 0
    BY <1>4
  <1>7. MemoOK(o, id)
    <2>1. o.pend # Fresh
      BY <1>6, Generations
    <2> QED BY <1>1, <1>3, <1>6, <2>1 DEF MemoOK
  <1>8. CmdsOK(o, id)
    BY <1>2, <1>5, <1>6 DEF CmdsOK
  <1>9. DropOK(o, id)
    BY <1>2, <1>6 DEF DropOK
  <1> QED BY <1>7, <1>8, <1>9 DEF Sound, o

LEMMA DiscardSound ==
    ASSUME NEW id, Given(id), sent[id].by = "tap", NEW b, b = sent[id].on,
           Holds(b), b.op = "discard"
    PROVE  Sound([Answer({}) EXCEPT !.pend = 0], id)
  <1> DEFINE o == [Answer({}) EXCEPT !.pend = 0]
  <1>1. o.cmds = <<>> /\ o.replies = <<{}>> /\ o.sel = selected /\ o.pend = 0
    BY DEF Answer
  <1>2. b = Off("discard", pending)
    BY DEF Given, CardOK, Holds
  <1> HIDE DEF o
  <1>3. /\ o.cmds = <<>> /\ o.replies = <<{}>> /\ o.sel = selected /\ o.pend = 0
        /\ <<>> \in Seq(Command) /\ DOMAIN <<>> = {}
        /\ <<{}>> \in Seq(SUBSET Button) /\ DOMAIN <<{}>> = {1} /\ <<{}>>[1] = {}
    BY <1>1
  <1>4. MemoOK(o, id)
    BY <1>3, Generations DEF MemoOK
  <1>5. CmdsOK(o, id)
    BY <1>3 DEF CmdsOK
  <1>6. DropOK(o, id)
    BY <1>2 DEF DropOK
  <1> QED BY <1>4, <1>5, <1>6 DEF Sound, o

(* v1:q, v1:x, v1:D                                                          *)
LEMMA TapCommandSound ==
    ASSUME NEW id, Given(id), sent[id].by = "tap", NEW b, b = sent[id].on,
           Names(b), b.op \in {"status", "abort", "disconnect"}
    PROVE  Sound([Answer({}) EXCEPT !.sel = b.t, !.cmds = <<Cmd(b.t, b.op, 0)>>], id)
  <1> DEFINE C == <<Cmd(b.t, b.op, 0)>>
             o == [Answer({}) EXCEPT !.sel = b.t, !.cmds = C]
  <1> HIDE DEF C
  <1>1. o.cmds = C /\ o.replies = <<{}>> /\ o.sel = b.t /\ o.pend = pending
    <2>1. o = [Answer({}) EXCEPT !.sel = b.t, !.cmds = C]
      OBVIOUS
    <2> HIDE DEF o
    <2> QED BY <2>1 DEF Answer
  <1>2. b.t \in Session /\ b.op \in RoutedKinds
    BY DEF Names, Live, RoutedKinds
  <1> HIDE DEF o
  <1>3. /\ o.cmds = C /\ o.replies = <<{}>> /\ o.sel = b.t /\ o.pend = pending
        /\ <<{}>> \in Seq(SUBSET Button) /\ DOMAIN <<{}>> = {1} /\ <<{}>>[1] = {}
    BY <1>1
  <1>4. /\ o.cmds \in Seq(Command) /\ DOMAIN o.cmds = {1}
        /\ o.cmds[1] = [t |-> b.t, kind |-> b.op, text |-> 0]
    BY <1>2, <1>3, CommandTyped DEF C
  <1>5. MemoOK(o, id)
    BY <1>2, <1>3, Generations DEF MemoOK
  <1>6. CmdsOK(o, id)
    BY <1>4 DEF CmdsOK
  <1>7. DropOK(o, id)
    BY <1>3 DEF DropOK
  <1> QED BY <1>5, <1>6, <1>7 DEF Sound, o, C

LEMMA TapSound ==
    ASSUME NEW id, Given(id), sent[id].by = "tap", NEW b, b = sent[id].on
    PROVE  Sound(Tap(b), id)
  <1>1. b \in Button
    BY DEF Given
  <1>2. CASE b.op = "cancel"
    <2>1. Tap(b) = Answer({})
      BY <1>2 DEF Tap
    <2> QED BY <2>1, EmptyAnswerSound
  <1>3. CASE b.op = "discard"
    <2>1. Tap(b) = IF Holds(b) THEN [Answer({}) EXCEPT !.pend = 0] ELSE FallBack
      BY <1>3 DEF Tap
    <2> QED BY <1>3, <2>1, DiscardSound, FallBackSound
  <1>4. CASE b.op \in {"send", "followup", "steer", "abort_prompt"}
    <2>1. Tap(b) = IF Holds(b) /\ Names(b) THEN SendHeld(b) ELSE FallBack
      BY <1>4 DEF Tap
    <2> QED BY <1>4, <2>1, SendHeldSound, FallBackSound
  <1>5. CASE b.op = "select"
    <2>1. Tap(b) = IF Names(b) THEN Use(b) ELSE FallBack
      BY <1>5 DEF Tap
    <2> QED BY <2>1, UseSound, FallBackSound
  <1>6. CASE b.op = "ask"
    <2> DEFINE B == {On("disconnect", b.t, 0), Off("cancel", 0)}
    <2>1. Tap(b) = IF Names(b) THEN Answer(B) ELSE FallBack
      BY <1>6 DEF Tap
    <2>2. ASSUME Names(b) PROVE Sound(Answer(B), id)
      <3>1. b.t \in Session
        BY <2>2 DEF Names, Live
      <3>2. B \in SUBSET Button /\ \A c \in B : CardOK(c, 0)
        BY <3>1, AskCards, Generations
      <3>3. 0 \in Nat /\ 0 <= Len(held)
        BY Generations
      <3> HIDE DEF B
      <3> QED BY <3>2, <3>3, PlainSound
    <2> HIDE DEF B
    <2> QED BY <2>1, <2>2, FallBackSound
  <1>7. CASE b.op \in {"status", "abort", "disconnect"}
    <2>1. Tap(b) = IF Names(b)
                   THEN [Answer({}) EXCEPT !.sel = b.t, !.cmds = <<Cmd(b.t, b.op, 0)>>]
                   ELSE FallBack
      BY <1>7 DEF Tap
    <2> DEFINE o == [Answer({}) EXCEPT !.sel = b.t, !.cmds = <<Cmd(b.t, b.op, 0)>>]
    <2>2. Names(b) => Sound(o, id)
      BY <1>7, TapCommandSound
    <2> HIDE DEF o
    <2>3. Tap(b) = IF Names(b) THEN o ELSE FallBack
      BY <2>1 DEF o
    <2> QED BY <2>2, <2>3, FallBackSound
  <1>8. CASE b.op \notin {"cancel", "discard", "send", "followup", "steer", "abort_prompt",
                          "select", "ask", "status", "abort", "disconnect"}
    <2>1. Tap(b) = FallBack
      BY <1>8 DEF Tap
    <2> QED BY <2>1, FallBackSound
  <1> QED BY <1>2, <1>3, <1>4, <1>5, <1>6, <1>7, <1>8

(* Whatever the update is, planning is sound.                                *)
LEMMA PlanSound ==
    ASSUME NEW id, Given(id), NEW o \in Plans(id)
    PROVE  Sound(o, id)
  <1> DEFINE u == sent[id]
  <1>1. Sound(Plan(id), id)
    <2>1. CASE u.by = "tap"
      <3>1. Plan(id) = Tap(u.on)
        BY <2>1 DEF Plan, RoutedKinds, TextKinds
      <3> QED BY <2>1, <3>1, TapSound
    <2>2. CASE u.by \in {"text", "slash"}
      <3>1. Plan(id) = FreeText(id, u.by = "slash")
        BY <2>2 DEF Plan, RoutedKinds, TextKinds
      <3> QED BY <2>2, <3>1, FreeTextSound
    <2>3. CASE u.by \in RoutedKinds
      <3>1. Plan(id) = Routed(id, u.on)
        BY <2>3 DEF Plan, RoutedKinds, TextKinds
      <3> QED BY <2>3, <3>1, RoutedSound
    <2>4. CASE u.by = "use"
      <3>1. Plan(id) = Use(u.on)
        BY <2>4 DEF Plan, RoutedKinds, TextKinds
      <3> QED BY <3>1, UseSound
    <2>5. CASE u.by = "start"
      <3>1. Plan(id) = Start
        BY <2>5 DEF Plan, RoutedKinds, TextKinds
      <3> QED BY <3>1, StartSound
    <2>6. CASE u.by = "stranger"
      <3>1. Plan(id) = Ignore
        BY <2>6 DEF Plan, RoutedKinds, TextKinds
      <3> QED BY <3>1, IgnoreSound
    <2>7. CASE u.by \notin {"tap", "text", "slash", "use", "start", "stranger"} \cup RoutedKinds
      <3>1. Plan(id) = Answer({})
        <4> HIDE DEF u
        <4>1. /\ u.by # "tap" /\ u.by \notin {"text", "slash"} /\ u.by \notin RoutedKinds
              /\ u.by # "use" /\ u.by # "start" /\ u.by # "stranger"
          BY <2>7
        <4> QED BY <4>1 DEF Plan, u
      <3> QED BY <3>1, EmptyAnswerSound
    <2> QED BY <2>1, <2>2, <2>3, <2>4, <2>5, <2>6, <2>7
  <1>2. o = Plan(id) \/ o = Ignore
    BY DEF Plans
  <1> QED BY <1>1, <1>2, IgnoreSound

-----------------------------------------------------------------------------
(* The memory of the broker *)

Core == TypeOK /\ ShapeInv /\ CardInv

LEMMA ThisUpdate ==
    ASSUME Core, fetched # {}
    PROVE  /\ This \in fetched /\ This \in DOMAIN sent /\ \A j \in fetched : This <= j
           /\ This \in 1..Len(sent) /\ Len(sent) \in Nat /\ fetched \subseteq Nat
           /\ Given(This)
  <1>1. /\ sent \in Seq([by : Typings \cup {"tap"}, on : Button])
        /\ fetched \subseteq DOMAIN sent
    BY DEF Core, TypeOK, ShapeInv
  <1>2. DOMAIN sent = 1..Len(sent) /\ Len(sent) \in Nat /\ fetched \in SUBSET Nat
    BY <1>1
  <1>3. PICK i \in fetched : \A j \in fetched : ~ (<<j, i>> \in OpToRel(<, Nat))
    BY <1>2, WFMin, NatLessThanWellFounded
  <1>4. \A j \in fetched : ~(j < i)
    BY <1>2, <1>3 DEF OpToRel
  <1>5. \E k \in fetched : \A j \in fetched : k <= j
    BY <1>2, <1>4
  <1>6. This \in fetched /\ \A j \in fetched : This <= j
    BY <1>5 DEF This
  <1> HIDE DEF This
  <1>7. This \in DOMAIN sent /\ This \in Nat \ {0}
    BY <1>1, <1>2, <1>6
  <1>8. /\ sent[This] \in [by : Typings \cup {"tap"}, on : Button]
        /\ CardOK(sent[This].on, Len(held))
        /\ sent[This].by \in RoutedKinds => sent[This].on.op = sent[This].by
    <2>1. sent[This] \in [by : Typings \cup {"tap"}, on : Button]
      BY <1>1, <1>7, Item
    <2> QED BY <1>7, <2>1 DEF Core, CardInv, ShapeInv
  <1>9. Given(This)
    BY <1>7, <1>8 DEF Core, TypeOK, ShapeInv, Given, RowsTyped
  <1> QED BY <1>1, <1>2, <1>6, <1>7, <1>9

(* The messages that were held before are still there.                       *)
LEMMA HeldGrows ==
    ASSUME Core, NEW id \in DOMAIN sent, NEW o, MemoOK(o, id), Remember(o, id)
    PROVE  /\ held' \in Seq(Nat) /\ Len(held) \in Nat /\ Len(held) <= Len(held')
           /\ Len(held') = IF o.pend = Fresh THEN Fresh ELSE Len(held)
           /\ \A g \in DOMAIN held : g \in DOMAIN held' /\ held'[g] = held[g]
           /\ \A g \in DOMAIN held' \ DOMAIN held : held'[g] = id /\ o.pend = Fresh
           /\ o.pend = Fresh => held'[Fresh] = id
  <1>1. held \in Seq(Nat) /\ Len(held) \in Nat /\ DOMAIN held = 1..Len(held)
    BY DEF Core, ShapeInv
  <1>2. id \in Nat
    BY DEF Core, ShapeInv
  <1>3. held' = IF o.pend = Fresh THEN Append(held, id) ELSE held
    BY DEF Remember
  <1>4. CASE o.pend = Fresh
    <2>1. held' = Append(held, id)
      BY <1>3, <1>4
    <2>2. /\ held' \in Seq(Nat) /\ Len(held') = Len(held) + 1
          /\ DOMAIN held' = 1..(Len(held) + 1)
          /\ \A g \in 1..Len(held) : held'[g] = held[g]
          /\ held'[Len(held) + 1] = id
      BY <1>1, <1>2, <2>1
    <2> QED BY <1>1, <1>4, <2>2 DEF Fresh
  <1>5. CASE o.pend # Fresh
    <2>1. held' = held
      BY <1>3, <1>5
    <2> QED BY <1>1, <1>5, <2>1
  <1> QED BY <1>4, <1>5

(* Only held messages have buttons among the queued replies.                 *)
LEMMA RepliesKept ==
    ASSUME Core, NEW id \in DOMAIN sent, NEW o, MemoOK(o, id), Remember(o, id)
    PROVE  /\ replies' \in Seq(SUBSET Button) /\ Len(replies') <= MaxReplies
           /\ \A i \in DOMAIN replies' : replies'[i] \subseteq Button
           /\ \A i \in DOMAIN replies' : \A b \in replies'[i] : CardOK(b, Len(held'))
  <1> DEFINE all == replies \o o.replies
             n == Len(held')
  <1>1. /\ Len(held) \in Nat /\ n \in Nat /\ Len(held) <= n
        /\ n = IF o.pend = Fresh THEN Fresh ELSE Len(held)
    BY HeldGrows
  <1>2. /\ replies \in Seq(SUBSET Button) /\ o.replies \in Seq(SUBSET Button)
        /\ MaxReplies \in Nat
    BY Constants DEF Core, ShapeInv, MemoOK
  <1>3. \A i \in DOMAIN replies : \A b \in replies[i] : b \in Button /\ CardOK(b, n)
    <2>1. ASSUME NEW i \in DOMAIN replies, NEW b \in replies[i]
          PROVE  b \in Button /\ CardOK(b, n)
      <3>1. b \in Button
        BY <1>2
      <3>2. CardOK(b, Len(held))
        BY DEF Core, CardInv
      <3> HIDE DEF n
      <3> QED BY <1>1, <3>1, <3>2, CardsLater
    <2> QED BY <2>1
  <1>4. \A i \in DOMAIN o.replies : \A b \in o.replies[i] : CardOK(b, n)
    BY <1>1 DEF MemoOK
  <1>5. replies' = IF Len(all) > MaxReplies THEN SubSeq(all, 1, MaxReplies) ELSE all
    BY DEF Remember
  <1> HIDE DEF n
  <1>6. /\ all \in Seq(SUBSET Button) /\ Len(all) \in Nat
        /\ \A i \in 1..Len(all) :
              \/ i \in DOMAIN replies /\ all[i] = replies[i]
              \/ \E j \in DOMAIN o.replies : all[i] = o.replies[j]
    <2>1. /\ all \in Seq(SUBSET Button)
          /\ Len(all) = Len(replies) + Len(o.replies)
          /\ \A i \in 1..Len(all) : all[i] = IF i <= Len(replies) THEN replies[i]
                                             ELSE o.replies[i - Len(replies)]
      BY <1>2
    <2>2. Len(replies) \in Nat /\ Len(o.replies) \in Nat
      BY <1>2
    <2>3. /\ DOMAIN replies = 1..Len(replies)
          /\ DOMAIN o.replies = 1..Len(o.replies)
      BY <1>2
    <2> HIDE DEF all
    <2>4. ASSUME NEW i \in 1..Len(all), ~(i <= Len(replies))
          PROVE  i - Len(replies) \in DOMAIN o.replies
      BY <2>1, <2>2, <2>3, <2>4
    <2>5. ASSUME NEW i \in 1..Len(all), i <= Len(replies)
          PROVE  i \in DOMAIN replies
      BY <2>1, <2>2, <2>3, <2>5
    <2> QED BY <2>1, <2>2, <2>4, <2>5
  <1> HIDE DEF all
  <1>7. \A i \in 1..Len(all) : \A b \in all[i] : CardOK(b, n)
    BY <1>3, <1>4, <1>6
  <1>8. /\ replies' \in Seq(SUBSET Button) /\ Len(replies') <= MaxReplies
        /\ \A i \in DOMAIN replies' : i \in 1..Len(all) /\ replies'[i] = all[i]
    <2>1. CASE Len(all) > MaxReplies
      <3>1. replies' = SubSeq(all, 1, MaxReplies)
        BY <1>5, <2>1
      <3> QED BY <1>2, <1>6, <2>1, <3>1
    <2>2. CASE ~(Len(all) > MaxReplies)
      <3>1. replies' = all
        BY <1>5, <2>2
      <3> QED BY <1>2, <1>6, <2>2, <3>1
    <2> QED BY <2>1, <2>2
  <1>9. \A i \in DOMAIN replies' : replies'[i] \subseteq Button
    BY <1>8
  <1> QED BY <1>7, <1>8, <1>9 DEF n

(* Planning and remembering keep the memory in order.                        *)
LEMMA Remembers ==
    ASSUME Core, NEW id \in DOMAIN sent, NEW o, MemoOK(o, id), Remember(o, id),
           sent' = sent, shown' = shown
    PROVE  /\ CardInv'
           /\ selected' \in Session \cup {NoSession}
           /\ pending' = o.pend /\ pending' \in 0..Len(held')
           /\ \A g \in DOMAIN held' : held'[g] \in DOMAIN sent'
           /\ pending' # 0 => held'[pending'] = IF o.pend = Fresh THEN id ELSE held[pending]
  <1>1. /\ held' \in Seq(Nat) /\ Len(held) \in Nat /\ Len(held) <= Len(held')
        /\ Len(held') = IF o.pend = Fresh THEN Fresh ELSE Len(held)
        /\ \A g \in DOMAIN held : g \in DOMAIN held' /\ held'[g] = held[g]
        /\ \A g \in DOMAIN held' \ DOMAIN held : held'[g] = id /\ o.pend = Fresh
        /\ o.pend = Fresh => held'[Fresh] = id
    BY HeldGrows
  <1>2. /\ held \in Seq(Nat) /\ DOMAIN held = 1..Len(held) /\ pending \in 0..Len(held)
        /\ Fresh = Len(held) + 1 /\ Len(held') \in Nat
        /\ \A g \in DOMAIN held : held[g] \in DOMAIN sent
        /\ shown \subseteq Button
        /\ sent \in Seq([by : Typings \cup {"tap"}, on : Button])
    BY <1>1 DEF Core, TypeOK, ShapeInv, Fresh
  <1>3. pending' = o.pend /\ o.pend \in {0, pending, Fresh} /\ selected' = o.sel
    BY DEF Remember, MemoOK
  <1>4. pending' \in 0..Len(held')
    BY <1>1, <1>2, <1>3
  <1>5. \A g \in DOMAIN held' : held'[g] \in DOMAIN sent'
    BY <1>1, <1>2
  <1>6. pending' # 0 => held'[pending'] = IF o.pend = Fresh THEN id ELSE held[pending]
    BY <1>1, <1>2, <1>3
  <1>7. \A b \in shown : CardOK(b, Len(held'))
    <2>1. ASSUME NEW b \in shown PROVE CardOK(b, Len(held'))
      <3>1. CardOK(b, Len(held)) /\ b \in Button
        BY <1>2 DEF Core, CardInv
      <3> QED BY <1>1, <1>2, <3>1, CardsLater
    <2> QED BY <2>1
  <1>8. ASSUME NEW i \in DOMAIN sent
        PROVE  /\ CardOK(sent[i].on, Len(held'))
               /\ sent[i].on.gen # 0 => held'[sent[i].on.gen] < i
    <2>1. sent[i].on \in Button /\ sent[i].on.gen \in Nat
      <3>1. sent[i] \in [by : Typings \cup {"tap"}, on : Button]
        BY <1>2, Item
      <3> QED BY <3>1 DEF Button
    <2>2. /\ CardOK(sent[i].on, Len(held))
          /\ sent[i].on.gen # 0 => held[sent[i].on.gen] < i
      BY DEF Core, CardInv
    <2>3. CardOK(sent[i].on, Len(held'))
      BY <1>1, <1>2, <2>1, <2>2, CardsLater
    <2>4. sent[i].on.gen # 0 => sent[i].on.gen \in DOMAIN held
      BY <1>1, <1>2, <2>1, <2>2 DEF CardOK
    <2> QED BY <1>1, <2>2, <2>3, <2>4
  <1>9. \A g \in DOMAIN held' : sent[held'[g]].by = "text"
    BY <1>1 DEF MemoOK, Core, CardInv
  <1>10. \A i \in DOMAIN replies' : \A b \in replies'[i] : CardOK(b, Len(held'))
    BY RepliesKept
  <1>11. CardInv'
    BY <1>7, <1>8, <1>9, <1>10 DEF CardInv
  <1> QED BY <1>3, <1>4, <1>5, <1>6, <1>11 DEF MemoOK

-----------------------------------------------------------------------------
(* Handling an update *)

(* The update in hand, handled or passed over, with what the step remembers.  *)
Handled(id, o) ==
    /\ fetched # {} /\ id = This /\ id \notin handled
    /\ MemoOK(o, id) /\ Remember(o, id)
    /\ fetched' = fetched \ {id} /\ sent' = sent /\ shown' = shown /\ row' = row

LEMMA HandledFacts ==
    ASSUME IInv, NEW id, NEW o, Handled(id, o)
    PROVE  /\ Core /\ Given(id) /\ id \in fetched /\ id \in DOMAIN sent
           /\ id \in 1..Len(sent) /\ Len(sent) \in Nat /\ fetched \subseteq Nat
           /\ \A j \in fetched : id <= j
           /\ offset <= id /\ offset \in Nat
  <1>1. Core /\ id = This /\ fetched # {} /\ id \notin handled
    BY DEF IInv, Core, Handled
  <1>2. /\ id \in fetched /\ id \in DOMAIN sent /\ \A j \in fetched : id <= j
        /\ id \in 1..Len(sent) /\ Len(sent) \in Nat /\ fetched \subseteq Nat
        /\ Given(id)
    BY <1>1, ThisUpdate
  <1>3. offset <= id
    BY <1>1, <1>2 DEF IInv, BatchInv
  <1>4. offset \in Nat
    BY Constants DEF IInv, TypeOK
  <1> QED BY <1>1, <1>2, <1>3, <1>4

(* Memory, types of memory and cards after an update was handled.            *)
LEMMA HandledMemory ==
    ASSUME IInv, NEW id, NEW o, Handled(id, o)
    PROVE  /\ CardInv' /\ held' \in Seq(Nat) /\ replies' \in Seq(SUBSET Button)
           /\ row' \in [Session -> [state : RowState, sid : 0..MaxRows]]
           /\ fetched' \subseteq DOMAIN sent' /\ shown' \subseteq Button
           /\ selected' \in Session \cup {NoSession}
           /\ pending' \in 0..Len(held')
           /\ \A g \in DOMAIN held' : held'[g] \in DOMAIN sent'
           /\ Len(replies') <= MaxReplies
           /\ \A i \in DOMAIN replies' : replies'[i] \subseteq Button
  <1>1. Core /\ id \in DOMAIN sent
    BY HandledFacts
  <1>2. MemoOK(o, id) /\ Remember(o, id) /\ sent' = sent /\ shown' = shown
    BY DEF Handled
  <1>3. /\ CardInv' /\ selected' \in Session \cup {NoSession} /\ pending' \in 0..Len(held')
        /\ \A g \in DOMAIN held' : held'[g] \in DOMAIN sent'
    BY <1>1, <1>2, Remembers
  <1>4. /\ replies' \in Seq(SUBSET Button) /\ Len(replies') <= MaxReplies
        /\ \A i \in DOMAIN replies' : replies'[i] \subseteq Button
    BY <1>1, <1>2, RepliesKept
  <1>5. held' \in Seq(Nat)
    BY <1>1, <1>2, HeldGrows
  <1>6. /\ row' \in [Session -> [state : RowState, sid : 0..MaxRows]]
        /\ fetched' \subseteq DOMAIN sent' /\ shown' \subseteq Button
    BY DEF Handled, IInv, TypeOK
  <1> QED BY <1>3, <1>4, <1>5, <1>6

(* The batch and the inbox after the offset moved past the update.           *)
LEMMA AdvanceKeepsBatch ==
    ASSUME IInv, NEW id, NEW o, Handled(id, o), handled' = handled \cup {id}, Advance(id),
           faults' = faults \/ faults' # 0
    PROVE  /\ BatchInv' /\ OffsetBehindInboxUnlessFaulty'
           /\ offset' \in 0..(MaxUpdates + 1) /\ handled' \subseteq DOMAIN sent'
           /\ offset <= offset' /\ id < offset'
  <1>1. /\ id \in fetched /\ id \in DOMAIN sent /\ id \in 1..Len(sent)
        /\ Len(sent) \in Nat /\ fetched \subseteq Nat /\ \A j \in fetched : id <= j
        /\ offset <= id /\ offset \in Nat
    BY HandledFacts
  <1>2. offset' = id + 1
    BY <1>1 DEF Advance
  <1>3. /\ fetched' = fetched \ {id} /\ sent' = sent
        /\ sent \in Seq([by : Typings \cup {"tap"}, on : Button]) /\ DOMAIN sent = 1..Len(sent)
        /\ Len(sent) <= MaxUpdates /\ handled \subseteq DOMAIN sent
    BY DEF Handled, IInv, TypeOK, ShapeInv
  <1>4. /\ \A i \in handled : i < offset
        /\ \A i \in fetched : i \in handled \/ offset <= i
        /\ faults = 0 => \A i \in DOMAIN sent :
              offset <= i => i \in fetched \/ \A j \in fetched : j < i
    BY DEF IInv, BatchInv
  <1>5. \A i \in handled' : i < offset'
    BY <1>1, <1>2, <1>3, <1>4
  <1>6. \A i \in fetched' : i \in handled' \/ offset' <= i
    BY <1>1, <1>2, <1>3
  <1>7. faults' = 0 => \A i \in DOMAIN sent' :
            offset' <= i => i \in fetched' \/ \A j \in fetched' : j < i
    BY <1>1, <1>2, <1>3, <1>4
  <1>8. ASSUME faults' = 0, NEW i \in DOMAIN sent, i < offset'
        PROVE  i \in handled'
    <2>1. faults = 0
      BY <1>8
    <2>2. CASE i < offset
      BY <2>1, <2>2 DEF IInv, OffsetBehindInboxUnlessFaulty, OffsetBehindInbox
    <2>3. CASE ~(i < offset)
      <3>1. i \in Nat /\ offset <= i /\ i <= id
        BY <1>1, <1>2, <1>3, <1>8, <2>3
      <3>2. i \in fetched \/ id < i
        BY <1>1, <1>4, <2>1, <3>1
      <3>3. i = id
        BY <1>1, <3>1, <3>2
      <3> QED BY <3>3
    <2> QED BY <2>2, <2>3
  <1>9. OffsetBehindInboxUnlessFaulty'
    BY <1>3, <1>8 DEF OffsetBehindInboxUnlessFaulty, OffsetBehindInbox
  <1>10. offset' \in 0..(MaxUpdates + 1) /\ offset' <= Len(sent') + 1
    BY <1>1, <1>2, <1>3, Constants
  <1>11. BatchInv'
    BY <1>5, <1>6, <1>7, <1>10 DEF BatchInv
  <1> QED BY <1>1, <1>2, <1>3, <1>9, <1>10, <1>11

(* What is held after an update was not sent on before it.                   *)
LEMMA HeldIsUnsent ==
    ASSUME IInv, NEW id, NEW o, Handled(id, o), pending' # 0
    PROVE  \A i \in DOMAIN commands : commands[i].text # held'[pending']
  <1>1. /\ Core /\ id \in DOMAIN sent /\ id \in 1..Len(sent)
        /\ offset <= id /\ offset \in Nat /\ Len(sent) \in Nat /\ Given(id)
    BY HandledFacts
  <1>2. /\ MemoOK(o, id) /\ Remember(o, id) /\ sent' = sent /\ shown' = shown
    BY DEF Handled
  <1>3. held'[pending'] = IF o.pend = Fresh THEN id ELSE held[pending]
    BY <1>1, <1>2, Remembers
  <1>4. pending' = o.pend
    BY <1>1, <1>2, Remembers
  <1>5. \A i \in DOMAIN commands : commands[i] \in Command
    BY Item DEF IInv, ShapeInv
  <1>6. CASE o.pend = Fresh
    <2>1. ASSUME NEW i \in DOMAIN commands PROVE commands[i].text # id
      <3>1. commands[i].text \in Nat
        BY <1>5 DEF Command
      <3>2. commands[i].text # 0 => commands[i].text < offset
        BY DEF IInv, OnceInv
      <3> QED BY <1>1, <3>1, <3>2
    <2> QED BY <1>3, <1>6, <2>1
  <1>7. CASE o.pend # Fresh
    <2>1. o.pend = pending /\ pending # 0
      BY <1>2, <1>4, <1>7 DEF MemoOK
    <2> QED BY <1>3, <1>7, <2>1 DEF IInv, OnceInv
  <1> QED BY <1>6, <1>7

(* The commands that an update adds carry texts not sent before, and not what *)
(* is held afterwards.                                                        *)
LEMMA NewCommands ==
    ASSUME IInv, NEW id, NEW o, Handled(id, o), CmdsOK(o, id), NEW k \in DOMAIN o.cmds
    PROVE  /\ o.cmds[k] \in Command /\ o.cmds[k].text \in 0..id
           /\ o.cmds[k].text # 0 =>
                 \A i \in DOMAIN commands : commands[i].text # o.cmds[k].text
           /\ pending' # 0 => o.cmds[k].text # held'[pending']
  <1> DEFINE x == o.cmds[k].text
  <1>1. /\ Core /\ id \in DOMAIN sent /\ id \in 1..Len(sent)
        /\ offset <= id /\ offset \in Nat /\ Len(sent) \in Nat /\ Given(id)
    BY HandledFacts
  <1>2. /\ MemoOK(o, id) /\ Remember(o, id) /\ sent' = sent /\ shown' = shown
    BY DEF Handled
  <1>3. o.cmds[k] \in Command /\ x \in Nat
    <2>1. o.cmds[k] \in Command
      BY Item DEF CmdsOK
    <2> QED BY <2>1 DEF Command
  <1>4. /\ pending' = o.pend
        /\ pending' # 0 => held'[pending'] = IF o.pend = Fresh THEN id ELSE held[pending]
    BY <1>1, <1>2, Remembers
  <1>5. pending # 0 => /\ pending \in DOMAIN held /\ held[pending] \in 1..Len(sent)
                       /\ sent[held[pending]].by = "text"
                       /\ \A i \in DOMAIN commands : commands[i].text # held[pending]
    <2>1. pending # 0 => pending \in DOMAIN held
      BY DEF IInv, TypeOK, ShapeInv
    <2>2. \A g \in DOMAIN held : held[g] \in DOMAIN sent /\ sent[held[g]].by = "text"
      BY DEF IInv, TypeOK, CardInv
    <2>3. DOMAIN sent = 1..Len(sent)
      BY DEF IInv, ShapeInv
    <2> QED BY <2>1, <2>2, <2>3 DEF IInv, OnceInv
  <1>6. \A i \in DOMAIN commands : commands[i].text # id
    <2>1. ASSUME NEW i \in DOMAIN commands PROVE commands[i].text # id
      <3>1. commands[i] \in Command
        BY Item DEF IInv, ShapeInv
      <3>2. commands[i].text \in Nat
        BY <3>1 DEF Command
      <3>3. commands[i].text # 0 => commands[i].text < offset
        BY DEF IInv, OnceInv
      <3> QED BY <1>1, <3>2, <3>3
    <2> QED BY <2>1
  <1>7. o.pend \in {0, pending, Fresh} /\ (o.pend = Fresh => sent[id].by = "text")
    BY <1>2 DEF MemoOK
  <1>8. CASE sent[id].by = "tap"
    <2>1. x # 0 => /\ pending # 0 /\ o.pend = 0 /\ sent[id].on.gen = pending
                   /\ x = held[pending]
      BY <1>8 DEF CmdsOK
    <2>2. sent[id].on.gen # 0 => held[sent[id].on.gen] < id
      BY <1>1 DEF Core, CardInv
    <2>3. x # 0 => x \in 1..id
      BY <1>1, <1>3, <1>5, <2>1, <2>2
    <2>4. pending' # 0 => x = 0 /\ o.pend = pending /\ held'[pending'] = held[pending]
      BY <1>4, <1>7, <1>8, <2>1
    <2> HIDE DEF x
    <2>5. pending' # 0 => x # held'[pending']
      BY <1>1, <1>4, <1>5, <2>4
    <2>6. x \in 0..id
      BY <1>1, <1>3, <2>3
    <2> QED BY <1>3, <1>5, <2>1, <2>5, <2>6 DEF x
  <1>9. CASE sent[id].by # "tap"
    <2>1. x \in {0, id} /\ (sent[id].by = "text" => o.pend = 0)
      BY <1>9 DEF CmdsOK
    <2>2. x \in 0..id
      BY <1>1, <2>1
    <2>3. pending' # 0 => /\ sent[id].by # "text" /\ o.pend = pending /\ pending # 0
                          /\ held'[pending'] = held[pending]
      BY <1>4, <1>7, <2>1
    <2> HIDE DEF x
    <2>4. pending' # 0 => x # held'[pending']
      BY <1>1, <1>5, <2>1, <2>3
    <2> QED BY <1>3, <1>6, <2>1, <2>2, <2>4 DEF x
  <1> QED BY <1>8, <1>9

-----------------------------------------------------------------------------
(* The steps of the broker *)

LEMMA HandleUpdateKeeps ==
    ASSUME IInv, HandleUpdate
    PROVE  IInv'
  <1>1. PICK id : id = This
    OBVIOUS
  <1>2. PICK o \in Plans(id) : Remember(o, id) /\ commands' = commands \o o.cmds
    BY <1>1 DEF HandleUpdate
  <1>3. Core /\ fetched # {}
    BY DEF IInv, Core, HandleUpdate
  <1>4. Given(id) /\ id \in DOMAIN sent
    BY <1>1, <1>3, ThisUpdate
  <1>5. MemoOK(o, id) /\ CmdsOK(o, id)
    BY <1>4, PlanSound DEF Sound
  <1>6. /\ id \notin handled /\ handled' = handled \cup {id} /\ Advance(id)
        /\ fetched' = fetched \ {id} /\ sent' = sent /\ shown' = shown /\ row' = row
        /\ crashes' = crashes /\ faults' = faults
    BY <1>1 DEF HandleUpdate, NextInBatch
  <1>7. Handled(id, o)
    BY <1>1, <1>2, <1>3, <1>5, <1>6 DEF Handled
  <1>8. /\ BatchInv' /\ OffsetBehindInboxUnlessFaulty'
        /\ offset' \in 0..(MaxUpdates + 1) /\ handled' \subseteq DOMAIN sent'
        /\ offset <= offset' /\ id < offset'
    BY <1>6, <1>7, AdvanceKeepsBatch
  <1>9. /\ id \in 1..Len(sent) /\ Len(sent) \in Nat /\ offset \in Nat /\ offset' \in Nat
        /\ Len(sent) <= MaxUpdates /\ MaxUpdates \in Nat
    BY <1>7, <1>8, HandledFacts, Constants DEF IInv, ShapeInv
  <1> DEFINE n == Len(commands)
  <1>10. /\ n \in Nat /\ DOMAIN commands = 1..n /\ commands \in Seq(Command)
         /\ o.cmds \in Seq(Command) /\ commands' \in Seq(Command)
         /\ \A i \in DOMAIN commands' :
               \/ i \in DOMAIN commands /\ commands'[i] = commands[i]
               \/ i > n /\ i - n \in DOMAIN o.cmds /\ commands'[i] = o.cmds[i - n]
         /\ DOMAIN commands' \subseteq Nat
    <2>1. commands \in Seq(Command) /\ o.cmds \in Seq(Command)
      BY <1>5 DEF IInv, ShapeInv, CmdsOK
    <2> DEFINE m == Len(o.cmds)
    <2>2. /\ n \in Nat /\ m \in Nat /\ DOMAIN commands = 1..n /\ DOMAIN o.cmds = 1..m
      BY <2>1
    <2>3. /\ commands' \in Seq(Command) /\ DOMAIN commands' = 1..(n + m)
          /\ \A i \in 1..(n + m) : commands'[i] = IF i <= n THEN commands[i] ELSE o.cmds[i - n]
      BY <1>2, <2>1
    <2> HIDE DEF n, m
    <2>4. ASSUME NEW i \in 1..(n + m)
          PROVE  IF i <= n THEN i \in 1..n ELSE i > n /\ i - n \in 1..m
      BY <2>2
    <2> QED BY <2>1, <2>2, <2>3, <2>4
  <1> HIDE DEF n
  <1>11. \A k \in DOMAIN o.cmds :
            /\ o.cmds[k] \in Command /\ o.cmds[k].text \in 0..id
            /\ o.cmds[k].text # 0 =>
                  \A i \in DOMAIN commands : commands[i].text # o.cmds[k].text
            /\ pending' # 0 => o.cmds[k].text # held'[pending']
    BY <1>5, <1>7, NewCommands
  <1>12. ASSUME NEW i \in DOMAIN commands'
         PROVE  commands'[i] \in [t : Session, kind : RoutedKinds, text : 0..MaxUpdates]
    <2>1. CASE i \in DOMAIN commands /\ commands'[i] = commands[i]
      BY <2>1 DEF IInv, TypeOK
    <2>2. CASE i - n \in DOMAIN o.cmds /\ commands'[i] = o.cmds[i - n]
      <3>1. PICK k \in DOMAIN o.cmds : commands'[i] = o.cmds[k]
        BY <2>2
      <3>2. o.cmds[k] \in Command /\ o.cmds[k].text \in 0..id
        BY <1>11
      <3>3. o.cmds[k].text \in 0..MaxUpdates
        BY <1>9, <3>2
      <3> QED BY <3>1, <3>2, <3>3 DEF Command
    <2> QED BY <1>10, <2>1, <2>2
  <1>13. ASSUME NEW i \in DOMAIN commands', commands'[i].text # 0
         PROVE  commands'[i].text < offset'
    <2>1. CASE i \in DOMAIN commands /\ commands'[i] = commands[i]
      <3>1. commands[i] \in Command /\ commands[i].text < offset
        BY <1>10, <1>13, <2>1, Item DEF IInv, OnceInv
      <3>2. commands[i].text \in Nat
        BY <3>1 DEF Command
      <3> QED BY <1>8, <1>9, <2>1, <3>1, <3>2
    <2>2. CASE i - n \in DOMAIN o.cmds /\ commands'[i] = o.cmds[i - n]
      <3>1. commands'[i].text \in 0..id
        BY <1>11, <2>2
      <3> QED BY <1>8, <1>9, <3>1
    <2> QED BY <1>10, <2>1, <2>2
  <1>14. ASSUME pending' # 0, NEW i \in DOMAIN commands'
         PROVE  commands'[i].text # held'[pending']
    <2>1. CASE i \in DOMAIN commands /\ commands'[i] = commands[i]
      BY <1>7, <1>14, <2>1, HeldIsUnsent
    <2>2. CASE i - n \in DOMAIN o.cmds /\ commands'[i] = o.cmds[i - n]
      BY <1>11, <1>14, <2>2
    <2> QED BY <1>10, <2>1, <2>2
  <1>15. ASSUME NEW i \in DOMAIN commands', NEW j \in DOMAIN commands',
                commands'[i].text # 0, commands'[i].text = commands'[j].text
         PROVE  i = j
    <2>1. CASE i \in DOMAIN commands /\ j \in DOMAIN commands
      <3>1. commands'[i] = commands[i] /\ commands'[j] = commands[j]
        BY <1>10, <2>1
      <3> QED BY <1>15, <2>1, <3>1 DEF IInv, DispatchedOnce
    <2>2. CASE i \in DOMAIN commands /\ j \notin DOMAIN commands
      <3>1. commands'[i] = commands[i]
        BY <1>10, <2>2
      <3>2. j - n \in DOMAIN o.cmds /\ commands'[j] = o.cmds[j - n]
        BY <1>10, <2>2
      <3> QED BY <1>11, <1>15, <2>2, <3>1, <3>2
    <2>3. CASE i \notin DOMAIN commands /\ j \in DOMAIN commands
      <3>1. commands'[j] = commands[j]
        BY <1>10, <2>3
      <3>2. i - n \in DOMAIN o.cmds /\ commands'[i] = o.cmds[i - n]
        BY <1>10, <2>3
      <3> QED BY <1>11, <1>15, <2>3, <3>1, <3>2
    <2>4. CASE i \notin DOMAIN commands /\ j \notin DOMAIN commands
      <3>1. /\ i - n \in DOMAIN o.cmds /\ commands'[i] = o.cmds[i - n]
            /\ j - n \in DOMAIN o.cmds /\ commands'[j] = o.cmds[j - n]
        BY <1>10, <2>4
      <3>2. i - n = j - n
        BY <1>5, <1>15, <3>1 DEF CmdsOK
      <3>3. i \in Nat /\ j \in Nat /\ n \in Nat
        BY <1>10
      <3> QED BY <3>2, <3>3
    <2> QED BY <2>1, <2>2, <2>3, <2>4
  <1>16. OnceInv' /\ DispatchedOnce'
    BY <1>13, <1>14, <1>15 DEF OnceInv, DispatchedOnce
  <1>17. /\ CardInv' /\ held' \in Seq(Nat) /\ replies' \in Seq(SUBSET Button)
         /\ row' \in [Session -> [state : RowState, sid : 0..MaxRows]]
         /\ fetched' \subseteq DOMAIN sent' /\ shown' \subseteq Button
         /\ selected' \in Session \cup {NoSession}
         /\ pending' \in 0..Len(held')
         /\ \A g \in DOMAIN held' : held'[g] \in DOMAIN sent'
         /\ Len(replies') <= MaxReplies
         /\ \A i \in DOMAIN replies' : replies'[i] \subseteq Button
    BY <1>7, HandledMemory
  <1>18. ShapeInv'
    BY <1>6, <1>10, <1>17 DEF IInv, ShapeInv
  <1>19. TypeOK'
    BY <1>6, <1>8, <1>12, <1>17 DEF IInv, TypeOK
  <1> QED BY <1>8, <1>16, <1>17, <1>18, <1>19 DEF IInv

(* A step that handles or passes over an update without a command.           *)
LEMMA SilentKeeps ==
    ASSUME IInv, NEW id, NEW o, Handled(id, o), commands' = commands,
           offset' \in 0..(MaxUpdates + 1), offset <= offset',
           handled' \subseteq DOMAIN sent', crashes' = crashes, faults' \in 0..MaxTroubles,
           BatchInv', OffsetBehindInboxUnlessFaulty'
    PROVE  IInv'
  <1>1. /\ CardInv' /\ held' \in Seq(Nat) /\ replies' \in Seq(SUBSET Button)
        /\ row' \in [Session -> [state : RowState, sid : 0..MaxRows]]
        /\ fetched' \subseteq DOMAIN sent' /\ shown' \subseteq Button
        /\ selected' \in Session \cup {NoSession}
        /\ pending' \in 0..Len(held')
        /\ \A g \in DOMAIN held' : held'[g] \in DOMAIN sent'
        /\ Len(replies') <= MaxReplies
        /\ \A i \in DOMAIN replies' : replies'[i] \subseteq Button
    BY HandledMemory
  <1>2. ShapeInv'
    BY <1>1 DEF IInv, ShapeInv, Handled
  <1>3. TypeOK'
    BY <1>1 DEF IInv, TypeOK
  <1>4. ASSUME NEW i \in DOMAIN commands, commands[i].text # 0
        PROVE  commands[i].text < offset'
    <2>1. commands[i] \in Command /\ commands[i].text < offset
      BY <1>4, Item DEF IInv, ShapeInv, OnceInv
    <2>2. commands[i].text \in Nat /\ offset \in Nat /\ offset' \in Nat
      BY <2>1, Constants DEF Command, IInv, TypeOK
    <2> QED BY <2>1, <2>2
  <1>5. pending' # 0 => \A i \in DOMAIN commands : commands[i].text # held'[pending']
    BY HeldIsUnsent
  <1>6. OnceInv' /\ DispatchedOnce'
    BY <1>4, <1>5 DEF OnceInv, DispatchedOnce, IInv
  <1> QED BY <1>1, <1>2, <1>3, <1>6 DEF IInv

LEMMA TroublesTyped ==
    ASSUME IInv, crashes + faults < MaxTroubles
    PROVE  /\ faults + 1 \in 0..MaxTroubles /\ faults + 1 # 0 /\ crashes + 1 \in 0..MaxTroubles
           /\ faults + 1 # faults /\ crashes + 1 # crashes
  <1>1. crashes \in 0..MaxTroubles /\ faults \in 0..MaxTroubles /\ MaxTroubles \in Nat
    BY Constants DEF IInv, TypeOK
  <1> QED BY <1>1

LEMMA MessageSwallowedKeeps ==
    ASSUME IInv, MessageSwallowed
    PROVE  IInv'
  <1>1. PICK id : id = This
    OBVIOUS
  <1>2. PICK o \in Plans(id) : Remember([o EXCEPT !.replies = <<>>], id)
    BY <1>1 DEF MessageSwallowed
  <1>3. PICK q : q = [o EXCEPT !.replies = <<>>]
    OBVIOUS
  <1>4. Core /\ fetched # {}
    BY DEF IInv, Core, MessageSwallowed
  <1>5. Given(id) /\ id \in DOMAIN sent
    BY <1>1, <1>4, ThisUpdate
  <1>6. MemoOK(o, id)
    BY <1>5, PlanSound DEF Sound
  <1>7. MemoOK(q, id)
    BY <1>3, <1>6 DEF MemoOK
  <1>8. /\ id \notin handled /\ handled' = handled \cup {id} /\ Advance(id)
        /\ fetched' = fetched \ {id} /\ sent' = sent /\ shown' = shown /\ row' = row
        /\ crashes' = crashes /\ faults' = faults + 1 /\ commands' = commands
        /\ crashes + faults < MaxTroubles
    BY <1>1 DEF MessageSwallowed, NextInBatch
  <1>9. Handled(id, q)
    BY <1>1, <1>2, <1>3, <1>4, <1>7, <1>8 DEF Handled
  <1>10. faults' # 0 /\ faults' \in 0..MaxTroubles
    BY <1>8, TroublesTyped
  <1>11. /\ BatchInv' /\ OffsetBehindInboxUnlessFaulty'
         /\ offset' \in 0..(MaxUpdates + 1) /\ handled' \subseteq DOMAIN sent'
         /\ offset <= offset'
    BY <1>8, <1>9, <1>10, AdvanceKeepsBatch
  <1> QED BY <1>8, <1>9, <1>10, <1>11, SilentKeeps

(* A reply is queued only after the message it is about is held, so that what *)
(* a failed transaction leaves behind never names a message that is not.      *)
LEMMA PartialMemo ==
    ASSUME NEW id, Given(id), NEW o, MemoOK(o, id), NEW n \in 0..Len(o.replies),
           NEW s \in {selected, o.sel}, NEW p \in {pending, o.pend},
           n > 0 /\ o.pend = Fresh => p = Fresh,
           NEW q, q.replies = SubSeq(o.replies, 1, n), q.sel = s, q.pend = p
    PROVE  MemoOK(q, id)
  <1>1. /\ o.replies \in Seq(SUBSET Button) /\ o.pend \in {0, pending, Fresh}
        /\ o.sel \in Session \cup {NoSession}
        /\ \A i \in DOMAIN o.replies : \A b \in o.replies[i] :
              CardOK(b, IF o.pend = Fresh THEN Fresh ELSE Len(held))
        /\ o.pend = Fresh => sent[id].by = "text"
    BY DEF MemoOK
  <1>2. pending # Fresh /\ selected \in Session \cup {NoSession}
    BY Generations
  <1>3. Len(o.replies) \in Nat /\ DOMAIN o.replies = 1..Len(o.replies)
    BY <1>1
  <1>4. /\ q.replies \in Seq(SUBSET Button) /\ DOMAIN q.replies = 1..n
        /\ \A i \in 1..n : i \in DOMAIN o.replies /\ q.replies[i] = o.replies[i]
    BY <1>1, <1>3
  <1>5. q.pend \in {0, pending, Fresh} /\ (q.pend = Fresh => o.pend = Fresh)
    BY <1>1, <1>2
  <1>6. ASSUME NEW i \in DOMAIN q.replies
        PROVE  q.pend = Fresh <=> o.pend = Fresh
    <2>1. n > 0
      BY <1>3, <1>4, <1>6
    <2> QED BY <1>5, <2>1
  <1>7. \A i \in DOMAIN q.replies : \A b \in q.replies[i] :
            CardOK(b, IF q.pend = Fresh THEN Fresh ELSE Len(held))
    BY <1>1, <1>4, <1>6
  <1> QED BY <1>1, <1>2, <1>4, <1>5, <1>7 DEF MemoOK

LEMMA HandleThrowsKeeps ==
    ASSUME IInv, HandleThrows
    PROVE  IInv'
  <1>1. PICK id : id = This
    OBVIOUS
  <1>2. PICK o \in Plans(id) : \E n \in 0..Len(o.replies) :
          \E s \in {selected, o.sel}, p \in {pending, o.pend} :
             /\ n > 0 => s = o.sel /\ (o.pend = Fresh => p = Fresh)
             /\ Remember([o EXCEPT !.replies = SubSeq(@, 1, n), !.sel = s, !.pend = p], id)
    BY <1>1 DEF HandleThrows
  <1>3. PICK n \in 0..Len(o.replies), s \in {selected, o.sel}, p \in {pending, o.pend} :
             /\ n > 0 => s = o.sel /\ (o.pend = Fresh => p = Fresh)
             /\ Remember([o EXCEPT !.replies = SubSeq(@, 1, n), !.sel = s, !.pend = p], id)
    BY <1>2
  <1>4. PICK q : q = [o EXCEPT !.replies = SubSeq(@, 1, n), !.sel = s, !.pend = p]
    OBVIOUS
  <1>5. Core /\ fetched # {}
    BY DEF IInv, Core, HandleThrows
  <1>6. Given(id) /\ id \in DOMAIN sent
    BY <1>1, <1>5, ThisUpdate
  <1>7. MemoOK(o, id)
    BY <1>6, PlanSound DEF Sound
  <1>8. q.replies = SubSeq(o.replies, 1, n) /\ q.sel = s /\ q.pend = p
    BY <1>4
  <1>9. MemoOK(q, id)
    BY <1>3, <1>6, <1>7, <1>8, PartialMemo
  <1>10. /\ id \notin handled /\ handled' = handled /\ offset' = offset
         /\ fetched' = fetched \ {id} /\ sent' = sent /\ shown' = shown /\ row' = row
         /\ crashes' = crashes /\ faults' = faults + 1 /\ commands' = commands
         /\ crashes + faults < MaxTroubles
    BY <1>1 DEF HandleThrows, NextInBatch, store
  <1>11. Handled(id, q)
    BY <1>1, <1>3, <1>4, <1>5, <1>9, <1>10 DEF Handled
  <1>12. faults' # 0 /\ faults' \in 0..MaxTroubles
    BY <1>10, TroublesTyped
  <1>13. BatchInv' /\ OffsetBehindInboxUnlessFaulty'
    BY <1>10, <1>12 DEF IInv, BatchInv, OffsetBehindInboxUnlessFaulty
  <1>14. /\ offset' \in 0..(MaxUpdates + 1) /\ handled' \subseteq DOMAIN sent'
         /\ offset <= offset'
    BY SMTT(30), <1>10, Constants DEF IInv, TypeOK
  <1> QED BY <1>10, <1>11, <1>12, <1>13, <1>14, SilentKeeps

LEMMA PollKeeps ==
    ASSUME IInv, Poll
    PROVE  IInv'
  <1>1. PICK again \in SUBSET handled : fetched' = {i \in DOMAIN sent : i >= offset} \cup again
    BY DEF Poll
  <1>2. /\ handled' = handled /\ offset' = offset /\ sent' = sent /\ commands' = commands
        /\ row' = row /\ shown' = shown /\ selected' = selected /\ pending' = pending
        /\ replies' = replies /\ held' = held /\ crashes' = crashes /\ faults' = faults
    BY DEF Poll, store
  <1>3. handled \subseteq DOMAIN sent
    BY DEF IInv, TypeOK
  <1>4. TypeOK'
    BY <1>1, <1>2, <1>3 DEF IInv, TypeOK
  <1>5. BatchInv'
    <2>1. DOMAIN sent \subseteq Nat /\ offset \in Nat
      BY Constants DEF IInv, ShapeInv, TypeOK
    <2>2. \A i \in fetched' : i \in handled' \/ offset' <= i
      BY <1>1, <1>2, <2>1
    <2>3. \A i \in DOMAIN sent' : offset' <= i => i \in fetched'
      BY <1>1, <1>2, <2>1
    <2> QED BY <1>2, <2>2, <2>3 DEF IInv, BatchInv
  <1>6. ShapeInv' /\ CardInv' /\ OnceInv'
    BY <1>2 DEF IInv, ShapeInv, CardInv, OnceInv
  <1>7. OffsetBehindInboxUnlessFaulty' /\ DispatchedOnce'
    BY <1>2 DEF IInv, OffsetBehindInboxUnlessFaulty, OffsetBehindInbox, DispatchedOnce
  <1> QED BY <1>4, <1>5, <1>6, <1>7 DEF IInv

LEMMA SkipDuplicateKeeps ==
    ASSUME IInv, SkipDuplicate
    PROVE  IInv'
  <1>1. PICK id : id = This
    OBVIOUS
  <1>2. /\ handled' = handled /\ offset' = offset /\ sent' = sent /\ commands' = commands
        /\ row' = row /\ shown' = shown /\ selected' = selected /\ pending' = pending
        /\ replies' = replies /\ held' = held /\ crashes' = crashes /\ faults' = faults
        /\ fetched' = fetched \ {id} /\ id \in handled
    BY <1>1 DEF SkipDuplicate, NextInBatch, store
  <1>3. TypeOK'
    BY <1>2 DEF IInv, TypeOK
  <1>4. BatchInv'
    <2>1. id < offset /\ offset \in Nat /\ DOMAIN sent \subseteq Nat /\ handled \subseteq DOMAIN sent
      BY SMTT(30), <1>2, Constants DEF IInv, BatchInv, TypeOK, ShapeInv
    <2>2. \A i \in DOMAIN sent : offset <= i => i # id
      BY <1>2, <2>1
    <2> QED BY <1>2, <2>2 DEF IInv, BatchInv
  <1>5. ShapeInv' /\ CardInv' /\ OnceInv'
    BY <1>2 DEF IInv, ShapeInv, CardInv, OnceInv
  <1>6. OffsetBehindInboxUnlessFaulty' /\ DispatchedOnce'
    BY <1>2 DEF IInv, OffsetBehindInboxUnlessFaulty, OffsetBehindInbox, DispatchedOnce
  <1> QED BY <1>3, <1>4, <1>5, <1>6 DEF IInv

LEMMA FlushReplyKeeps ==
    ASSUME IInv, FlushReply
    PROVE  IInv'
  <1>1. /\ handled' = handled /\ offset' = offset /\ sent' = sent /\ commands' = commands
        /\ row' = row /\ selected' = selected /\ pending' = pending /\ fetched' = fetched
        /\ held' = held /\ crashes' = crashes /\ faults' = faults
        /\ shown' = shown \cup Head(replies) /\ replies' = Tail(replies) /\ replies # <<>>
    BY DEF FlushReply, store
  <1>2. replies \in Seq(SUBSET Button) /\ Len(replies) <= MaxReplies /\ MaxReplies \in Nat
    BY Constants DEF IInv, ShapeInv, TypeOK
  <1>3. /\ replies' \in Seq(SUBSET Button) /\ Len(replies') <= MaxReplies
        /\ 1 \in DOMAIN replies /\ Head(replies) = replies[1]
        /\ \A i \in DOMAIN replies' : i + 1 \in DOMAIN replies /\ replies'[i] = replies[i + 1]
    <2>1. Len(replies) \in Nat /\ Len(replies) # 0 /\ DOMAIN replies = 1..Len(replies)
      BY <1>1, <1>2
    <2>2. /\ replies' \in Seq(SUBSET Button) /\ Len(replies') = Len(replies) - 1
          /\ DOMAIN replies' = 1..(Len(replies) - 1)
          /\ \A i \in 1..(Len(replies) - 1) : replies'[i] = replies[i + 1]
      BY <1>1, <1>2, <2>1
    <2>3. Head(replies) = replies[1]
      BY <1>1, <1>2
    <2> QED BY <1>2, <2>1, <2>2, <2>3
  <1>4. Head(replies) \subseteq Button
    BY <1>2, <1>3, Item
  <1>5. \A i \in DOMAIN replies' : replies'[i] \subseteq Button
    BY <1>3, Item
  <1>6. TypeOK'
    BY <1>1, <1>3, <1>4, <1>5 DEF IInv, TypeOK
  <1>7. CardInv'
    <2>1. \A i \in DOMAIN replies : \A b \in replies[i] : CardOK(b, Len(held))
      BY DEF IInv, CardInv
    <2>2. \A i \in DOMAIN replies' : \A b \in replies'[i] : CardOK(b, Len(held))
      BY <1>3, <2>1
    <2>3. \A b \in shown' : CardOK(b, Len(held))
      BY <1>1, <1>3, <2>1 DEF IInv, CardInv
    <2> QED BY <1>1, <2>2, <2>3 DEF IInv, CardInv
  <1>8. ShapeInv' /\ BatchInv' /\ OnceInv'
    BY <1>1, <1>3 DEF IInv, ShapeInv, BatchInv, OnceInv
  <1>9. OffsetBehindInboxUnlessFaulty' /\ DispatchedOnce'
    BY <1>1 DEF IInv, OffsetBehindInboxUnlessFaulty, OffsetBehindInbox, DispatchedOnce
  <1> QED BY <1>6, <1>7, <1>8, <1>9 DEF IInv

LEMMA RefreshIdentitiesKeeps ==
    ASSUME IInv, RefreshIdentities
    PROVE  IInv'
  <1>1. /\ handled' = handled /\ offset' = offset /\ sent' = sent /\ commands' = commands
        /\ row' = row /\ selected' = NoSession /\ pending' = pending /\ fetched' = fetched
        /\ held' = held /\ crashes' = crashes /\ faults' = faults
        /\ shown' = shown /\ replies' = replies
    BY DEF RefreshIdentities, store
  <1>2. TypeOK'
    BY <1>1 DEF IInv, TypeOK
  <1>3. ShapeInv' /\ CardInv' /\ BatchInv' /\ OnceInv'
    BY <1>1 DEF IInv, ShapeInv, CardInv, BatchInv, OnceInv
  <1>4. OffsetBehindInboxUnlessFaulty' /\ DispatchedOnce'
    BY <1>1 DEF IInv, OffsetBehindInboxUnlessFaulty, OffsetBehindInbox, DispatchedOnce
  <1> QED BY <1>2, <1>3, <1>4 DEF IInv

LEMMA RestartKeeps ==
    ASSUME IInv, Restart
    PROVE  IInv'
  <1>1. /\ handled' = handled /\ offset' = offset /\ sent' = sent /\ commands' = commands
        /\ row' = row /\ selected' = NoSession /\ pending' = 0 /\ fetched' = {}
        /\ held' = held /\ crashes' = crashes + 1 /\ faults' = faults
        /\ shown' = shown /\ replies' = <<>> /\ crashes + faults < MaxTroubles
    BY DEF Restart, store
  <1>2. crashes' \in 0..MaxTroubles
    BY <1>1, TroublesTyped
  <1>3. /\ replies' \in Seq(SUBSET Button) /\ DOMAIN replies' = {} /\ Len(replies') = 0
        /\ pending' \in 0..Len(held) /\ MaxReplies \in Nat
    BY <1>1, Constants DEF IInv, ShapeInv
  <1>4. TypeOK'
    BY <1>1, <1>2, <1>3 DEF IInv, TypeOK
  <1>5. ShapeInv' /\ CardInv' /\ BatchInv' /\ OnceInv'
    BY <1>1, <1>3 DEF IInv, ShapeInv, CardInv, BatchInv, OnceInv
  <1>6. OffsetBehindInboxUnlessFaulty' /\ DispatchedOnce'
    BY <1>1 DEF IInv, OffsetBehindInboxUnlessFaulty, OffsetBehindInbox, DispatchedOnce
  <1> QED BY <1>4, <1>5, <1>6 DEF IInv

-----------------------------------------------------------------------------
(* The steps of the user and of the Pi sessions *)

(* What the user can send: a typed message, or a button of a held message.   *)
Sendable(u) ==
    /\ u \in [by : Typings \cup {"tap"}, on : Button]
    /\ CardOK(u.on, Len(held))
    /\ u.by \in RoutedKinds => u.on.op = u.by

LEMMA TypedSendable ==
    ASSUME IInv, NEW u \in Typed
    PROVE  Sendable(u)
  <1>1. RowsTyped /\ Len(held) \in Nat
    BY DEF IInv, TypeOK, ShapeInv, RowsTyped
  <1>2. ASSUME NEW by \in Typings, NEW b \in Button, b.gen = 0, b.op # "discard",
               by \in RoutedKinds => b.op = by, u = Message(by, b)
        PROVE  Sendable(u)
    <2>1. u.by = by /\ u.on = b /\ u \in [by : Typings \cup {"tap"}, on : Button]
      BY <1>2 DEF Message
    <2>2. CardOK(b, Len(held))
      BY <1>1, <1>2 DEF CardOK
    <2> QED BY <1>2, <2>1, <2>2 DEF Sendable
  <1>3. \A op \in Buttons : /\ Off(op, 0).op = op /\ Off(op, 0).gen = 0
                            /\ \A t : On(op, t, 0).op = op /\ On(op, t, 0).gen = 0
    BY DEF Off, On
  <1>4. \A op \in Buttons : /\ Off(op, 0) \in Button
                            /\ \A t \in Session : On(op, t, 0) \in Button
    BY <1>1, OnIsButton, OffIsButton
  <1>5. "send" \in Buttons /\ RoutedKinds \subseteq Buttons /\ "discard" \notin RoutedKinds
    BY DEF Buttons, RoutedKinds, TextKinds
  <1>6. ASSUME NEW by \in Typing \cap {"text", "slash", "stranger", "help", "start"},
               u = Message(by, Off("send", 0))
        PROVE  Sendable(u)
    <2>1. by \in Typings /\ by \notin RoutedKinds
      BY UserAssumption DEF RoutedKinds, TextKinds
    <2>2. Off("send", 0) \in Button /\ Off("send", 0).gen = 0 /\ Off("send", 0).op = "send"
      BY <1>3, <1>4, <1>5
    <2> QED BY <1>2, <1>6, <2>1, <2>2
  <1>7. ASSUME NEW by \in Typing \cap {"use"}, NEW t \in Session,
               u = Message(by, On("send", t, 0))
        PROVE  Sendable(u)
    <2>1. by \in Typings /\ by \notin RoutedKinds
      BY UserAssumption DEF RoutedKinds, TextKinds
    <2>2. On("send", t, 0) \in Button /\ On("send", t, 0).gen = 0 /\ On("send", t, 0).op = "send"
      BY <1>3, <1>4, <1>5
    <2> QED BY <1>2, <1>7, <2>1, <2>2
  <1>8. ASSUME NEW by \in Typing \cap RoutedKinds,
               NEW b \in {On(by, t, 0) : t \in Session} \cup {Off(by, 0)},
               u = Message(by, b)
        PROVE  Sendable(u)
    <2>1. by \in Typings /\ by \in RoutedKinds /\ by \in Buttons
      BY <1>5, UserAssumption
    <2>2. b \in Button /\ b.gen = 0 /\ b.op = by
      BY <1>3, <1>4, <2>1
    <2>3. b.op # "discard"
      BY <1>5, <2>1, <2>2
    <2> QED BY <1>2, <1>8, <2>1, <2>2, <2>3
  <1>9. \/ \E by \in Typing \cap {"text", "slash", "stranger", "help", "start"} :
              u = Message(by, Off("send", 0))
        \/ \E by \in Typing \cap {"use"}, t \in Session : u = Message(by, On("send", t, 0))
        \/ \E by \in Typing \cap RoutedKinds :
              \E b \in {On(by, t, 0) : t \in Session} \cup {Off(by, 0)} : u = Message(by, b)
    BY DEF Typed
  <1> QED BY <1>6, <1>7, <1>8, <1>9

LEMMA TappedSendable ==
    ASSUME IInv, NEW b \in Tappable
    PROVE  Sendable(Message("tap", b))
  <1>1. RowsTyped /\ Len(held) \in Nat /\ shown \subseteq Button
    BY DEF IInv, TypeOK, ShapeInv, RowsTyped
  <1>2. b \in Button /\ CardOK(b, Len(held))
    <2>1. CASE b \in shown
      BY <1>1, <2>1 DEF IInv, CardInv
    <2>2. CASE b \in EventCards
      <3>1. PICK t \in Session : b \in SessionCard(t, TRUE)
        BY <2>2 DEF EventCards
      <3>2. b \in Button /\ CardOK(b, 0)
        BY <1>1, <3>1, SessionCards
      <3> QED BY <1>1, <3>2, CardsLater
    <2> QED BY <2>1, <2>2 DEF Tappable
  <1>3. "tap" \notin RoutedKinds
    BY DEF RoutedKinds, TextKinds
  <1> QED BY <1>2, <1>3 DEF Sendable, Message

LEMMA UserSendsKeeps ==
    ASSUME IInv, NEW u, Sendable(u), UserSends(u)
    PROVE  IInv'
  <1>1. /\ handled' = handled /\ offset' = offset /\ commands' = commands
        /\ row' = row /\ selected' = selected /\ pending' = pending /\ fetched' = fetched
        /\ held' = held /\ crashes' = crashes /\ faults' = faults
        /\ shown' = shown /\ replies' = replies
        /\ Len(sent) < MaxUpdates /\ sent' = Append(sent, u)
    BY DEF UserSends, store, memory
  <1> DEFINE R == [by : Typings \cup {"tap"}, on : Button]
             n == Len(sent) + 1
  <1>2. sent \in Seq(R) /\ u \in R /\ MaxUpdates \in Nat
    BY Constants DEF IInv, ShapeInv, Sendable
  <1> HIDE DEF R
  <1>3. /\ sent' \in Seq(R) /\ Len(sent) \in Nat /\ Len(sent') = n /\ DOMAIN sent = 1..Len(sent)
        /\ DOMAIN sent' = 1..n /\ n \in Nat
        /\ \A i \in DOMAIN sent : i \in DOMAIN sent' /\ sent'[i] = sent[i]
        /\ sent'[n] = u
        /\ \A i \in DOMAIN sent' : i \in DOMAIN sent \/ i = n
    BY <1>1, <1>2
  <1>4. Len(sent') <= MaxUpdates
    BY <1>1, <1>2, <1>3
  <1> HIDE DEF n
  <1>5. TypeOK'
    BY <1>1, <1>3 DEF IInv, TypeOK
  <1>6. ShapeInv'
    <2>1. \A i \in DOMAIN sent' : sent'[i].by \in RoutedKinds => sent'[i].on.op = sent'[i].by
      BY <1>3 DEF IInv, ShapeInv, Sendable
    <2> QED BY <1>1, <1>3, <1>4, <2>1 DEF IInv, ShapeInv, R
  <1>7. CardInv'
    <2>1. u.on \in Button /\ u.on.gen \in Nat /\ CardOK(u.on, Len(held))
      BY DEF Sendable, Button
    <2>2. u.on.gen # 0 => u.on.gen \in DOMAIN held
      BY <2>1 DEF CardOK, IInv, ShapeInv
    <2>3. \A g \in DOMAIN held : held[g] \in DOMAIN sent
      BY DEF IInv, TypeOK
    <2>4. u.on.gen # 0 => held[u.on.gen] < n
      BY <1>3, <2>2, <2>3 DEF n
    <2>5. \A i \in DOMAIN sent' :
            /\ CardOK(sent'[i].on, Len(held))
            /\ sent'[i].on.gen # 0 => held[sent'[i].on.gen] < i
      BY <1>3, <2>1, <2>4 DEF IInv, CardInv
    <2>6. \A g \in DOMAIN held : sent'[held[g]].by = "text"
      BY <1>3, <2>3 DEF IInv, CardInv
    <2> QED BY <1>1, <2>5, <2>6 DEF IInv, CardInv
  <1>8. BatchInv'
    <2>1. fetched \subseteq DOMAIN sent /\ offset <= Len(sent) + 1 /\ offset \in Nat
      BY Constants DEF IInv, TypeOK, BatchInv
    <2>2. \A j \in fetched : j < n
      BY <1>3, <2>1 DEF n
    <2>3. offset' <= Len(sent') + 1
      BY <1>1, <1>3, <2>1 DEF n
    <2> QED BY <1>1, <1>3, <2>2, <2>3 DEF IInv, BatchInv
  <1>9. OffsetBehindInboxUnlessFaulty'
    <2>1. offset <= n /\ offset \in Nat
      BY Constants DEF IInv, TypeOK, BatchInv, n
    <2>2. ~(n < offset)
      BY <1>3, <2>1
    <2> QED BY <1>1, <1>3, <2>2 DEF IInv, OffsetBehindInboxUnlessFaulty, OffsetBehindInbox
  <1>10. OnceInv' /\ DispatchedOnce'
    BY <1>1 DEF IInv, OnceInv, DispatchedOnce
  <1> QED BY <1>5, <1>6, <1>7, <1>8, <1>9, <1>10 DEF IInv

LEMMA RowChangesKeeps ==
    ASSUME IInv, NEW t \in Session, NEW st \in RowState, NEW new \in BOOLEAN,
           RowChanges(t, st, new)
    PROVE  IInv'
  <1>1. /\ handled' = handled /\ offset' = offset /\ sent' = sent /\ commands' = commands
        /\ selected' = selected /\ pending' = pending /\ fetched' = fetched
        /\ held' = held /\ crashes' = crashes /\ faults' = faults
        /\ shown' = shown /\ replies' = replies
    BY DEF RowChanges, memory
  <1> DEFINE r == [state |-> st, sid |-> IF new THEN row[t].sid + 1 ELSE row[t].sid]
  <1>2. row' = [row EXCEPT ![t] = r]
    BY DEF RowChanges
  <1>3. /\ row \in [Session -> [state : RowState, sid : 0..MaxRows]]
        /\ row[t] \in [state : RowState, sid : 0..MaxRows]
        /\ MaxRows \in Nat
    BY Constants DEF IInv, TypeOK
  <1>4. row[t].sid \in 0..MaxRows
    BY <1>3
  <1>5. (IF new THEN row[t].sid + 1 ELSE row[t].sid) \in 0..MaxRows
    BY <1>3, <1>4 DEF RowChanges
  <1>6. r \in [state : RowState, sid : 0..MaxRows]
    BY <1>5
  <1> HIDE DEF r
  <1>7. row' \in [Session -> [state : RowState, sid : 0..MaxRows]]
    BY <1>2, <1>3, <1>6
  <1>8. TypeOK'
    BY <1>1, <1>7 DEF IInv, TypeOK
  <1>9. ShapeInv' /\ CardInv' /\ BatchInv' /\ OnceInv'
    BY <1>1 DEF IInv, ShapeInv, CardInv, BatchInv, OnceInv
  <1>10. OffsetBehindInboxUnlessFaulty' /\ DispatchedOnce'
    BY <1>1 DEF IInv, OffsetBehindInboxUnlessFaulty, OffsetBehindInbox, DispatchedOnce
  <1> QED BY <1>8, <1>9, <1>10 DEF IInv

-----------------------------------------------------------------------------
(* The theorems *)

LEMMA Initial == Init => IInv
  <1> SUFFICES ASSUME Init PROVE IInv
    OBVIOUS
  <1>1. TypeOK
    <2>1. row \in [Session -> [state : RowState, sid : 0..MaxRows]]
      BY Constants DEF Init, RowState
    <2> QED BY <2>1, Constants DEF Init, TypeOK
  <1>2. ShapeInv /\ CardInv /\ BatchInv /\ OnceInv
    BY Constants DEF Init, ShapeInv, CardInv, BatchInv, OnceInv
  <1>3. OffsetBehindInboxUnlessFaulty /\ DispatchedOnce
    BY DEF Init, OffsetBehindInboxUnlessFaulty, OffsetBehindInbox, DispatchedOnce
  <1> QED BY <1>1, <1>2, <1>3 DEF IInv

LEMMA Inductive == IInv /\ [Next]_vars => IInv'
  <1> SUFFICES ASSUME IInv, [Next]_vars PROVE IInv'
    OBVIOUS
  <1>1. CASE Poll
    BY <1>1, PollKeeps
  <1>2. CASE HandleUpdate
    BY <1>2, HandleUpdateKeeps
  <1>3. CASE SkipDuplicate
    BY <1>3, SkipDuplicateKeeps
  <1>4. CASE FlushReply
    BY <1>4, FlushReplyKeeps
  <1>5. CASE HandleThrows
    BY <1>5, HandleThrowsKeeps
  <1>6. CASE MessageSwallowed
    BY <1>6, MessageSwallowedKeeps
  <1>7. CASE RefreshIdentities
    BY <1>7, RefreshIdentitiesKeeps
  <1>8. CASE Restart
    BY <1>8, RestartKeeps
  <1>9. ASSUME NEW u \in Typed, UserSends(u) PROVE IInv'
    BY <1>9, TypedSendable, UserSendsKeeps
  <1>10. ASSUME NEW b \in Tappable, UserSends(Message("tap", b)) PROVE IInv'
    BY <1>10, TappedSendable, UserSendsKeeps
  <1>11. ASSUME NEW t \in Session, NEW st \in RowState, NEW new \in BOOLEAN,
                RowChanges(t, st, new)
         PROVE  IInv'
    BY <1>11, RowChangesKeeps
  <1>12. CASE UNCHANGED vars
    BY <1>12 DEF vars, IInv, TypeOK, ShapeInv, CardInv, BatchInv, OnceInv, DispatchedOnce,
                 OffsetBehindInboxUnlessFaulty, OffsetBehindInbox
  <1> QED BY <1>1, <1>2, <1>3, <1>4, <1>5, <1>6, <1>7, <1>8, <1>9, <1>10, <1>11, <1>12
          DEF Next, Work

(* The invariant holds whatever is typed, tapped, redelivered, restarted or   *)
(* rolled back.                                                               *)
THEOREM Invariance == Spec => []IInv
  BY Initial, Inductive, PTL DEF Spec

(* The broker's memory, the inbox and the queue of replies stay well typed    *)
(* and within their limits (handleUpdate, #queueReply).                       *)
THEOREM TypeCorrect == Spec => []TypeOK
  <1>1. IInv => TypeOK
    BY DEF IInv
  <1> QED BY <1>1, Invariance, PTL

(* The text of one update reaches at most one session, at most once, for any  *)
(* number of redeliveries, taps, restarts and failing transactions.           *)
THEOREM DispatchedOnceTheorem == Spec => []DispatchedOnce
  <1>1. IInv => DispatchedOnce
    BY DEF IInv
  <1> QED BY <1>1, Invariance, PTL

(* While no transaction has failed, Telegram is told to forget only what the  *)
(* inbox holds.                                                               *)
THEOREM OffsetBehindInboxTheorem == Spec => []OffsetBehindInboxUnlessFaulty
  <1>1. IInv => OffsetBehindInboxUnlessFaulty
    BY DEF IInv
  <1> QED BY <1>1, Invariance, PTL

(* Only a handled update adds commands; nothing else drops the held message,  *)
(* but a restart and a failing transaction.                                   *)
LEMMA OtherSteps ==
    ASSUME IInv, [Next]_vars, ~HandleUpdate
    PROVE  /\ commands' = commands
           /\ crashes' = crashes /\ faults' = faults => pending' = pending
  <1>1. CASE Poll \/ SkipDuplicate \/ FlushReply
    BY <1>1 DEF Poll, SkipDuplicate, FlushReply, store
  <1>2. CASE HandleThrows
    <2>1. faults' = faults + 1 /\ crashes + faults < MaxTroubles /\ commands' = commands
      BY <1>2 DEF HandleThrows, store
    <2> QED BY <2>1, TroublesTyped
  <1>3. CASE MessageSwallowed
    <2>1. faults' = faults + 1 /\ crashes + faults < MaxTroubles /\ commands' = commands
      BY <1>3 DEF MessageSwallowed
    <2> QED BY <2>1, TroublesTyped
  <1>4. CASE RefreshIdentities
    BY <1>4 DEF RefreshIdentities, store
  <1>5. CASE Restart
    <2>1. crashes' = crashes + 1 /\ crashes + faults < MaxTroubles /\ commands' = commands
      BY <1>5 DEF Restart, store
    <2> QED BY <2>1, TroublesTyped
  <1>6. ASSUME NEW u, UserSends(u) PROVE commands' = commands /\ pending' = pending
    BY <1>6 DEF UserSends, store, memory
  <1>7. ASSUME NEW t, NEW st, NEW new, RowChanges(t, st, new)
        PROVE  commands' = commands /\ pending' = pending
    BY <1>7 DEF RowChanges, memory
  <1>8. CASE UNCHANGED vars
    BY <1>8 DEF vars
  <1> QED BY <1>1, <1>2, <1>3, <1>4, <1>5, <1>6, <1>7, <1>8 DEF Next, Work

LEMMA UpdateOutcome ==
    ASSUME IInv, HandleUpdate, NEW id, id = This
    PROVE  \E o : /\ CmdsOK(o, id) /\ DropOK(o, id) /\ pending' = o.pend
                  /\ commands' = commands \o o.cmds
  <1>1. PICK o \in Plans(id) : Remember(o, id) /\ commands' = commands \o o.cmds
    BY DEF HandleUpdate
  <1>2. Core /\ fetched # {}
    BY DEF IInv, Core, HandleUpdate
  <1>3. Given(id)
    BY <1>2, ThisUpdate
  <1>4. CmdsOK(o, id) /\ DropOK(o, id)
    BY <1>3, PlanSound DEF Sound
  <1> QED BY <1>1, <1>4 DEF Remember

(* Where the commands of an outcome stand in the store.                      *)
LEMMA AddedCommands ==
    ASSUME IInv, NEW C \in Seq(Command), commands' = commands \o C
    PROVE  /\ \A i \in (Len(commands) + 1)..Len(commands') :
                 \E k \in DOMAIN C : commands'[i] = C[k]
           /\ \A k \in DOMAIN C :
                 \E i \in (Len(commands) + 1)..Len(commands') : commands'[i] = C[k]
  <1> DEFINE n == Len(commands)
             m == Len(C)
  <1>1. commands \in Seq(Command)
    BY DEF IInv, ShapeInv
  <1>2. /\ n \in Nat /\ m \in Nat /\ DOMAIN C = 1..m /\ Len(commands') = n + m
        /\ \A i \in 1..(n + m) : commands'[i] = IF i <= n THEN commands[i] ELSE C[i - n]
    BY <1>1
  <1> HIDE DEF n, m
  <1>3. ASSUME NEW i \in (n + 1)..(n + m)
        PROVE  i - n \in 1..m /\ i \in 1..(n + m) /\ ~(i <= n)
    BY <1>2
  <1>4. ASSUME NEW k \in 1..m
        PROVE  /\ k + n \in (n + 1)..(n + m) /\ k + n \in 1..(n + m) /\ ~(k + n <= n)
               /\ (k + n) - n = k
    BY <1>2
  <1>5. \A i \in (n + 1)..(n + m) : \E k \in 1..m : commands'[i] = C[k]
    BY <1>2, <1>3
  <1>6. \A k \in 1..m : \E i \in (n + 1)..(n + m) : commands'[i] = C[k]
    BY <1>2, <1>4
  <1> DEFINE new == (Len(commands) + 1)..Len(commands')
  <1>7. new = (n + 1)..(n + m) /\ DOMAIN C = 1..m
    BY <1>2 DEF n
  <1> HIDE DEF new
  <1>8. /\ \A i \in new : \E k \in DOMAIN C : commands'[i] = C[k]
        /\ \A k \in DOMAIN C : \E i \in new : commands'[i] = C[k]
    BY <1>5, <1>6, <1>7
  <1> QED BY <1>8 DEF new

(* A tapped button sends the text its own card was about, and only to the     *)
(* session it names (#planCallback).                                          *)
THEOREM CardSendsItsOwnTextTheorem == Spec => CardSendsItsOwnText
  <1> DEFINE Own ==
        \A i \in (Len(commands) + 1)..Len(commands') :
            LET u == sent[This]
            IN  u.by = "tap" =>
                  /\ commands'[i].t = u.on.t
                  /\ commands'[i].text # 0 => commands'[i].text = held[u.on.gen]
  <1>1. ASSUME IInv, [Next]_vars PROVE Own
    <2>1. CASE ~HandleUpdate
      <3>1. commands' = commands /\ Len(commands) \in Nat
        BY <1>1, <2>1, OtherSteps DEF IInv, ShapeInv
      <3>2. (Len(commands) + 1)..Len(commands') = {}
        BY <3>1
      <3> QED BY <3>2
    <2>2. CASE HandleUpdate
      <3>1. PICK id : id = This
        OBVIOUS
      <3>2. PICK o : CmdsOK(o, id) /\ commands' = commands \o o.cmds
        BY <1>1, <2>2, <3>1, UpdateOutcome
      <3>3. o.cmds \in Seq(Command)
        BY <3>2 DEF CmdsOK
      <3>4. SUFFICES ASSUME NEW i \in (Len(commands) + 1)..Len(commands'),
                            sent[id].by = "tap"
                     PROVE  /\ commands'[i].t = sent[id].on.t
                            /\ commands'[i].text # 0 =>
                                  commands'[i].text = held[sent[id].on.gen]
        BY <3>1
      <3>5. PICK k \in DOMAIN o.cmds : commands'[i] = o.cmds[k]
        BY <1>1, <3>2, <3>3, AddedCommands
      <3> QED BY <3>2, <3>4, <3>5 DEF CmdsOK
    <2> QED BY <2>1, <2>2
  <1>2. IInv /\ [Next]_vars => [Own]_vars
    BY <1>1
  <1> QED BY <1>2, Invariance, PTL DEF Spec, CardSendsItsOwnText

(* A held message is dropped only when it was sent, was discarded by its own  *)
(* button, or gave way to a newer text; but for restarts and failing          *)
(* transactions.                                                              *)
THEOREM HeldNotLostTheorem == Spec => HeldNotLost
  <1> DEFINE Kept ==
        pending # 0 /\ pending' # pending /\ crashes' = crashes /\ faults' = faults =>
            \/ \E i \in (Len(commands) + 1)..Len(commands') :
                  commands'[i].text = held[pending]
            \/ sent[This].by = "text"
            \/ sent[This].by = "tap" /\ sent[This].on = Off("discard", pending)
  <1>1. ASSUME IInv, [Next]_vars PROVE Kept
    <2>1. CASE ~HandleUpdate
      BY <1>1, <2>1, OtherSteps
    <2>2. CASE HandleUpdate
      <3>1. PICK id : id = This
        OBVIOUS
      <3>2. PICK o : /\ CmdsOK(o, id) /\ DropOK(o, id) /\ pending' = o.pend
                     /\ commands' = commands \o o.cmds
        BY <1>1, <2>2, <3>1, UpdateOutcome
      <3>3. o.cmds \in Seq(Command)
        BY <3>2 DEF CmdsOK
      <3>4. ASSUME pending # 0, pending' # pending
            PROVE  \/ \E i \in (Len(commands) + 1)..Len(commands') :
                          commands'[i].text = held[pending]
                   \/ sent[id].by = "text"
                   \/ sent[id].by = "tap" /\ sent[id].on = Off("discard", pending)
        <4>1. CASE \E k \in DOMAIN o.cmds : o.cmds[k].text = held[pending]
          <5>1. PICK k \in DOMAIN o.cmds : o.cmds[k].text = held[pending]
            BY <4>1
          <5>2. PICK i \in (Len(commands) + 1)..Len(commands') : commands'[i] = o.cmds[k]
            BY <1>1, <3>2, <3>3, AddedCommands
          <5> QED BY <5>1, <5>2
        <4>2. CASE ~\E k \in DOMAIN o.cmds : o.cmds[k].text = held[pending]
          BY <3>2, <3>4, <4>2 DEF DropOK
        <4> QED BY <4>1, <4>2
      <3> QED BY <3>1, <3>4
    <2> QED BY <2>1, <2>2
  <1>2. IInv /\ [Next]_vars => [Kept]_vars
    BY <1>1
  <1> QED BY <1>2, Invariance, PTL DEF Spec, HeldNotLost
=============================================================================
