-------------------------- MODULE SessionHost_proofs --------------------------
(***************************************************************************)
(* Theorems about SessionHost, for any sets of question and gated tools,   *)
(* any choices, and any bounds on requests, actions and hosts.             *)
(***************************************************************************)
EXTENDS SessionHost, FiniteSetTheorems, TLAPS

-----------------------------------------------------------------------------
(* The inductive invariant.  Each part was checked by TLC first.             *)

(* A queued action names a request, and a decision a choice.                 *)
QueueOK ==
    \A i \in DOMAIN queue :
        /\ queue[i].type # "followup" => queue[i].req \in Request
        /\ queue[i].type = "decision" => queue[i].choice \in Choice

DecisionWhenDecided ==
    \A r \in Request :
        /\ requests[r].state \in {"none", "running", "waiting"} =>
               requests[r].decision = "none"
        /\ requests[r].state = "resuming" => requests[r].decision \in Choice

OneActive == \A r, s \in Request : Active(r) /\ Active(s) => r = s

GoneIsForgotten ==
    /\ pi = "gone" => \A a \in Asker : asker[a] = "idle" /\ answer[a] = "none"
    /\ host = "down" => /\ pi = "gone" /\ inFlight = {}
                        /\ \A r \in Request : ~Held(r)

(* The map of dialogs knows only what the table says is open.                *)
HeldIsActive ==
    \A r \in Request : Held(r) =>
        /\ requests[r].gen = generation
        /\ \/ requests[r].state = "waiting" /\ ~dialogs[r].responded
           \/ requests[r].state = "resuming" /\ dialogs[r].responded

(* A question that runs is known to run, and who was answered has not left.  *)
PiShape ==
    /\ \A a \in Question : asker[a] # "idle" => a \in inFlight
    /\ \A a \in Asker : answer[a] # "none" => asker[a] = "answered"

(* Whatever Pi blocks on, the host has a dialog for, unless it let go of it. *)
AskingIsHeld ==
    \A a \in Asker : Asking(a) =>
        \/ a \in letGo
        \/ \E r \in Request : /\ Held(r) /\ requests[r].asker = a
                              /\ requests[r].state = "waiting"

(* An asker that was given a choice was given that of its dialog still held. *)
AnswerIsItsOwn ==
    \A r \in Request : Held(r) /\ answer[requests[r].asker] \in Choice =>
        requests[r].decision = answer[requests[r].asker]

(* Where #classifyDialog takes a dialog for its own asker's question, it     *)
(* waits or was answered as long as it is held; a question is never taken    *)
(* for the demo.                                                             *)
OwnQuestion ==
    \A r \in Request :
        /\ dialogs[r].kind = "demo" => requests[r].asker \notin Question
        /\ /\ dialogs[r].kind = "tool_question"
           /\ dialogs[r].tool = requests[r].asker /\ pi = "up"
           => /\ requests[r].state = "waiting" =>
                     asker[requests[r].asker] = "asking"
              /\ requests[r].state = "resuming" =>
                     answer[requests[r].asker] = requests[r].decision

TypeInv == TypeOK /\ QueueOK
TableInv == DecisionWhenDecided /\ OneActive
DialogInv ==
    /\ GoneIsForgotten /\ HeldIsActive /\ PiShape
    /\ AskingIsHeld /\ AnswerIsItsOwn /\ OwnQuestion

IInv == TypeInv /\ TableInv /\ DialogInv /\ AnsweredAsDecided

-----------------------------------------------------------------------------
(* What a step may do to the table: close active requests, open one when     *)
(* none is active, or decide one.                                            *)

RowsClose ==
    \A r \in Request :
        /\ requests'[r].asker = requests[r].asker
        /\ requests'[r].gen = requests[r].gen
        /\ requests'[r].decision = requests[r].decision
        /\ \/ requests'[r].state = requests[r].state
           \/ Active(r) /\ requests'[r].state \in {"completed", "dropped"}

RowOpens ==
    \E a \in Asker, r \in Request, st \in {"running", "waiting"} :
        Fresh(r) /\ ~SessionBusy /\ requests' = Created(a, r, st)

RowDecided ==
    \E r \in Request, c \in Choice : Decidable(r) /\ requests' = Decided(r, c)

TableStep ==
    \/ RowsClose /\ generation' = generation
    \/ requests' = requests /\ generation' = generation + 1 /\ host = "down"
    \/ (RowOpens \/ RowDecided) /\ generation' = generation

LEMMA MovedCloses ==
    ASSUME TypeOK, NEW rs, NEW from \in SUBSET ActiveStates,
           NEW to \in {"completed", "dropped"}, requests' = Moved(rs, from, to)
    PROVE  RowsClose /\ requests' \in [Request -> RequestRow]
  <1> SUFFICES ASSUME NEW r \in Request
               PROVE  /\ requests'[r] \in RequestRow
                      /\ requests'[r].asker = requests[r].asker
                      /\ requests'[r].gen = requests[r].gen
                      /\ requests'[r].decision = requests[r].decision
                      /\ \/ requests'[r].state = requests[r].state
                         \/ /\ Active(r)
                            /\ requests'[r].state \in {"completed", "dropped"}
    BY DEF Moved, RowsClose
  <1>1. requests[r] \in RequestRow
    BY DEF TypeOK
  <1>2. CASE r \in rs /\ requests[r].state \in from
    <2>1. requests'[r] = [requests[r] EXCEPT !.state = to, !.due = FALSE]
      BY <1>2 DEF Moved
    <2> QED BY <1>1, <1>2, <2>1 DEF RequestRow, Active, ActiveStates
  <1>3. CASE ~(r \in rs /\ requests[r].state \in from)
    BY <1>1, <1>3 DEF Moved
  <1> QED BY <1>2, <1>3

LEMMA CreatedRows ==
    ASSUME TypeOK, NEW a \in Asker, NEW r \in Request,
           NEW st \in {"running", "waiting"}
    PROVE  /\ Created(a, r, st) \in [Request -> RequestRow]
           /\ \A s \in Request \ {r} : Created(a, r, st)[s] = requests[s]
           /\ Created(a, r, st)[r].asker = a
           /\ Created(a, r, st)[r].gen = generation
           /\ Created(a, r, st)[r].state = st
           /\ Created(a, r, st)[r].decision = "none"
  BY BoundAssumption DEF TypeOK, Created, RequestRow

LEMMA DecidedRows ==
    ASSUME TypeOK, NEW r \in Request, NEW c \in Choice
    PROVE  /\ Decided(r, c) \in [Request -> RequestRow]
           /\ \A s \in Request \ {r} : Decided(r, c)[s] = requests[s]
           /\ Decided(r, c)[r].asker = requests[r].asker
           /\ Decided(r, c)[r].gen = requests[r].gen
           /\ Decided(r, c)[r].state = "resuming"
           /\ Decided(r, c)[r].decision = c
  <1>1. requests[r] \in RequestRow /\ r \in DOMAIN requests
    BY DEF TypeOK
  <1> DEFINE row == [asker |-> requests[r].asker, gen |-> requests[r].gen,
                     state |-> "resuming", decision |-> c, due |-> FALSE]
  <1>2. Decided(r, c)[r] = row
    BY <1>1 DEF Decided, RequestRow
  <1>3. \A s \in Request \ {r} : Decided(r, c)[s] = requests[s]
    BY DEF TypeOK, Decided
  <1>4. row \in RequestRow
    BY <1>1 DEF RequestRow
  <1>5. Decided(r, c) = [s \in Request |-> Decided(r, c)[s]]
    BY DEF TypeOK, Decided
  <1> HIDE DEF row
  <1>6. \A s \in Request : Decided(r, c)[s] \in RequestRow
    BY <1>2, <1>3, <1>4 DEF TypeOK
  <1>7. Decided(r, c) \in [Request -> RequestRow]
    BY <1>5, <1>6
  <1> QED BY <1>2, <1>3, <1>7 DEF row

LEMMA HeadOfQueue ==
    ASSUME TypeInv, queue # <<>>
    PROVE  /\ Tail(queue) \in Seq(Action) /\ Len(Tail(queue)) <= MaxActions
           /\ QueueOK' \/ queue' # Tail(queue)
           /\ Head(queue) \in Action
           /\ Head(queue).type # "followup" => Head(queue).req \in Request
           /\ Head(queue).type = "decision" => Head(queue).choice \in Choice
  <1>1. queue \in Seq(Action) /\ Len(queue) <= MaxActions /\ MaxActions \in Nat
    BY BoundAssumption DEF TypeInv, TypeOK
  <1>2. Head(queue) = queue[1] /\ 1 \in DOMAIN queue
    BY <1>1
  <1>3. \A i \in DOMAIN Tail(queue) : i + 1 \in DOMAIN queue /\ Tail(queue)[i] = queue[i + 1]
    BY <1>1
  <1> QED BY <1>1, <1>2, <1>3 DEF TypeInv, QueueOK

LEMMA RespondType ==
    ASSUME TypeOK, NEW as, NEW ans \in Choice \cup {"none", "cancelled"}, Respond(as, ans)
    PROVE  /\ asker' \in [Asker -> {"idle", "started", "asking", "answered", "ended"}]
           /\ answer' \in [Asker -> Choice \cup {"none", "cancelled"}]
           /\ pi' = pi /\ letGo' = letGo
  BY DEF TypeOK, Respond

LEMMA WithoutType ==
    ASSUME TypeOK, NEW rs
    PROVE  Without(rs) \in [Request -> Dialog]
  BY DEF TypeOK, Without, NoDialog, Dialog

(* A step that leaves the table and the queue alone.                         *)
LEMMA SameTables ==
    ASSUME TypeInv, UNCHANGED <<requests, generation, queue>>
    PROVE  QueueOK' /\ TableStep
  BY DEF TypeInv, QueueOK, TableStep, RowsClose

LEMMA HostProcessTypes ==
    ASSUME TypeInv, HostProcess
    PROVE  TypeInv' /\ TableStep
  <1> USE DEF TypeInv
  <1>1. CASE HostStart
    <2>1. TypeOK'
      BY <1>1, BoundAssumption DEF HostStart, ForgetPi, TypeOK
    <2>2. QueueOK' /\ TableStep
      BY <1>1 DEF HostStart, QueueOK, TableStep
    <2> QED BY <2>1, <2>2
  <1>2. CASE HostStartFails
    <2>1. TypeOK'
      BY <1>2, BoundAssumption DEF HostStartFails, TypeOK, memory, child
    <2>2. QueueOK' /\ TableStep
      BY <1>2 DEF HostStartFails, QueueOK, TableStep
    <2> QED BY <2>1, <2>2
  <1>3. CASE HostCrash
    <2>1. /\ requests' \in [Request -> RequestRow]
          /\ TableStep
      <3>1. CASE UNCHANGED requests
        BY <1>3, <3>1 DEF HostCrash, TableStep, RowsClose, TypeOK
      <3>2. CASE ~UNCHANGED requests
        <4>1. /\ Turn /\ Head(queue).type = "decision"
              /\ Decidable(Head(queue).req) /\ generation' = generation
              /\ requests' = Decided(Head(queue).req, Head(queue).choice)
          BY <1>3, <3>2 DEF HostCrash
        <4>2. Head(queue).req \in Request /\ Head(queue).choice \in Choice
          BY <4>1, HeadOfQueue DEF Turn
        <4> QED BY <4>1, <4>2, DecidedRows DEF TableStep, RowDecided
      <3> QED BY <3>1, <3>2
    <2>2. queue' \in Seq(Action) /\ Len(queue') <= MaxActions /\ QueueOK'
      <3>1. CASE UNCHANGED queue
        BY <3>1 DEF TypeOK, QueueOK
      <3>2. CASE ~UNCHANGED queue
        BY <1>3, <3>2, HeadOfQueue DEF HostCrash, Turn
      <3> QED BY <3>1, <3>2
    <2>3. TypeOK'
      BY <1>3, <2>1, <2>2 DEF HostCrash, ForgetMemory, ForgetPi, TypeOK, NoDialog, Dialog
    <2> QED BY <2>1, <2>2, <2>3
  <1>4. CASE ShutdownBegin
    <2> DEFINE waiting == {r \in Request : requests[r].state = "waiting"}
    <2>1. /\ requests' = Moved(waiting, {"waiting"}, "dropped")
          /\ Respond(AskersOf(waiting), "cancelled")
          /\ dialogs' = Without(waiting)
      BY <1>4 DEF ShutdownBegin
    <2> HIDE DEF waiting
    <2>2. RowsClose /\ requests' \in [Request -> RequestRow]
      BY <2>1, MovedCloses DEF ActiveStates
    <2>3. TypeOK'
      BY <1>4, <2>1, <2>2, RespondType, WithoutType DEF ShutdownBegin, TypeOK
    <2> QED BY <1>4, <2>2, <2>3 DEF ShutdownBegin, TableStep, QueueOK
  <1>5. CASE ShutdownEnd
    <2>1. TypeOK'
      BY <1>5 DEF ShutdownEnd, ForgetMemory, ForgetPi, TypeOK, NoDialog, Dialog
    <2> QED BY <1>5, <2>1, SameTables DEF ShutdownEnd
  <1> QED BY <1>1, <1>2, <1>3, <1>4, <1>5 DEF HostProcess

LEMMA ClassifiedType ==
    ASSUME TypeOK
    PROVE  Classified \in Dialog
  <1>1. Cardinality(inFlight) = 1 => inFlight # {}
    BY FS_EmptySet
  <1>2. inFlight # {} => (CHOOSE a \in inFlight : TRUE) \in Question
    BY DEF TypeOK
  <1> QED BY <1>1, <1>2 DEF Classified, NoDialog, Dialog

LEMMA LeavesType ==
    ASSUME TypeOK, NEW as, NEW s \in {"idle", "ended"}, Leaves(as, s)
    PROVE  /\ asker' \in [Asker -> {"idle", "started", "asking", "answered", "ended"}]
           /\ answer' \in [Asker -> Choice \cup {"none", "cancelled"}]
           /\ pi' = pi
  BY DEF TypeOK, Leaves

LEMMA PiRecordTypes ==
    ASSUME TypeInv, PiRecord
    PROVE  TypeInv' /\ TableStep
  <1> USE DEF TypeInv
  <1>1. CASE PiExits
    <2>1. TypeOK'
      BY <1>1 DEF PiExits, tables, ForgetPi, TypeOK
    <2> QED BY <1>1, <2>1, SameTables DEF PiExits, tables
  <1>2. CASE DemoPromptTimesOut
    <2>1. TypeOK'
      BY <1>2 DEF DemoPromptTimesOut, tables, child, TypeOK
    <2> QED BY <1>2, <2>1, SameTables DEF DemoPromptTimesOut, tables
  <1>3. CASE DemoNotify
    <2>1. PICK proven :
             /\ requests' = Completed(proven)
             /\ dialogs' = Without(proven)
             /\ demo' = (demo /\ proven = {})
      BY <1>3 DEF DemoNotify
    <2>2. RowsClose /\ requests' \in [Request -> RequestRow]
      BY <2>1, MovedCloses DEF Completed, ActiveStates
    <2>3. TypeOK'
      BY <1>3, <2>1, <2>2, LeavesType, WithoutType DEF DemoNotify, TypeOK
    <2> QED BY <1>3, <2>2, <2>3 DEF DemoNotify, TableStep, QueueOK
  <1>4. CASE Settle
    <2>1. PICK lost, unapplied :
             /\ Leaves(lost, "idle")
             /\ requests' = Failed(unapplied)
             /\ dialogs' = Without(unapplied)
      BY <1>4 DEF Settle
    <2>2. RowsClose /\ requests' \in [Request -> RequestRow]
      BY <2>1, MovedCloses DEF Failed, ActiveStates
    <2>3. TypeOK'
      BY <1>4, <2>1, <2>2, LeavesType, WithoutType DEF Settle, TypeOK
    <2> QED BY <1>4, <2>2, <2>3 DEF Settle, TableStep, QueueOK
  <1>5. ASSUME NEW a \in Tool, ToolStart(a)
        PROVE  TypeInv' /\ TableStep
    <2>1. TypeOK'
      BY <1>5 DEF ToolStart, tables, TypeOK
    <2> QED BY <1>5, <2>1, SameTables DEF ToolStart, tables
  <1>6. ASSUME NEW a \in Tool, NEW error \in BOOLEAN, ToolEnd(a, error)
        PROVE  TypeInv' /\ TableStep
    <2>1. RowsClose /\ requests' \in [Request -> RequestRow]
      BY <1>6, MovedCloses DEF ToolEnd, Failed, Completed, ActiveStates
    <2>2. letGo' \subseteq Asker
      BY <1>6 DEF ToolEnd, Stranded, TypeOK
    <2>3. TypeOK'
      BY <1>6, <2>1, <2>2, LeavesType, WithoutType DEF ToolEnd, TypeOK
    <2> QED BY <1>6, <2>1, <2>3 DEF ToolEnd, TableStep, QueueOK
  <1>7. ASSUME NEW a \in Asker, RefuseDialog(a) \/ BusyDialog(a)
        PROVE  TypeInv' /\ TableStep
    <2>1. TypeOK'
      BY <1>7 DEF RefuseDialog, BusyDialog, Refuse, tables, memory, TypeOK
    <2> QED BY <1>7, <2>1, SameTables DEF RefuseDialog, BusyDialog, tables
  <1>8. ASSUME NEW a \in Asker, AmbiguousDialog(a)
        PROVE  TypeInv' /\ TableStep
    <2>1. PICK r \in Request : Fresh(r) /\ requests' = Created(a, r, "running")
      BY <1>8 DEF AmbiguousDialog
    <2>2. TypeOK'
      BY <1>8, <2>1, CreatedRows DEF AmbiguousDialog, Refuse, TypeOK
    <2> QED BY <1>8, <2>1, <2>2 DEF AmbiguousDialog, TableStep, RowOpens, QueueOK
  <1>9. ASSUME NEW a \in Asker, OpenDialog(a)
        PROVE  TypeInv' /\ TableStep
    <2>1. PICK r \in Request : /\ Fresh(r) /\ requests' = Created(a, r, "waiting")
                               /\ dialogs' = [dialogs EXCEPT ![r] = Classified]
      BY <1>9 DEF OpenDialog
    <2>2. TypeOK'
      BY <1>9, <2>1, CreatedRows, ClassifiedType DEF OpenDialog, TypeOK
    <2> QED BY <1>9, <2>1, <2>2 DEF OpenDialog, TableStep, RowOpens, QueueOK
  <1> QED BY <1>1, <1>2, <1>3, <1>4, <1>5, <1>6, <1>7, <1>8, <1>9 DEF PiRecord

LEMMA EnqueueTypes ==
    ASSUME TypeInv, NEW type \in {"decision", "cancel", "followup"},
           NEW r \in Request \cup {0}, NEW c \in Choice \cup {"none"},
           Enqueue(type, r, c), cancels' \subseteq Request,
           type # "followup" => r \in Request,
           type = "decision" => c \in Choice
    PROVE  TypeInv' /\ TableStep
  <1> DEFINE action == [type |-> type, req |-> r, choice |-> c]
  <1>1. action \in Action /\ queue \in Seq(Action) /\ MaxActions \in Nat
    BY BoundAssumption DEF Action, TypeInv, TypeOK
  <1>2. /\ queue' = Append(queue, action) /\ Len(queue) < MaxActions
        /\ UNCHANGED <<requests, generation, host, memory, child>>
    BY DEF Enqueue
  <1> HIDE DEF action
  <1>3. queue' \in Seq(Action) /\ Len(queue') <= MaxActions
    BY <1>1, <1>2
  <1>4. \A i \in DOMAIN queue' :
           (i \in DOMAIN queue /\ queue'[i] = queue[i]) \/ queue'[i] = action
    BY <1>1, <1>2
  <1>5. QueueOK'
    BY <1>4 DEF TypeInv, QueueOK, action
  <1>6. TypeOK'
    BY <1>2, <1>3 DEF TypeInv, TypeOK, memory, child
  <1> QED BY <1>2, <1>5, <1>6 DEF TypeInv, TableStep, RowsClose

LEMMA WorkerTypes ==
    ASSUME TypeInv, Worker
    PROVE  TypeInv' /\ TableStep
  <1>1. cancels \subseteq Request
    BY DEF TypeInv, TypeOK
  <1>2. ASSUME NEW r \in Request, CancelCommand(r)
        PROVE  TypeInv' /\ TableStep
    BY <1>1, <1>2, EnqueueTypes DEF CancelCommand
  <1>3. ASSUME NEW r \in Request, NEW c \in Choice, Tap(r, c)
        PROVE  TypeInv' /\ TableStep
    BY <1>1, <1>3, EnqueueTypes DEF Tap
  <1>4. CASE FollowupCommand
    BY <1>1, <1>4, EnqueueTypes DEF FollowupCommand
  <1> QED BY <1>2, <1>3, <1>4 DEF Worker

LEMMA SettledTypes ==
    ASSUME TypeInv, Turn, Settled
    PROVE  queue' \in Seq(Action) /\ Len(queue') <= MaxActions /\ QueueOK'
  BY HeadOfQueue DEF Turn, Settled

LEMMA SweepMoves ==
    ASSUME TypeOK, Sweep
    PROVE  RowsClose /\ requests' \in [Request -> RequestRow]
  <1> SUFFICES ASSUME NEW r \in Request
               PROVE  /\ requests'[r] \in RequestRow
                      /\ requests'[r].asker = requests[r].asker
                      /\ requests'[r].gen = requests[r].gen
                      /\ requests'[r].decision = requests[r].decision
                      /\ \/ requests'[r].state = requests[r].state
                         \/ /\ Active(r)
                            /\ requests'[r].state \in {"completed", "dropped"}
    BY DEF Sweep, RowsClose
  <1>1. requests[r] \in RequestRow
    BY DEF TypeOK
  <1>2. \/ requests'[r] = requests[r]
        \/ Active(r) /\ requests'[r] = [requests[r] EXCEPT !.state = "dropped", !.due = FALSE]
    BY DEF Sweep, Moved, Failed, Expired, ActiveStates, Active
  <1> QED BY <1>1, <1>2 DEF RequestRow

LEMMA TickTypes ==
    ASSUME TypeInv, Tick
    PROVE  TypeInv' /\ TableStep
  <1>1. CASE Sweep
    <2>1. RowsClose /\ requests' \in [Request -> RequestRow]
      BY <1>1, SweepMoves DEF TypeInv
    <2>2. TypeOK'
      BY <1>1, <2>1, RespondType, WithoutType DEF TypeInv, Sweep, TypeOK
    <2> QED BY <1>1, <2>1, <2>2 DEF Sweep, TypeInv, QueueOK, TableStep
  <1>2. CASE HandleDecision
    <2> DEFINE r == Head(queue).req
               c == Head(queue).choice
    <2>1. Turn /\ Settled /\ cancels' = cancels /\ r \in Request /\ c \in Choice
      BY <1>2, HeadOfQueue DEF HandleDecision, Turn
    <2>2. CASE Decidable(r)
      <3>1. /\ requests' = Decided(r, c)
            /\ dialogs' = IF Held(r) THEN [dialogs EXCEPT ![r].responded = TRUE]
                          ELSE dialogs
            /\ Respond(AskersOf({r}), c)
        BY <1>2, <2>2 DEF HandleDecision
      <3> HIDE DEF r, c
      <3>2. dialogs' \in [Request -> Dialog]
        BY ZenonT(30), <2>1, <3>1 DEF TypeInv, TypeOK, Dialog
      <3>3. TypeOK'
        BY <2>1, <3>1, <3>2, DecidedRows, RespondType, SettledTypes
           DEF TypeInv, TypeOK, Settled
      <3> QED BY <2>1, <2>2, <3>1, <3>3, SettledTypes
              DEF TypeInv, TableStep, RowDecided, Settled
    <2>3. CASE ~Decidable(r)
      <3>1. UNCHANGED <<requests, dialogs, child>>
        BY <1>2, <2>3 DEF HandleDecision
      <3> HIDE DEF r, c
      <3> QED BY <2>1, <3>1, SettledTypes
              DEF TypeInv, TypeOK, TableStep, RowsClose, Settled, child
    <2> QED BY <2>2, <2>3
  <1>3. CASE HandleCancel
    <2> DEFINE r == Head(queue).req
    <2>1. Turn /\ Settled /\ cancels' \subseteq cancels
      BY <1>3 DEF HandleCancel
    <2>2. CASE Undecided(r)
      <3>1. /\ requests' = Moved({r}, {"running", "waiting"}, "dropped")
            /\ dialogs' = Without({r})
            /\ Respond(AskersOf({r}), "cancelled")
        BY <1>3, <2>2 DEF HandleCancel
      <3> HIDE DEF r
      <3>2. RowsClose /\ requests' \in [Request -> RequestRow]
        BY <3>1, MovedCloses DEF ActiveStates, TypeInv
      <3>3. TypeOK'
        BY <2>1, <3>1, <3>2, RespondType, WithoutType, SettledTypes
           DEF TypeInv, TypeOK, Settled
      <3> QED BY <2>1, <3>2, <3>3, SettledTypes DEF TypeInv, TableStep, Settled
    <2>3. CASE ~Undecided(r)
      <3>1. UNCHANGED <<requests, dialogs, child>>
        BY <1>3, <2>3 DEF HandleCancel
      <3> HIDE DEF r
      <3> QED BY <2>1, <3>1, SettledTypes
              DEF TypeInv, TypeOK, TableStep, RowsClose, Settled, child
    <2> QED BY <2>2, <2>3
  <1>4. CASE HandleFollowup
    BY <1>4, SettledTypes
       DEF HandleFollowup, TypeInv, TypeOK, TableStep, RowsClose, Settled, child
  <1> QED BY <1>1, <1>2, <1>3, <1>4 DEF Tick, Handle

LEMMA TimeTypes ==
    ASSUME TypeInv, Time
    PROVE  TypeInv' /\ TableStep
  <1>1. ASSUME NEW r \in Request, Overdue(r)
        PROVE  TypeInv' /\ TableStep
    <2>1. RowsClose /\ requests' \in [Request -> RequestRow]
      <3>1. /\ requests[r] \in RequestRow
            /\ requests' = [requests EXCEPT ![r] = [requests[r] EXCEPT !.due = TRUE]]
        BY <1>1 DEF TypeInv, TypeOK, Overdue
      <3>2. [requests[r] EXCEPT !.due = TRUE] \in RequestRow
        BY <3>1 DEF RequestRow
      <3>3. /\ requests'[r].asker = requests[r].asker
            /\ requests'[r].gen = requests[r].gen
            /\ requests'[r].decision = requests[r].decision
            /\ requests'[r].state = requests[r].state
        BY <3>1 DEF RequestRow, TypeInv, TypeOK
      <3> QED BY <3>1, <3>2, <3>3 DEF TypeInv, TypeOK, RowsClose
    <2> QED BY <1>1, <2>1 DEF Overdue, TypeInv, TypeOK, QueueOK, TableStep, memory, child
  <1>2. ASSUME NEW r \in Request, Late(r)
        PROVE  TypeInv' /\ TableStep
    <2>1. dialogs' \in [Request -> Dialog]
      BY ZenonT(30), <1>2 DEF TypeInv, TypeOK, Late, Dialog
    <2>2. TypeOK'
      BY <1>2, <2>1 DEF TypeInv, TypeOK, Late, tables, child
    <2> QED BY <1>2, <2>2, SameTables DEF TypeInv, Late, tables
  <1> QED BY <1>1, <1>2 DEF Time

LEMMA NextTypes ==
    ASSUME TypeInv, [Next]_vars
    PROVE  TypeInv' /\ TableStep
  <1>1. CASE UNCHANGED vars
    <2>1. TypeOK'
      BY <1>1 DEF vars, TypeInv, TypeOK
    <2> QED BY <1>1, <2>1, SameTables DEF vars, TypeInv
  <1> QED BY <1>1, HostProcessTypes, PiRecordTypes, WorkerTypes, TickTypes, TimeTypes
          DEF Next

-----------------------------------------------------------------------------
(* The table *)

LEMMA TableInvStep ==
    ASSUME TypeInv, TableInv, TableStep
    PROVE  TableInv'
  <1> USE DEF TableInv
  <1>1. CASE RowsClose
    BY <1>1 DEF RowsClose, DecisionWhenDecided, OneActive, Active
  <1>2. CASE requests' = requests
    BY <1>2 DEF DecisionWhenDecided, OneActive, Active
  <1>3. CASE RowOpens
    <2>1. PICK a \in Asker, r \in Request, st \in {"running", "waiting"} :
             Fresh(r) /\ ~SessionBusy /\ requests' = Created(a, r, st)
      BY <1>3 DEF RowOpens
    <2> QED BY SMTT(30), <2>1, CreatedRows DEF TypeInv, DecisionWhenDecided, OneActive,
                                     Active, SessionBusy
  <1>4. CASE RowDecided
    <2>1. PICK r \in Request, c \in Choice :
             Decidable(r) /\ requests' = Decided(r, c)
      BY <1>4 DEF RowDecided
    <2> QED BY <2>1, DecidedRows DEF TypeInv, DecisionWhenDecided, OneActive,
                                     Active, Decidable
  <1> QED BY <1>1, <1>2, <1>3, <1>4 DEF TableStep

-----------------------------------------------------------------------------
(* Dialogs, and what Pi waits for                                            *)

DialogParts ==
    <<generation, host, dialogs, inFlight, pi, asker, answer, letGo>>

LEMMA SameDialogs ==
    ASSUME DialogInv, UNCHANGED DialogParts,
           \A r \in Request : /\ requests'[r].asker = requests[r].asker
                              /\ requests'[r].gen = requests[r].gen
                              /\ requests'[r].decision = requests[r].decision
                              /\ requests'[r].state = requests[r].state
    PROVE  DialogInv'
  <1> USE DEF DialogInv, DialogParts
  <1>1. GoneIsForgotten' /\ PiShape'
    BY DEF GoneIsForgotten, PiShape, Held
  <1>2. HeldIsActive'
    BY DEF HeldIsActive, Held
  <1>3. AskingIsHeld'
    BY DEF AskingIsHeld, Asking, Held
  <1>4. AnswerIsItsOwn'
    BY DEF AnswerIsItsOwn, Held
  <1>5. OwnQuestion'
    BY DEF OwnQuestion
  <1> QED BY <1>1, <1>2, <1>3, <1>4, <1>5

(* A host that forgets its dialogs with its Pi.                              *)
LEMMA ForgottenDialogs ==
    ASSUME ForgetMemory, ForgetPi("gone")
    PROVE  DialogInv'
  <1>1. /\ \A r \in Request : ~Held(r)' /\ dialogs'[r].kind = "none"
        /\ inFlight' = {} /\ pi' = "gone"
        /\ \A a \in Asker : asker'[a] = "idle" /\ answer'[a] = "none"
        /\ Demo \in Asker /\ Tool \subseteq Asker /\ Question \subseteq Asker
    BY DEF ForgetMemory, ForgetPi, NoDialog, Held, Asker, Tool
  <1> QED BY <1>1 DEF DialogInv, GoneIsForgotten, HeldIsActive, PiShape,
                      AskingIsHeld, Asking, AnswerIsItsOwn, OwnQuestion

LEMMA HostStartDialogs ==
    ASSUME TypeInv, DialogInv, HostStart
    PROVE  DialogInv'
  <1>1. /\ inFlight' = {} /\ pi' = "up" /\ host' = "up"
        /\ \A r \in Request : ~Held(r)' /\ dialogs'[r].kind = "none"
    BY DEF HostStart, DialogInv, GoneIsForgotten, ForgetPi, Held
  <1>2. /\ \A a \in Asker : /\ answer'[a] = "none"
                            /\ a = Demo => asker'[a] = "started"
                            /\ a # Demo => asker'[a] = "idle"
        /\ Demo \in Asker /\ Tool \subseteq Asker /\ Question \subseteq Tool
        /\ Demo \notin Tool
    BY AskerAssumption DEF HostStart, ForgetPi, Asker, Tool
  <1>3. "none" \notin Choice
    BY ChoiceAssumption
  <1>4. GoneIsForgotten' /\ HeldIsActive' /\ AnswerIsItsOwn' /\ OwnQuestion'
    BY <1>1, <1>2, <1>3
       DEF GoneIsForgotten, HeldIsActive, AnswerIsItsOwn, OwnQuestion
  <1>5. PiShape' /\ AskingIsHeld'
    BY <1>1, <1>2 DEF PiShape, AskingIsHeld, Asking
  <1> QED BY <1>4, <1>5 DEF DialogInv

(* Dialogs rs are taken off the map, those xs among them cancelled in Pi.    *)
LEMMA CancelledDialogs ==
    ASSUME TypeInv, TableInv, DialogInv, host # "down", host' # "down",
           NEW rs, NEW xs \in SUBSET rs, dialogs' = Without(rs),
           Respond(AskersOf(xs), "cancelled"), RowsClose,
           \A r \in Request \ rs : Held(r) => requests'[r].state = requests[r].state,
           \A r \in Request : Held(r) /\ r \in rs /\ requests[r].state = "waiting"
                               => r \in xs,
           xs \subseteq Request,
           generation' = generation, inFlight' = inFlight
    PROVE  DialogInv'
  <1>1. \A r \in Request : /\ r \in rs => ~Held(r)' /\ dialogs'[r].kind = "none"
                           /\ r \notin rs => dialogs'[r] = dialogs[r]
                           /\ Held(r)' => r \notin rs /\ Held(r)
    BY DEF Without, Held, NoDialog
  <1>2. \A a \in Asker :
          IF a \in AskersOf(xs) /\ Asking(a)
          THEN asker'[a] = "answered" /\ answer'[a] = "cancelled"
          ELSE asker'[a] = asker[a] /\ answer'[a] = answer[a]
    BY DEF Respond
  <1>3. pi' = pi /\ letGo' = letGo /\ Tool \subseteq Asker /\ Question \subseteq Tool /\ Demo \in Asker
    BY DEF Respond, Asker, Tool
  <1>4. "cancelled" \notin Choice /\ "none" \notin Choice
    BY ChoiceAssumption
  <1>5. \A r, s \in Request : Held(r) /\ Held(s) => r = s
    BY DEF DialogInv, HeldIsActive, TableInv, OneActive, Active
  <1>6. GoneIsForgotten'
    BY <1>1, <1>2, <1>3 DEF DialogInv, GoneIsForgotten, Asking
  <1>7. HeldIsActive'
    BY <1>1 DEF DialogInv, HeldIsActive, RowsClose
  <1>8. PiShape'
    BY <1>2, <1>3 DEF DialogInv, PiShape, Asking
  <1>9. AskingIsHeld'
    <2> SUFFICES ASSUME NEW a \in Asker, Asking(a)', a \notin letGo'
                 PROVE  \E r \in Request : /\ Held(r)' /\ requests'[r].asker = a
                                           /\ requests'[r].state = "waiting"
      BY DEF AskingIsHeld
    <2>1. Asking(a) /\ a \notin AskersOf(xs)
      BY <1>2, <1>3 DEF Asking
    <2>2. PICK r \in Request : /\ Held(r) /\ requests[r].asker = a
                               /\ requests[r].state = "waiting"
      BY <1>3, <2>1 DEF DialogInv, AskingIsHeld
    <2>3. r \notin rs
      BY <2>1, <2>2 DEF AskersOf
    <2> QED BY <1>1, <2>2, <2>3 DEF RowsClose, Held
  <1>12. ASSUME NEW r \in Request, Held(r)'
         PROVE  /\ r \notin rs /\ Held(r) /\ dialogs'[r] = dialogs[r]
                /\ requests'[r].asker = requests[r].asker
                /\ requests'[r].state = requests[r].state
                /\ requests'[r].decision = requests[r].decision
                /\ asker'[requests[r].asker] = asker[requests[r].asker]
                /\ answer'[requests[r].asker] = answer[requests[r].asker]
    <2>1. /\ r \notin rs /\ Held(r) /\ dialogs'[r] = dialogs[r]
          /\ requests'[r].asker = requests[r].asker
          /\ requests'[r].state = requests[r].state
          /\ requests'[r].decision = requests[r].decision
      BY <1>1, <1>12 DEF RowsClose
    <2>2. requests[r].asker \notin AskersOf(xs)
      BY <1>5, <2>1 DEF AskersOf
    <2>3. requests[r].asker \in Asker
      BY DEF TypeInv, TypeOK, RequestRow
    <2> QED BY <1>2, <2>1, <2>2, <2>3
  <1>10. AnswerIsItsOwn'
    BY <1>12 DEF DialogInv, AnswerIsItsOwn
  <1>11. OwnQuestion'
    BY <1>3, <1>12 DEF DialogInv, OwnQuestion, Held
  <1> QED BY <1>6, <1>7, <1>8, <1>9, <1>10, <1>11 DEF DialogInv

(* A step of a tool or of the demo that leaves table and map alone.  It      *)
(* starts or refuses the asker a, which does not wait.                       *)
LEMMA AskerMoves ==
    ASSUME TypeInv, TableInv, DialogInv, NEW a \in Asker,
           asker[a] \in {"idle", "started"}, Dispatching,
           UNCHANGED <<generation, host, dialogs, pi, letGo>>,
           \/ /\ asker' = [asker EXCEPT ![a] = "started"] /\ answer' = answer
              /\ inFlight' = IF a \in Question THEN inFlight \cup {a} ELSE inFlight
           \/ /\ Refuse(a) /\ asker[a] = "started" /\ inFlight' = inFlight,
           \A r \in Request : Held(r) => requests'[r] = requests[r]
    PROVE  DialogInv'
  <1>1. /\ \A b \in Asker \ {a} : asker'[b] = asker[b] /\ answer'[b] = answer[b]
        /\ asker'[a] \in {"started", "answered"}
        /\ answer'[a] # "none" => answer'[a] = "cancelled" /\ asker'[a] = "answered"
        /\ pi = "up" /\ pi' = "up" /\ answer[a] = "none"
    BY DEF Refuse, Dispatching, TypeInv, TypeOK, DialogInv, PiShape
  <1>2. /\ Question \subseteq Asker /\ inFlight \subseteq inFlight'
        /\ "cancelled" \notin Choice /\ "none" \notin Choice
    BY ChoiceAssumption DEF Asker, Tool
  <1>3. GoneIsForgotten'
    BY <1>1 DEF DialogInv, GoneIsForgotten, Dispatching
  <1>4. HeldIsActive'
    BY DEF DialogInv, HeldIsActive, Held
  <1>5. PiShape'
    <2>1. a \in Question => a \in inFlight'
      BY DEF DialogInv, PiShape
    <2> QED BY <1>1, <1>2, <2>1 DEF DialogInv, PiShape
  <1>6. AskingIsHeld'
    BY <1>1 DEF DialogInv, AskingIsHeld, Asking, Held
  <1>7. \A r \in Request : requests[r].asker \in Asker
    BY DEF TypeInv, TypeOK, RequestRow
  <1>8. AnswerIsItsOwn'
    BY <1>1, <1>2, <1>7 DEF DialogInv, AnswerIsItsOwn, Held
  <1>9. OwnQuestion'
    <2> SUFFICES ASSUME NEW r \in Request, Held(r)
                 PROVE  /\ dialogs[r].kind = "demo" => requests[r].asker \notin Question
                        /\ /\ dialogs[r].kind = "tool_question"
                           /\ dialogs[r].tool = requests[r].asker
                           => /\ requests[r].state = "waiting" =>
                                     asker'[requests[r].asker] = "asking"
                              /\ requests[r].state = "resuming" =>
                                     answer'[requests[r].asker] = requests[r].decision
      BY DEF OwnQuestion, Held
    <2>1. CASE requests[r].asker = a
      BY <1>1, <1>2, <2>1
         DEF DialogInv, OwnQuestion, HeldIsActive, TableInv, DecisionWhenDecided
    <2>2. CASE requests[r].asker # a
      BY <1>1, <1>7, <2>2 DEF DialogInv, OwnQuestion
    <2> QED BY <2>1, <2>2
  <1> QED BY <1>3, <1>4, <1>5, <1>6, <1>8, <1>9 DEF DialogInv

(* With the askers as go the dialogs rs: no question's own stays, and what   *)
(* waits in them waits for one of as, or is noted as let go.                 *)
TheirDialogs(as, rs) ==
    /\ \A r \in Request \ rs : Held(r) => requests'[r].state = requests[r].state
    /\ \A r \in Request : /\ Held(r) /\ r \in rs /\ requests[r].state = "waiting"
                          /\ Asking(requests[r].asker)
                          => requests[r].asker \in as \cup letGo'
    /\ \A r \in Request \ rs :
           dialogs[r].kind = "tool_question" /\ dialogs[r].tool = requests[r].asker
               => requests[r].asker \notin as
    /\ inFlight' \subseteq inFlight /\ inFlight \ inFlight' \subseteq as
    /\ letGo \subseteq letGo' \cup as

(* The askers as are done, and the dialogs rs taken off the map.             *)
LEMMA AskersLeave ==
    ASSUME TypeInv, DialogInv, Dispatching,
           UNCHANGED <<generation, host>>, RowsClose,
           NEW as, NEW s \in {"idle", "ended"}, Leaves(as, s),
           s = "ended" => as = {Demo},
           NEW rs, dialogs' = Without(rs),
           TheirDialogs(as, rs)
    PROVE  DialogInv'
  <1> USE DEF TheirDialogs
  <1>1. \A r \in Request : /\ Held(r)' => r \notin rs /\ Held(r)
                           /\ r \notin rs => dialogs'[r] = dialogs[r]
    BY DEF Without, Held, NoDialog
  <1>2. \A a \in Asker : IF a \in as THEN asker'[a] = s /\ answer'[a] = "none"
                         ELSE asker'[a] = asker[a] /\ answer'[a] = answer[a]
    BY DEF Leaves
  <1>3. /\ pi = "up" /\ pi' = "up" /\ host' # "down"
        /\ Question \subseteq Asker /\ Demo \notin Question /\ "none" \notin Choice
    BY AskerAssumption, ChoiceAssumption DEF Leaves, Dispatching, Asker, Tool
  <1>4. GoneIsForgotten'
    BY <1>3 DEF GoneIsForgotten
  <1>5. HeldIsActive'
    BY <1>1 DEF DialogInv, HeldIsActive, RowsClose
  <1>6. PiShape'
    <2>1. \A t \in Question : asker'[t] # "idle" => t \notin as /\ asker[t] # "idle"
      BY <1>2, <1>3
    <2>2. \A t \in Question : asker'[t] # "idle" => t \in inFlight'
      BY <2>1 DEF DialogInv, PiShape
    <2>3. \A t \in Asker : answer'[t] # "none" => asker'[t] = "answered"
      BY <1>2 DEF DialogInv, PiShape
    <2> QED BY <2>2, <2>3 DEF PiShape
  <1>7. AskingIsHeld'
    <2> SUFFICES ASSUME NEW a \in Asker, Asking(a)', a \notin letGo'
                 PROVE  \E r \in Request : /\ Held(r)' /\ requests'[r].asker = a
                                           /\ requests'[r].state = "waiting"
      BY DEF AskingIsHeld
    <2>1. Asking(a) /\ a \notin as
      BY <1>2, <1>3 DEF Asking
    <2>2. PICK r \in Request : /\ Held(r) /\ requests[r].asker = a
                               /\ requests[r].state = "waiting"
      BY <2>1 DEF DialogInv, AskingIsHeld
    <2>3. r \notin rs
      BY <2>1, <2>2
    <2> QED BY <1>1, <2>2, <2>3 DEF RowsClose, Held
  <1>8. \A r \in Request : requests[r].asker \in Asker
    BY DEF TypeInv, TypeOK, RequestRow
  <1>9. ASSUME NEW r \in Request, Held(r)'
        PROVE  /\ r \notin rs /\ Held(r) /\ dialogs'[r] = dialogs[r]
               /\ requests'[r].asker = requests[r].asker
               /\ requests'[r].state = requests[r].state
               /\ requests'[r].decision = requests[r].decision
    BY <1>1, <1>9 DEF RowsClose
  <1>10. AnswerIsItsOwn'
    <2> SUFFICES ASSUME NEW r \in Request, Held(r)',
                        answer'[requests'[r].asker] \in Choice
                 PROVE  requests'[r].decision = answer'[requests'[r].asker]
      BY DEF AnswerIsItsOwn
    <2>1. /\ Held(r) /\ requests'[r].asker = requests[r].asker
          /\ requests'[r].decision = requests[r].decision
      BY <1>9
    <2>2. answer'[requests[r].asker] = answer[requests[r].asker]
      BY <1>2, <1>3, <1>8, <2>1
    <2> QED BY <2>1, <2>2 DEF DialogInv, AnswerIsItsOwn
  <1>11. OwnQuestion'
    <2> SUFFICES ASSUME NEW r \in Request, Held(r)'
                 PROVE  /\ dialogs[r].kind = "demo" => requests[r].asker \notin Question
                        /\ /\ dialogs[r].kind = "tool_question"
                           /\ dialogs[r].tool = requests[r].asker
                           => /\ requests[r].state = "waiting" =>
                                     asker'[requests[r].asker] = "asking"
                              /\ requests[r].state = "resuming" =>
                                     answer'[requests[r].asker] = requests[r].decision
      BY <1>9 DEF OwnQuestion, Held
    <2>1. r \notin rs
      BY <1>9
    <2>2. /\ dialogs[r].kind = "tool_question" /\ dialogs[r].tool = requests[r].asker
          => /\ asker'[requests[r].asker] = asker[requests[r].asker]
             /\ answer'[requests[r].asker] = answer[requests[r].asker]
      BY <1>2, <1>8, <2>1
    <2> QED BY <1>3, <2>2 DEF DialogInv, OwnQuestion
  <1> QED BY <1>4, <1>5, <1>6, <1>7, <1>10, <1>11 DEF DialogInv

(* What a tool's end closes is its own dialog, one that is answered, or one  *)
(* whose asker is let go.                                                    *)
LEMMA ToolEndDialogs ==
    ASSUME TypeInv, DialogInv, NEW a \in Tool, NEW error \in BOOLEAN,
           ToolEnd(a, error), RowsClose
    PROVE  DialogInv'
  <1> DEFINE rs == ClosedBy(a)
  <1>1. /\ Dispatching /\ Leaves({a}, "idle") /\ dialogs' = Without(rs)
        /\ inFlight' = inFlight \ {a}
        /\ UNCHANGED <<generation, host>>
        /\ \A r \in Request \ rs : requests'[r].state = requests[r].state
    BY DEF ToolEnd, Failed, Completed, Moved
  <1>2. letGo \subseteq letGo' \cup {a} /\ Stranded(a) \subseteq letGo'
    BY DEF ToolEnd
  <1>3. \A r \in Request : r \in rs /\ Asking(requests[r].asker)
                            => requests[r].asker \in {a} \cup letGo'
    <2> SUFFICES ASSUME NEW r \in Request, r \in rs, Asking(requests[r].asker),
                        requests[r].asker # a
                 PROVE  requests[r].asker \in Stranded(a)
      BY <1>2
    <2>1. requests[r].asker \in Asker
      BY DEF TypeInv, TypeOK, RequestRow
    <2> QED BY <2>1 DEF Stranded
  <1>4. \A r \in Request \ rs :
           dialogs[r].kind = "tool_question" /\ dialogs[r].tool = requests[r].asker
               => requests[r].asker # a
    <2>1. \A r \in Request : dialogs[r].tool \in Question \cup {"none"}
      BY DEF TypeInv, TypeOK, Dialog
    <2>2. a # "none"
      BY AskerAssumption DEF Tool
    <2> QED BY <2>1, <2>2 DEF ClosedBy
  <1> HIDE DEF rs
  <1>5. Leaves({a}, "idle") /\ TheirDialogs({a}, rs)
    BY <1>1, <1>2, <1>3, <1>4 DEF TheirDialogs
  <1> QED BY <1>1, <1>5, AskersLeave

LEMMA DemoNotifyDialogs ==
    ASSUME TypeInv, DialogInv, DemoNotify, RowsClose
    PROVE  DialogInv'
  <1>1. PICK rs :
          /\ \A r \in rs : dialogs[r].responded
          /\ requests' = Completed(rs) /\ dialogs' = Without(rs)
    BY DEF DemoNotify
  <1>2. \A r \in Request \ rs : requests'[r].state = requests[r].state
    BY <1>1 DEF Completed, Moved
  <1>3. \A r \in Request : Held(r) /\ r \in rs => requests[r].state # "waiting"
    BY <1>1 DEF DialogInv, HeldIsActive
  <1>4. \A r \in Request : dialogs[r].tool # Demo
    BY AskerAssumption DEF TypeInv, TypeOK, Dialog
  <1>5. /\ Dispatching /\ Leaves({Demo}, "ended")
        /\ UNCHANGED <<generation, host, inFlight, letGo>>
    BY DEF DemoNotify
  <1>6. TheirDialogs({Demo}, rs)
    BY <1>2, <1>3, <1>4, <1>5 DEF TheirDialogs
  <1> QED BY <1>1, <1>5, <1>6, AskersLeave

(* The dialog of a question whose end is lost is among the unapplied.        *)
LEMMA SettleDialogs ==
    ASSUME TypeInv, DialogInv, Settle, RowsClose
    PROVE  DialogInv'
  <1> DEFINE rs == {r \in Request : /\ dialogs[r].kind = "tool_question"
                                    /\ dialogs[r].responded
                                    /\ dialogs[r].tool # "none"}
  <1>1. PICK lost \in SUBSET {a \in Tool : asker[a] \in {"started", "answered"}} :
           Leaves(lost, "idle")
    BY DEF Settle
  <1>2. /\ requests' = Failed(rs) /\ dialogs' = Without(rs) /\ Dispatching
        /\ UNCHANGED <<generation, host, inFlight, letGo>>
    BY DEF Settle
  <1>3. \A r \in Request \ rs : requests'[r].state = requests[r].state
    BY <1>2 DEF Failed, Moved
  <1>4. \A r \in Request : Held(r) /\ r \in rs => requests[r].state # "waiting"
    BY DEF DialogInv, HeldIsActive
  <1>5. \A r \in Request \ rs :
           dialogs[r].kind = "tool_question" /\ dialogs[r].tool = requests[r].asker
               => requests[r].asker \notin lost
    <2> SUFFICES ASSUME NEW r \in Request \ rs, dialogs[r].kind = "tool_question",
                        dialogs[r].tool = requests[r].asker, requests[r].asker \in lost
                 PROVE  FALSE
      OBVIOUS
    <2>1. Held(r) /\ requests[r].asker # "none" /\ pi = "up"
      BY <1>2, AskerAssumption DEF Held, Tool, Dispatching
    <2>2. requests[r].state = "waiting"
      BY <2>1 DEF DialogInv, HeldIsActive
    <2>3. asker[requests[r].asker] = "asking"
      BY <2>1, <2>2 DEF DialogInv, OwnQuestion
    <2> QED BY <1>1, <2>3
  <1> HIDE DEF rs
  <1>6. TheirDialogs(lost, rs)
    BY <1>2, <1>3, <1>4, <1>5 DEF TheirDialogs
  <1> QED BY <1>1, <1>2, <1>6, AskersLeave

LEMMA OpenDialogs ==
    ASSUME TypeInv, DialogInv, NEW a \in Asker, OpenDialog(a)
    PROVE  DialogInv'
  <1>1. PICK r \in Request : /\ Fresh(r) /\ requests' = Created(a, r, "waiting")
                             /\ dialogs' = [dialogs EXCEPT ![r] = Classified]
    BY DEF OpenDialog
  <1>2. /\ requests'[r].asker = a /\ requests'[r].gen = generation
        /\ requests'[r].state = "waiting"
    BY <1>1, CreatedRows DEF TypeInv
  <1>3. \A s \in Request : ~Held(s)
    BY DEF OpenDialog, SessionBusy, Active, DialogInv, HeldIsActive
  <1>4. /\ Held(r)' /\ dialogs'[r] = Classified /\ ~dialogs'[r].responded
        /\ \A s \in Request : Held(s)' => s = r
        /\ \A s \in Request : dialogs'[s].kind # "none" => s = r
    BY <1>1, <1>3 DEF Held, TypeInv, TypeOK, Classified, NoDialog
  <1>5. /\ Dispatching /\ pi = "up" /\ asker[a] = "started" /\ ~(demo /\ inFlight # {})
        /\ asker' = [asker EXCEPT ![a] = "asking"]
        /\ UNCHANGED <<generation, host, inFlight, pi, answer, letGo>>
    BY DEF OpenDialog, Dispatching, Ambiguous
  <1>6. /\ asker'[a] = "asking" /\ \A b \in Asker \ {a} : asker'[b] = asker[b]
        /\ Question \subseteq Asker /\ "none" \notin Choice /\ answer[a] = "none"
    BY <1>5, ChoiceAssumption DEF TypeInv, TypeOK, Asker, Tool, DialogInv, PiShape
  <1>7. GoneIsForgotten'
    BY <1>5 DEF GoneIsForgotten, Dispatching
  <1>8. HeldIsActive'
    BY <1>2, <1>4, <1>5 DEF HeldIsActive
  <1>9. PiShape'
    BY <1>5, <1>6 DEF DialogInv, PiShape
  <1>10. AskingIsHeld'
    BY <1>2, <1>3, <1>4, <1>5, <1>6 DEF DialogInv, AskingIsHeld, Asking
  <1>11. AnswerIsItsOwn'
    BY <1>2, <1>4, <1>5, <1>6 DEF AnswerIsItsOwn
  <1>12. OwnQuestion'
    <2>1. dialogs'[r].kind = "demo" => a \notin Question
      BY <1>4, <1>5 DEF Classified, DialogInv, PiShape
    <2> QED BY <1>2, <1>4, <1>6, <2>1 DEF OwnQuestion
  <1> QED BY <1>7, <1>8, <1>9, <1>10, <1>11, <1>12 DEF DialogInv

(* Recording a decision answers the dialog of that request, the only one.    *)
LEMMA DecisionDialogs ==
    ASSUME TypeInv, TableInv, DialogInv, HandleDecision
    PROVE  DialogInv'
  <1> DEFINE r == Head(queue).req
             c == Head(queue).choice
  <1>1. /\ Turn /\ r \in Request /\ c \in Choice
        /\ UNCHANGED <<generation, host, inFlight>>
    BY HeadOfQueue DEF HandleDecision, Turn, Settled
  <1>2. CASE ~Decidable(r)
    BY <1>1, <1>2, SameDialogs DEF HandleDecision, DialogParts, child
  <1>3. CASE Decidable(r)
    <2>1. /\ requests' = Decided(r, c)
          /\ dialogs' = IF Held(r) THEN [dialogs EXCEPT ![r].responded = TRUE]
                        ELSE dialogs
          /\ Respond(AskersOf({r}), c)
          /\ requests[r].state = "waiting" /\ requests[r].gen = generation
      BY <1>3 DEF HandleDecision, Decidable
    <2> HIDE DEF r, c
    <2>2. /\ requests'[r].asker = requests[r].asker
          /\ requests'[r].gen = requests[r].gen
          /\ requests'[r].state = "resuming"
          /\ requests'[r].decision = c
          /\ \A s \in Request \ {r} : requests'[s] = requests[s]
      BY <1>1, <2>1, DecidedRows DEF TypeInv
    <2>3. /\ \A s \in Request : Held(s)' <=> Held(s)
          /\ \A s \in Request : /\ dialogs'[s].kind = dialogs[s].kind
                                /\ dialogs'[s].tool = dialogs[s].tool
          /\ Held(r) => dialogs'[r].responded
      BY <1>1, <2>1 DEF Held, TypeInv, TypeOK, Dialog
    <2>4. \A s \in Request : Held(s) => s = r
      BY <1>1, <2>1 DEF DialogInv, HeldIsActive, TableInv, OneActive, Active
    <2>5. \A s \in Request : dialogs[s].kind # "none" => s = r
      BY <2>4 DEF Held
    <2>6. \A a \in Asker :
            IF Held(r) /\ a = requests[r].asker /\ Asking(a)
            THEN asker'[a] = "answered" /\ answer'[a] = c
            ELSE asker'[a] = asker[a] /\ answer'[a] = answer[a]
      BY <1>1, <2>1 DEF Respond, AskersOf
    <2>7. /\ pi' = pi /\ letGo' = letGo /\ Question \subseteq Asker
          /\ "none" \notin Choice
      BY <2>1, ChoiceAssumption DEF Respond, Asker, Tool
    <2>8. \A a \in Asker : Asking(a) =>
              a \in letGo \/ (Held(r) /\ requests[r].asker = a)
      BY <2>4 DEF DialogInv, AskingIsHeld
    <2>9. GoneIsForgotten'
      BY <1>1, <2>3, <2>6, <2>7 DEF DialogInv, GoneIsForgotten, Asking
    <2>10. HeldIsActive'
      BY <1>1, <2>1, <2>2, <2>3, <2>4 DEF HeldIsActive
    <2>11. PiShape'
      BY <1>1, <2>6, <2>7 DEF DialogInv, PiShape, Asking
    <2>12. AskingIsHeld'
      BY <2>6, <2>7, <2>8 DEF AskingIsHeld, Asking
    <2>15. requests[r].asker \in Asker
      BY <1>1 DEF TypeInv, TypeOK, RequestRow
    <2>13. AnswerIsItsOwn'
      <3> SUFFICES ASSUME Held(r), answer'[requests[r].asker] \in Choice
                   PROVE  c = answer'[requests[r].asker]
        BY <2>2, <2>3, <2>4 DEF AnswerIsItsOwn
      <3>1. answer[requests[r].asker] \notin Choice
        BY <1>1, <2>1, <2>7 DEF DialogInv, AnswerIsItsOwn, TableInv, DecisionWhenDecided
      <3> QED BY <2>6, <2>15, <3>1
    <2>14. OwnQuestion'
      <3> SUFFICES ASSUME Held(r)
                   PROVE  /\ dialogs[r].kind = "demo" => requests[r].asker \notin Question
                          /\ /\ dialogs[r].kind = "tool_question"
                             /\ dialogs[r].tool = requests[r].asker /\ pi = "up"
                             => answer'[requests[r].asker] = c
        BY <2>2, <2>3, <2>5, <2>7 DEF OwnQuestion, Held
      <3> QED BY <1>1, <2>1, <2>6, <2>15 DEF DialogInv, OwnQuestion, Asking
    <2> QED BY <2>9, <2>10, <2>11, <2>12, <2>13, <2>14 DEF DialogInv
  <1> QED BY <1>2, <1>3

LEMMA HandleCancelDialogs ==
    ASSUME TypeInv, TableInv, DialogInv, HandleCancel, RowsClose
    PROVE  DialogInv'
  <1> DEFINE r == Head(queue).req
  <1>1. /\ Turn /\ r \in Request /\ UNCHANGED <<generation, host, inFlight>>
    BY HeadOfQueue DEF HandleCancel, Turn, Settled
  <1>2. CASE ~Undecided(r)
    BY <1>1, <1>2, SameDialogs DEF HandleCancel, DialogParts, child
  <1>3. CASE Undecided(r)
    <2>1. /\ requests' = Moved({r}, {"running", "waiting"}, "dropped")
          /\ dialogs' = Without({r})
          /\ Respond(AskersOf({r}), "cancelled")
      BY <1>3 DEF HandleCancel
    <2> HIDE DEF r
    <2>2. \A s \in Request \ {r} : Held(s) => requests'[s].state = requests[s].state
      BY <2>1 DEF Moved
    <2>3. host # "down" /\ host' # "down" /\ {r} \subseteq Request /\ {r} \in SUBSET {r}
          /\ \A s \in Request : Held(s) /\ s \in {r} /\ requests[s].state = "waiting"
                                 => s \in {r}
      BY <1>1 DEF Turn
    <2> QED BY <1>1, <2>1, <2>2, <2>3, CancelledDialogs
  <1> QED BY <1>2, <1>3

(* What is swept is cancelled in Pi unless it has been answered already.     *)
LEMMA SweepDialogs ==
    ASSUME TypeInv, TableInv, DialogInv, Sweep, RowsClose
    PROVE  DialogInv'
  <1> DEFINE xs == Expired
             rs == Expired \cup Unapplied
  <1>1. /\ host # "down" /\ host' # "down" /\ UNCHANGED <<generation, inFlight>>
        /\ dialogs' = Without(rs) /\ Respond(AskersOf(xs), "cancelled")
    BY DEF Sweep
  <1>2. xs \subseteq Request /\ xs \in SUBSET rs
    BY DEF Expired
  <1>3. \A r \in Request \ rs : Held(r) => requests'[r].state = requests[r].state
    BY DEF Sweep, Failed, Moved
  <1>4. \A r \in Request : Held(r) /\ r \in rs /\ requests[r].state = "waiting" => r \in xs
    BY DEF Unapplied, DialogInv, HeldIsActive
  <1> HIDE DEF rs, xs
  <1> QED BY <1>1, <1>2, <1>3, <1>4, CancelledDialogs

LEMMA ShutdownDialogs ==
    ASSUME TypeInv, TableInv, DialogInv, ShutdownBegin, RowsClose
    PROVE  DialogInv'
  <1> DEFINE rs == {r \in Request : requests[r].state = "waiting"}
  <1>1. /\ host # "down" /\ host' # "down" /\ UNCHANGED <<generation, inFlight>>
        /\ requests' = Moved(rs, {"waiting"}, "dropped")
        /\ dialogs' = Without(rs) /\ Respond(AskersOf(rs), "cancelled")
    BY DEF ShutdownBegin
  <1>2. rs \subseteq Request /\ rs \in SUBSET rs
    OBVIOUS
  <1> HIDE DEF rs
  <1>3. \A r \in Request \ rs : Held(r) => requests'[r].state = requests[r].state
    BY <1>1 DEF Moved
  <1> QED BY <1>1, <1>2, <1>3, CancelledDialogs

(* Pi is gone: whatever it asked is no longer asked.                         *)
LEMMA PiExitsDialogs ==
    ASSUME TypeInv, DialogInv, PiExits
    PROVE  DialogInv'
  <1>1. /\ \A a \in Asker : asker'[a] = "idle" /\ answer'[a] = "none"
        /\ pi' = "gone" /\ host # "down"
        /\ UNCHANGED <<requests, generation, host, dialogs, inFlight>>
    BY DEF PiExits, ForgetPi, tables
  <1>2. /\ Question \subseteq Asker /\ "none" \notin Choice
        /\ \A r \in Request : requests[r].asker \in Asker
    BY ChoiceAssumption DEF Asker, Tool, TypeInv, TypeOK, RequestRow
  <1>3. GoneIsForgotten' /\ PiShape' /\ AskingIsHeld' /\ AnswerIsItsOwn'
    BY <1>1, <1>2 DEF GoneIsForgotten, PiShape, AskingIsHeld, Asking, AnswerIsItsOwn
  <1>4. HeldIsActive'
    BY <1>1 DEF DialogInv, HeldIsActive, Held
  <1>5. OwnQuestion'
    BY <1>1 DEF DialogInv, OwnQuestion
  <1> QED BY <1>3, <1>4, <1>5 DEF DialogInv

LEMMA HostStartFailsDialogs ==
    ASSUME DialogInv, HostStartFails
    PROVE  DialogInv'
  <1>1. /\ \A r \in Request : ~Held(r)
        /\ UNCHANGED <<requests, host, dialogs, inFlight, pi, asker, answer, letGo>>
    BY DEF HostStartFails, DialogInv, GoneIsForgotten, memory, child
  <1> QED BY <1>1 DEF DialogInv, GoneIsForgotten, HeldIsActive, PiShape, Held,
                      AskingIsHeld, Asking, AnswerIsItsOwn, OwnQuestion

LEMMA LateDialogs ==
    ASSUME TypeInv, DialogInv, NEW r \in Request, Late(r)
    PROVE  DialogInv'
  <1>1. UNCHANGED <<requests, generation, host, inFlight, pi, asker, answer, letGo>>
    BY DEF Late, tables, child
  <1>2. \A s \in Request : /\ dialogs'[s].kind = dialogs[s].kind
                           /\ dialogs'[s].tool = dialogs[s].tool
                           /\ dialogs'[s].responded = dialogs[s].responded
    BY DEF Late, TypeInv, TypeOK, Dialog
  <1>3. GoneIsForgotten' /\ HeldIsActive' /\ PiShape'
    BY <1>1, <1>2 DEF DialogInv, GoneIsForgotten, HeldIsActive, PiShape, Held
  <1>4. AskingIsHeld' /\ AnswerIsItsOwn'
    BY <1>1, <1>2 DEF DialogInv, AskingIsHeld, Asking, AnswerIsItsOwn, Held
  <1>5. OwnQuestion'
    BY <1>1, <1>2 DEF DialogInv, OwnQuestion
  <1> QED BY <1>3, <1>4, <1>5 DEF DialogInv

LEMMA HostProcessDialogs ==
    ASSUME TypeInv, TableInv, DialogInv, HostProcess
    PROVE  DialogInv'
  <1>1. CASE ShutdownBegin
    <2>1. RowsClose
      BY <1>1, MovedCloses DEF ShutdownBegin, ActiveStates, TypeInv
    <2> QED BY <1>1, <2>1, ShutdownDialogs
  <1> QED BY <1>1, HostStartDialogs, HostStartFailsDialogs, ForgottenDialogs
          DEF HostProcess, HostCrash, ShutdownEnd

LEMMA PiRecordDialogs ==
    ASSUME TypeInv, TableInv, DialogInv, PiRecord
    PROVE  DialogInv'
  <1>1. CASE DemoPromptTimesOut
    BY <1>1, SameDialogs DEF DemoPromptTimesOut, tables, child, DialogParts
  <1>2. CASE DemoNotify
    <2>1. RowsClose
      BY <1>2, MovedCloses DEF DemoNotify, Completed, ActiveStates, TypeInv
    <2> QED BY <1>2, <2>1, DemoNotifyDialogs
  <1>3. CASE Settle
    <2>1. RowsClose
      BY <1>3, MovedCloses DEF Settle, Failed, ActiveStates, TypeInv
    <2> QED BY <1>3, <2>1, SettleDialogs
  <1>4. ASSUME NEW a \in Tool, ToolStart(a)
        PROVE  DialogInv'
    <2>1. a \in Asker
      BY DEF Asker
    <2> QED BY <1>4, <2>1, AskerMoves DEF ToolStart, tables
  <1>5. ASSUME NEW a \in Tool, NEW error \in BOOLEAN, ToolEnd(a, error)
        PROVE  DialogInv'
    <2>1. RowsClose
      BY <1>5, MovedCloses DEF ToolEnd, Completed, Failed, ActiveStates, TypeInv
    <2> QED BY <1>5, <2>1, ToolEndDialogs
  <1>6. ASSUME NEW a \in Asker, RefuseDialog(a) \/ BusyDialog(a)
        PROVE  DialogInv'
    BY <1>6, AskerMoves DEF RefuseDialog, BusyDialog, Refuse, tables, memory
  <1>7. ASSUME NEW a \in Asker, AmbiguousDialog(a)
        PROVE  DialogInv'
    <2>1. PICK r \in Request : Fresh(r) /\ requests' = Created(a, r, "running")
      BY <1>7 DEF AmbiguousDialog
    <2>2. \A s \in Request : Held(s) => requests'[s] = requests[s]
      BY <2>1, CreatedRows DEF Fresh, DialogInv, HeldIsActive, TypeInv
    <2>3. /\ UNCHANGED <<generation, host, dialogs, inFlight, pi, letGo>>
          /\ asker[a] = "started" /\ Dispatching /\ Refuse(a)
      BY <1>7 DEF AmbiguousDialog, Refuse
    <2> QED BY <2>2, <2>3, AskerMoves
  <1> QED BY <1>1, <1>2, <1>3, <1>4, <1>5, <1>6, <1>7, PiExitsDialogs, OpenDialogs
          DEF PiRecord

LEMMA TickDialogs ==
    ASSUME TypeInv, TableInv, DialogInv, Tick
    PROVE  DialogInv'
  <1>1. CASE Sweep
    BY <1>1, SweepMoves, SweepDialogs DEF TypeInv
  <1>2. CASE HandleCancel
    <2>1. RowsClose
      BY <1>2, MovedCloses DEF HandleCancel, ActiveStates, TypeInv, child, RowsClose
    <2> QED BY <1>2, <2>1, HandleCancelDialogs
  <1>3. CASE HandleFollowup
    BY <1>3, SameDialogs DEF HandleFollowup, Settled, child, DialogParts
  <1> QED BY <1>1, <1>2, <1>3, DecisionDialogs DEF Tick, Handle

LEMMA NextDialogs ==
    ASSUME TypeInv, TableInv, DialogInv, [Next]_vars
    PROVE  DialogInv'
  <1>1. CASE UNCHANGED vars
    BY <1>1, SameDialogs DEF vars, DialogParts
  <1>2. CASE Worker
    BY <1>2, SameDialogs
       DEF Worker, CancelCommand, Tap, FollowupCommand, Enqueue, memory, child, DialogParts
  <1>3. CASE Time
    <2>1. ASSUME NEW r \in Request, Overdue(r)
          PROVE  DialogInv'
      <3>1. UNCHANGED DialogParts /\ requests' = [requests EXCEPT ![r].due = TRUE]
        BY <2>1 DEF Overdue, DialogParts, memory, child
      <3>2. \A s \in Request : requests[s] \in RequestRow /\ s \in DOMAIN requests
        BY DEF TypeInv, TypeOK
      <3>3. \A s \in Request : /\ requests'[s].asker = requests[s].asker
                               /\ requests'[s].gen = requests[s].gen
                               /\ requests'[s].decision = requests[s].decision
                               /\ requests'[s].state = requests[s].state
        BY <3>1, <3>2 DEF RequestRow
      <3> QED BY <3>1, <3>3, SameDialogs
    <2> QED BY <1>3, <2>1, LateDialogs DEF Time
  <1> QED BY <1>1, <1>2, <1>3, HostProcessDialogs, PiRecordDialogs, TickDialogs DEF Next

-----------------------------------------------------------------------------
(* What Pi was told                                                          *)

(* Only HandleDecision answers with a choice.                                *)
LEMMA NewAnswers ==
    ASSUME TypeInv, [Next]_vars, NEW a \in Asker, answer'[a] \in Choice
    PROVE  answer'[a] = answer[a] \/ HandleDecision
  <1>1. "none" \notin Choice /\ "cancelled" \notin Choice
    BY ChoiceAssumption
  <1>2. CASE UNCHANGED answer
    BY <1>2
  <1>3. CASE HostProcess
    BY <1>1, <1>3 DEF HostProcess, HostStart, HostStartFails, HostCrash, ShutdownBegin,
                      ShutdownEnd, ForgetPi, Respond, child
  <1>4. CASE PiRecord
    BY <1>1, <1>4 DEF PiRecord, PiExits, DemoPromptTimesOut, DemoNotify, Settle, ToolStart,
                      ToolEnd, RefuseDialog, BusyDialog, AmbiguousDialog, OpenDialog,
                      ForgetPi, Leaves, Refuse, child, TypeInv, TypeOK
  <1>5. CASE Tick
    BY <1>1, <1>5 DEF Tick, Sweep, Handle, HandleCancel, HandleFollowup, Respond, child
  <1>6. CASE Worker \/ Time
    BY <1>2, <1>6 DEF Worker, CancelCommand, Tap, FollowupCommand, Enqueue, Time, Overdue,
                      Late, child
  <1> QED BY <1>2, <1>3, <1>4, <1>5, <1>6 DEF Next, vars

LEMMA AnsweredStep ==
    ASSUME TypeInv, TableInv, DialogInv, AnsweredAsDecided, [Next]_vars, TableStep
    PROVE  AnsweredAsDecided'
  <1> SUFFICES ASSUME NEW a \in Asker, answer'[a] \in Choice
               PROVE  \E r \in Request : /\ requests'[r].asker = a
                                         /\ requests'[r].gen = generation'
                                         /\ requests'[r].decision = answer'[a]
    BY DEF AnsweredAsDecided
  <1>1. "none" \notin Choice
    BY ChoiceAssumption
  <1>2. CASE answer'[a] = answer[a]
    <2>1. PICK r \in Request : /\ requests[r].asker = a
                              /\ requests[r].gen = generation
                              /\ requests[r].decision = answer[a]
      BY <1>2 DEF AnsweredAsDecided
    <2>2. generation' = generation
      BY <1>1, <1>2 DEF TableStep, DialogInv, GoneIsForgotten
    <2>3. requests[r].state \notin {"none", "waiting"}
      BY <1>1, <1>2, <2>1 DEF TableInv, DecisionWhenDecided
    <2>4. CASE RowOpens
      <3>1. PICK b \in Asker, s \in Request, st \in {"running", "waiting"} :
               requests[s].state = "none" /\ requests' = Created(b, s, st)
        BY <2>4 DEF RowOpens, Fresh
      <3>2. r \in Request \ {s}
        BY <2>3, <3>1
      <3>3. Created(b, s, st)[r] = requests[r]
        BY <3>2, CreatedRows DEF TypeInv
      <3> QED BY <1>2, <2>1, <2>2, <3>1, <3>3
    <2>5. CASE RowDecided
      <3>1. requests'[r] = requests[r]
        BY <2>3, <2>5, DecidedRows DEF RowDecided, Decidable, TypeInv
      <3> QED BY <1>2, <2>1, <2>2, <3>1
    <2> QED BY <1>2, <2>1, <2>2, <2>4, <2>5 DEF TableStep, RowsClose
  <1>3. CASE answer'[a] # answer[a]
    <2> DEFINE r == Head(queue).req
               c == Head(queue).choice
    <2>1. /\ HandleDecision /\ r \in Request /\ c \in Choice
          /\ generation' = generation
      BY <1>3, NewAnswers, HeadOfQueue DEF HandleDecision, Turn, Settled
    <2>2. /\ Decidable(r) /\ requests' = Decided(r, c) /\ Respond(AskersOf({r}), c)
      BY <1>3, <2>1 DEF HandleDecision, child
    <2> HIDE DEF r, c
    <2>3. requests[r].asker = a /\ answer'[a] = c
      BY <1>3, <2>2 DEF Respond, AskersOf
    <2> QED BY <2>1, <2>2, <2>3, DecidedRows DEF Decidable, TypeInv
  <1> QED BY <1>2, <1>3

-----------------------------------------------------------------------------
(* What is claimed as applied                                                *)

LEMMA MovedState ==
    ASSUME TypeOK, NEW rs, NEW from, NEW to, NEW r \in Request
    PROVE  Moved(rs, from, to)[r].state =
               IF r \in rs /\ requests[r].state \in from THEN to ELSE requests[r].state
  <1>1. requests[r] \in RequestRow
    BY DEF TypeOK
  <1>2. [requests[r] EXCEPT !.state = to, !.due = FALSE].state = to
    BY <1>1 DEF RequestRow
  <1> QED BY <1>2 DEF Moved

(* Only a tool's end without an error and the demo's notify complete.        *)
LEMMA NewCompletions ==
    ASSUME TypeInv, [Next]_vars, NEW r \in Request,
           requests[r].state # "completed", requests'[r].state = "completed"
    PROVE  DemoNotify \/ \E a \in Tool : ToolEnd(a, FALSE)
  <1> USE DEF TypeInv
  <1>1. ASSUME NEW a \in Asker, NEW s \in Request, NEW st \in {"running", "waiting"},
               requests' = Created(a, s, st)
        PROVE  FALSE
    BY <1>1, CreatedRows
  <1>2. ASSUME NEW s \in Request, NEW c \in Choice, requests' = Decided(s, c)
        PROVE  FALSE
    BY <1>2, DecidedRows
  <1>3. ASSUME NEW rs, NEW from, requests' = Moved(rs, from, "dropped")
        PROVE  FALSE
    BY <1>3, MovedState
  <1>4. CASE HostProcess
    <2>1. CASE HostCrash
      BY <1>2, <2>1, HeadOfQueue DEF HostCrash, Turn
    <2> QED BY <1>3, <1>4, <2>1
            DEF HostProcess, HostStart, HostStartFails, ShutdownBegin, ShutdownEnd
  <1>5. CASE PiRecord
    <2>1. ASSUME NEW a \in Tool, ToolEnd(a, TRUE)
          PROVE  FALSE
      BY <1>3, <2>1 DEF ToolEnd, Failed
    <2>2. ASSUME NEW a \in Tool, ToolStart(a)
          PROVE  FALSE
      BY <2>2 DEF ToolStart, tables
    <2>3. ASSUME NEW a \in Asker,
                 RefuseDialog(a) \/ BusyDialog(a) \/ AmbiguousDialog(a) \/ OpenDialog(a)
          PROVE  FALSE
      <3>1. requests' = requests \/ \E s \in Request, st \in {"running", "waiting"} :
                                       requests' = Created(a, s, st)
        BY <2>3 DEF RefuseDialog, BusyDialog, AmbiguousDialog, OpenDialog, tables
      <3> QED BY <1>1, <3>1
    <2>4. CASE PiExits \/ DemoPromptTimesOut \/ Settle
      BY <1>3, <2>4 DEF PiExits, DemoPromptTimesOut, Settle, Failed, tables
    <2> QED BY <1>5, <2>1, <2>2, <2>3, <2>4 DEF PiRecord
  <1>6. CASE Tick
    <2>1. CASE Sweep
      BY <2>1, MovedState DEF Sweep, Failed
    <2>2. CASE HandleDecision
      BY <1>2, <2>2, HeadOfQueue DEF HandleDecision, Turn
    <2>3. CASE HandleCancel \/ HandleFollowup
      BY <1>3, <2>3 DEF HandleCancel, HandleFollowup
    <2> QED BY <1>6, <2>1, <2>2, <2>3 DEF Tick, Handle
  <1>7. CASE Time
    <2>1. \A s \in Request : requests[s] \in RequestRow /\ s \in DOMAIN requests
      BY DEF TypeOK
    <2> QED BY <1>7, <2>1 DEF Time, Overdue, Late, tables, RequestRow
  <1>8. CASE Worker \/ UNCHANGED vars
    BY <1>8 DEF Worker, CancelCommand, Tap, FollowupCommand, Enqueue, vars
  <1> QED BY <1>4, <1>5, <1>6, <1>7, <1>8 DEF Next

LEMMA CompletedStep ==
    ASSUME TypeInv, TableInv, DialogInv, [Next]_vars, NEW r \in Request,
           requests[r].state # "completed", requests'[r].state = "completed"
    PROVE  /\ requests[r].decision # "none"
           /\ \/ answer[requests[r].asker] = requests[r].decision
              \/ TakenForAnother(r) \/ GateOfAnother(r)
  <1>1. "none" \notin Choice /\ Approve \in Choice
    BY ChoiceAssumption
  <1>2. CASE DemoNotify
    <2> DEFINE proven == {s \in Request :
                            /\ demo /\ answer[Demo] \in Choice
                            /\ dialogs[s].kind = "demo" /\ dialogs[s].responded
                            /\ requests[s].asker \notin Gated
                            /\ requests[s].state = "resuming"
                            /\ requests[s].decision = answer[Demo]}
    <2>1. requests' = Completed(proven)
      BY <1>2 DEF DemoNotify
    <2>2. r \in proven
      <3> HIDE DEF proven
      <3> QED BY <2>1, MovedState DEF Completed, TypeInv
    <2>3. requests[r].asker \in Asker \ Question
      BY <2>2 DEF DialogInv, OwnQuestion, Held, TypeInv, TypeOK, RequestRow
    <2> QED BY <1>1, <2>2, <2>3 DEF Asker, Tool
  <1>3. ASSUME NEW a \in Tool, ToolEnd(a, FALSE)
        PROVE  /\ requests[r].decision # "none"
               /\ \/ answer[requests[r].asker] = requests[r].decision
                  \/ TakenForAnother(r) \/ GateOfAnother(r)
    <2>1. /\ requests' = Completed(ClosedBy(a)) /\ pi = "up"
          /\ a \in Gated => answer[a] = Approve
      BY <1>3 DEF ToolEnd, Dispatching
    <2>2. r \in ClosedBy(a) /\ requests[r].state \in {"running", "resuming"}
      BY <2>1, MovedState DEF Completed, TypeInv
    <2>3. Held(r)
      BY <2>2 DEF ClosedBy, AnsweredGates, Held
    <2>4. requests[r].state = "resuming" /\ requests[r].decision \in Choice
      BY <2>2, <2>3 DEF DialogInv, HeldIsActive, TableInv, DecisionWhenDecided
    <2>5. CASE a \in Question
      <3>1. dialogs[r].kind = "tool_question" /\ dialogs[r].tool = a
        BY <2>2, <2>5 DEF ClosedBy
      <3>2. CASE requests[r].asker = a
        BY <1>1, <2>1, <2>4, <3>1, <3>2 DEF DialogInv, OwnQuestion
      <3>3. CASE requests[r].asker # a
        BY <1>1, <1>3, <2>4, <2>5, <3>1, <3>3 DEF TakenForAnother
      <3> QED BY <3>2, <3>3
    <2>6. CASE a \in Gated
      <3>1. dialogs[r].kind = "gate"
        BY <2>2, <2>6, AskerAssumption DEF ClosedBy, AnsweredGates
      <3>2. CASE requests[r].asker = a
        BY <1>1, <2>1, <2>3, <2>4, <2>6, <3>2 DEF DialogInv, AnswerIsItsOwn
      <3>3. CASE requests[r].asker # a
        BY <1>1, <1>3, <2>1, <2>4, <2>6, <3>1, <3>3 DEF GateOfAnother
      <3> QED BY <3>2, <3>3
    <2> QED BY <2>5, <2>6 DEF Tool
  <1> QED BY <1>2, <1>3, NewCompletions

-----------------------------------------------------------------------------
(* What the host forgets                                                     *)

RespondedIsHeld == \A r \in Request : dialogs[r].responded => Held(r)

LEMMA RespondedStep ==
    ASSUME TypeInv, RespondedIsHeld, [Next]_vars
    PROVE  RespondedIsHeld'
  <1> USE DEF RespondedIsHeld, Held
  <1>1. CASE dialogs' = dialogs
    BY <1>1
  <1>2. CASE \E rs : dialogs' = Without(rs)
    BY <1>2 DEF Without, NoDialog
  <1>3. CASE ForgetMemory
    BY <1>3 DEF ForgetMemory, NoDialog
  <1>4. CASE \E r \in Request : dialogs' = [dialogs EXCEPT ![r] = Classified]
    BY <1>4 DEF Classified, NoDialog, TypeInv, TypeOK
  <1>5. CASE HandleDecision
    <2> DEFINE r == Head(queue).req
    <2>1. /\ r \in Request
          /\ \/ dialogs' = dialogs
             \/ dialogs' = [dialogs EXCEPT ![r].responded = TRUE] /\ Held(r)
      BY <1>5, HeadOfQueue DEF HandleDecision, Turn
    <2> HIDE DEF r
    <2>2. \A s \in Request : /\ dialogs'[s].kind = dialogs[s].kind
                             /\ s # r => dialogs'[s] = dialogs[s]
      BY <2>1 DEF TypeInv, TypeOK, Dialog
    <2> QED BY <2>1, <2>2
  <1>6. CASE \E r \in Request : Late(r)
    BY <1>6 DEF Late, TypeInv, TypeOK, Dialog
  <1>7. CASE HostProcess
    BY <1>1, <1>2, <1>3, <1>7
       DEF HostProcess, HostStart, HostStartFails, HostCrash, ShutdownBegin, ShutdownEnd,
           memory
  <1>8. CASE PiRecord
    BY <1>1, <1>2, <1>4, <1>8
       DEF PiRecord, PiExits, DemoPromptTimesOut, DemoNotify, Settle, ToolStart, ToolEnd,
           RefuseDialog, BusyDialog, AmbiguousDialog, OpenDialog, memory
  <1>9. CASE Worker \/ UNCHANGED vars
    BY <1>1, <1>9 DEF Worker, CancelCommand, Tap, FollowupCommand, Enqueue, memory, vars
  <1>10. CASE Tick
    BY <1>1, <1>2, <1>5, <1>10 DEF Tick, Sweep, Handle, HandleCancel, HandleFollowup
  <1>11. CASE Time
    BY <1>1, <1>6, <1>11 DEF Time, Overdue, memory
  <1> QED BY <1>7, <1>8, <1>9, <1>10, <1>11 DEF Next

(* The rows of the dialogs taken off the map are closed, or still wait.      *)
LEMMA TakenOffTheMap ==
    ASSUME TypeInv, DialogInv, NEW r \in Request, dialogs[r].responded,
           NEW rs, NEW from, "resuming" \in from, NEW to \in {"completed", "dropped"},
           requests' = Moved(rs, from, to), r \in rs, Held(r)
    PROVE  requests'[r].state \notin ActiveStates
  <1>1. requests[r].state = "resuming"
    BY DEF DialogInv, HeldIsActive
  <1> QED BY <1>1, MovedState DEF TypeInv, ActiveStates

LEMMA ForgottenStep ==
    ASSUME TypeInv, DialogInv, [Next]_vars, NEW r \in Request,
           dialogs[r].responded, ~dialogs'[r].responded, Held(r)
    PROVE  requests'[r].state \notin ActiveStates \/ host' = "down"
  <1>1. requests[r].state = "resuming" /\ ~Undecided(r)
    BY DEF DialogInv, HeldIsActive, Undecided
  <1>2. dialogs' # dialogs
    OBVIOUS
  <1>3. ASSUME NEW rs, dialogs' = Without(rs)
        PROVE  r \in rs
    BY <1>3 DEF Without
  <1>4. CASE HostProcess
    BY <1>1, <1>2, <1>3, <1>4
       DEF HostProcess, HostStart, HostStartFails, HostCrash, ShutdownBegin, ShutdownEnd,
           memory
  <1>5. CASE PiRecord
    <2>1. ASSUME NEW a \in Tool, NEW error \in BOOLEAN, ToolEnd(a, error)
          PROVE  requests'[r].state \notin ActiveStates
      BY <1>3, <2>1, TakenOffTheMap DEF ToolEnd, Failed, Completed, ActiveStates
    <2>2. CASE Settle \/ DemoNotify
      BY <1>3, <2>2, TakenOffTheMap DEF Settle, DemoNotify, Failed, Completed, ActiveStates
    <2>3. ASSUME NEW a \in Asker, OpenDialog(a)
          PROVE  FALSE
      <3>1. PICK s \in Request : requests[s].state = "none" /\
                                dialogs' = [dialogs EXCEPT ![s] = Classified]
        BY <2>3 DEF OpenDialog, Fresh
      <3> QED BY <1>1, <3>1 DEF TypeInv, TypeOK
    <2> QED BY <1>2, <1>5, <2>1, <2>2, <2>3
            DEF PiRecord, PiExits, DemoPromptTimesOut, ToolStart, RefuseDialog, BusyDialog,
                AmbiguousDialog, memory
  <1>6. CASE Tick
    <2>1. CASE Sweep
      <3>1. r \in Unapplied /\ r \notin Expired
        BY <1>1, <1>3, <2>1 DEF Sweep, Expired
      <3> QED BY <1>1, <2>1, <3>1, MovedState DEF Sweep, Failed, TypeInv, ActiveStates
    <2>2. CASE HandleDecision
      BY <1>2, <2>2, HeadOfQueue DEF HandleDecision, Turn, TypeInv, TypeOK, Dialog
    <2>3. CASE HandleCancel
      BY <1>1, <1>2, <1>3, <2>3 DEF HandleCancel
    <2>4. CASE HandleFollowup
      BY <1>2, <2>4 DEF HandleFollowup
    <2> QED BY <1>6, <2>1, <2>2, <2>3, <2>4 DEF Tick, Handle
  <1>7. CASE Time
    BY <1>2, <1>7 DEF Time, Overdue, Late, memory, TypeInv, TypeOK, Dialog
  <1>8. CASE Worker \/ UNCHANGED vars
    BY <1>2, <1>8 DEF Worker, CancelCommand, Tap, FollowupCommand, Enqueue, memory, vars
  <1> QED BY <1>4, <1>5, <1>6, <1>7, <1>8 DEF Next

-----------------------------------------------------------------------------
(* Theorems *)

(* In every reachable state, the rows, the dialogs the host holds and what   *)
(* Pi blocks on fit together as IInv says.                                   *)
THEOREM Invariance == Spec => []IInv
  <1>1. Init => IInv
    <2> SUFFICES ASSUME Init PROVE IInv
      OBVIOUS
    <2>1. TypeInv
      <3>1. NoRequest \in RequestRow /\ NoDialog \in Dialog
        BY DEF NoRequest, RequestRow, NoDialog, Dialog, Asker
      <3>2. queue = <<>> /\ Len(queue) = 0 /\ queue \in Seq(Action) /\ DOMAIN queue = {}
        BY DEF Init
      <3>3. MaxActions >= 0 /\ 0 \in 0..MaxHosts
        BY BoundAssumption
      <3>4. TypeOK
        BY <3>1, <3>2, <3>3 DEF Init, TypeOK
      <3> QED BY <3>2, <3>4 DEF TypeInv, QueueOK
    <2>2. TableInv
      BY DEF Init, NoRequest, TableInv, DecisionWhenDecided, OneActive, Active
    <2>3. /\ \A a \in Asker : asker[a] = "idle" /\ answer[a] = "none"
          /\ Question \subseteq Asker
          /\ "none" \notin Choice /\ \A r \in Request : dialogs[r] = NoDialog
          /\ pi = "gone" /\ inFlight = {}
      BY ChoiceAssumption DEF Init, Tool, Asker
    <2>4. DialogInv
      BY <2>3 DEF DialogInv, GoneIsForgotten, HeldIsActive, PiShape, NoDialog, Held,
                  AskingIsHeld, Asking, AnswerIsItsOwn, OwnQuestion
    <2>5. AnsweredAsDecided
      BY <2>3 DEF AnsweredAsDecided
    <2> QED BY <2>1, <2>2, <2>4, <2>5 DEF IInv
  <1>2. IInv /\ [Next]_vars => IInv'
    <2> SUFFICES ASSUME IInv, [Next]_vars PROVE IInv'
      OBVIOUS
    <2>1. TypeInv' /\ TableStep
      BY NextTypes DEF IInv
    <2> QED BY <2>1, TableInvStep, NextDialogs, AnsweredStep DEF IInv
  <1> QED BY <1>1, <1>2, PTL DEF Spec

(* Every variable of the host, of its tables and of Pi keeps its type.       *)
THEOREM TypeCorrect == Spec => []TypeOK
  <1>1. IInv => TypeOK
    BY DEF IInv, TypeInv
  <1> QED BY <1>1, Invariance, PTL

(* What Pi is told is what was recorded, for the dialog's own row and in the *)
(* generation that runs (submitDecision, respondUi).                         *)
THEOREM AnsweredAsDecidedTheorem == Spec => []AnsweredAsDecided
  <1>1. IInv => AnsweredAsDecided
    BY DEF IInv
  <1> QED BY <1>1, Invariance, PTL

(* A request is completed only when its own asker was told the decision that *)
(* is recorded for it (tool_execution_end, and the demo's notify), except by *)
(* the end of the question its dialog was taken for or, a gate, by that of   *)
(* another approved gated tool: for any tools, run in parallel.              *)
THEOREM CompletedOnEvidenceTheorem == Spec => CompletedOnEvidence
  <1>1. IInv /\ [Next]_vars =>
           [\A r \in Request :
               requests[r].state # "completed" /\ requests'[r].state = "completed" =>
                   /\ requests[r].decision # "none"
                   /\ \/ answer[requests[r].asker] = requests[r].decision
                      \/ TakenForAnother(r) \/ GateOfAnother(r)]_vars
    BY CompletedStep DEF IInv
  <1> QED BY <1>1, Invariance, PTL DEF Spec, CompletedOnEvidence

(* When a followup may be sent (#handleFollowupAction), Pi blocks on no      *)
(* dialog but one that another question's end dropped.                       *)
THEOREM PromptsNeverInterleaveTheorem == Spec => PromptsNeverInterleave
  <1>1. IInv /\ [Next]_vars =>
           [HandleFollowup /\ MayPrompt =>
               \A a \in Asker : Asking(a) => a \in letGo]_vars
    BY DEF IInv, DialogInv, AskingIsHeld, MayPrompt
  <1> QED BY <1>1, Invariance, PTL DEF Spec, PromptsNeverInterleave

(* A dialog that was answered is not forgotten before its request is closed, *)
(* unless the host goes down (every #pendingDialogs.delete).                 *)
THEOREM ForgetsOnlyClosed ==
    Spec => [][\A r \in Request :
                  dialogs[r].responded /\ ~dialogs'[r].responded =>
                      requests'[r].state \notin ActiveStates \/ host' = "down"]_vars
  <1>1. Init => RespondedIsHeld
    BY DEF Init, RespondedIsHeld, NoDialog
  <1>2. IInv /\ RespondedIsHeld /\ [Next]_vars => RespondedIsHeld'
    BY RespondedStep DEF IInv
  <1>3. IInv /\ RespondedIsHeld /\ [Next]_vars =>
           [\A r \in Request :
               dialogs[r].responded /\ ~dialogs'[r].responded =>
                   requests'[r].state \notin ActiveStates \/ host' = "down"]_vars
    BY ForgottenStep DEF IInv, RespondedIsHeld
  <1> QED BY <1>1, <1>2, <1>3, Invariance, PTL DEF Spec

-----------------------------------------------------------------------------
(* The abstract request                                                      *)

LEMMA PhaseOfState ==
    /\ Phase("none") = "none"
    /\ \A st \in {"running", "waiting"} : Phase(st) = "open"
    /\ Phase("resuming") = "decided"
    /\ \A st \in {"completed", "dropped"} : Phase(st) = "closed"
  BY DEF Phase

LEMMA LiveIsActive ==
    ASSUME TypeOK, NEW r \in Request
    PROVE  Promise!Live(r) <=> Active(r)
  <1>1. requests[r].state \in {"none", "running", "waiting", "resuming", "completed",
                               "dropped"}
    BY DEF TypeOK, RequestRow
  <1> QED BY <1>1, PhaseOfState DEF Promise!Live, Active

(* The rows that leave the active states are closed together.                *)
LEMMA ClosingRefines ==
    ASSUME TypeInv, RowsClose, generation' = generation
    PROVE  Promise!Next
  <1> DEFINE rs == {r \in Request : requests'[r].state # requests[r].state}
  <1>1. \A r \in rs : Promise!Live(r)
    BY LiveIsActive DEF RowsClose, TypeInv
  <1>2. ASSUME NEW r \in Request
        PROVE  Phase(requests'[r].state) =
                   IF r \in rs THEN "closed" ELSE Phase(requests[r].state)
    BY <1>2, PhaseOfState DEF RowsClose
  <1>3. [r \in Request |-> Phase(requests'[r].state)] =
            [r \in Request |-> IF r \in rs THEN "closed"
                              ELSE [s \in Request |-> Phase(requests[s].state)][r]]
    BY <1>2
  <1>4. /\ [r \in Request |-> requests'[r].gen] = [r \in Request |-> requests[r].gen]
        /\ [r \in Request |-> requests'[r].decision] =
               [r \in Request |-> requests[r].decision]
    BY DEF RowsClose
  <1>5. rs \in SUBSET Request
    OBVIOUS
  <1> HIDE DEF rs
  <1>6. Promise!Close(rs)
    BY <1>1, <1>3, <1>4 DEF Promise!Close
  <1> QED BY <1>5, <1>6 DEF Promise!Next

LEMMA OpeningRefines ==
    ASSUME TypeInv, TableInv, RowOpens, generation' = generation
    PROVE  Promise!Next
  <1>1. PICK a \in Asker, r \in Request, st \in {"running", "waiting"} :
           /\ requests[r].state = "none" /\ ~SessionBusy
           /\ requests' = Created(a, r, st)
    BY DEF RowOpens, Fresh
  <1>2. /\ \A s \in Request \ {r} : requests'[s] = requests[s]
        /\ requests'[r].gen = generation /\ requests'[r].state = st
        /\ requests'[r].decision = "none" /\ requests[r].decision = "none"
    BY <1>1, CreatedRows DEF TypeInv, TableInv, DecisionWhenDecided
  <1>3. Phase(requests'[r].state) = "open" /\ Phase(requests[r].state) = "none"
    BY <1>1, <1>2, PhaseOfState
  <1>4. \A s \in Request : ~Promise!Live(s)
    BY <1>1, LiveIsActive DEF SessionBusy, TypeInv
  <1>5. [s \in Request |-> Phase(requests'[s].state)] =
            [[s \in Request |-> Phase(requests[s].state)] EXCEPT ![r] = "open"]
    BY <1>2, <1>3
  <1>6. [s \in Request |-> requests'[s].gen] =
            [[s \in Request |-> requests[s].gen] EXCEPT ![r] = generation]
    BY <1>2
  <1>7. [s \in Request |-> requests'[s].decision] =
            [s \in Request |-> requests[s].decision]
    BY <1>2
  <1>8. Promise!Open(r)
    BY <1>3, <1>4, <1>5, <1>6, <1>7 DEF Promise!Open
  <1> QED BY <1>8 DEF Promise!Next

LEMMA DecidingRefines ==
    ASSUME TypeInv, RowDecided, generation' = generation
    PROVE  Promise!Next
  <1>1. PICK r \in Request, c \in Choice :
           /\ requests[r].state = "waiting" /\ requests[r].gen = generation
           /\ requests' = Decided(r, c)
    BY DEF RowDecided, Decidable
  <1>2. /\ \A s \in Request \ {r} : requests'[s] = requests[s]
        /\ requests'[r].gen = requests[r].gen /\ requests'[r].state = "resuming"
        /\ requests'[r].decision = c
    BY <1>1, DecidedRows DEF TypeInv
  <1>3. Phase(requests'[r].state) = "decided" /\ Phase(requests[r].state) = "open"
    BY <1>1, <1>2, PhaseOfState
  <1>4. [s \in Request |-> Phase(requests'[s].state)] =
            [[s \in Request |-> Phase(requests[s].state)] EXCEPT ![r] = "decided"]
    BY <1>2, <1>3
  <1>5. [s \in Request |-> requests'[s].gen] = [s \in Request |-> requests[s].gen]
    BY <1>2
  <1>6. [s \in Request |-> requests'[s].decision] =
            [[s \in Request |-> requests[s].decision] EXCEPT ![r] = c]
    BY <1>2
  <1>7. Promise!Decide(r, c)
    BY <1>1, <1>3, <1>4, <1>5, <1>6 DEF Promise!Decide
  <1> QED BY <1>7 DEF Promise!Next

(* The host keeps the promise made about requests: one open at a time, each  *)
(* decided at most once and by the host that asked, closed for good.         *)
THEOREM ImplementsLifecycle == Spec => RequestPromise
  <1>1. Init => Promise!Init
    BY PhaseOfState DEF Init, NoRequest, Promise!Init
  <1>2. IInv /\ [Next]_vars => [Promise!Next]_(Promise!vars)
    <2> SUFFICES ASSUME IInv, [Next]_vars PROVE Promise!Next
      OBVIOUS
    <2>1. TypeInv /\ TableInv /\ TableStep
      BY NextTypes DEF IInv
    <2>2. CASE requests' = requests /\ generation' = generation + 1
      <3>1. Promise!NewEra
        BY <2>2 DEF Promise!NewEra
      <3> QED BY <3>1 DEF Promise!Next
    <2> QED BY <2>1, <2>2, ClosingRefines, OpeningRefines, DecidingRefines DEF TableStep
  <1> QED BY <1>1, <1>2, Invariance, PTL DEF Spec, RequestPromise, Promise!Spec
=============================================================================
