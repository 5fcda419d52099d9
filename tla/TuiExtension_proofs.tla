------------------------ MODULE TuiExtension_proofs -------------------------
(***************************************************************************)
(* Proofs about TuiExtension for every set of links and commands, every    *)
(* size of a batch and every bound on events and on throwing calls.  Every *)
(* step of the extension is a step of the store, so that the theorems of   *)
(* TuiStore_proofs hold here and are used as lemmas.                       *)
(***************************************************************************)
EXTENDS TuiExtension, Integers, TLAPS

Tables == INSTANCE TuiStore_proofs WITH
    Tracking <- Link, Connection <- Link, NoConnection <- NoLink,
    ShortId <- Link, NoShortId <- NoLink, SessionState <- States

(* What TypeOK says of the memory of the extension, of Pi and the histories. *)
MemoryType ==
    /\ {conn, optIn} \subseteq Link \cup {NoLink}
    /\ {agentActive, uiPrompt} \subseteq BOOLEAN
    /\ pi \in {"idle", "starting", "running"}
    /\ kind \in [Command -> Kind \cup {"none"}]
    /\ executed \in Seq(Command) /\ announced \subseteq Command
    /\ faults \in 0..MaxFaults

(* What it says of the poll tick; and a tick that runs belongs to a link.    *)
TickType ==
    /\ polling \in Link \cup {NoLink} /\ verdict \in BOOLEAN
    /\ phase \in {"idle", "claiming", "handling", "settling", "announcing",
                  "unlinking"}
    /\ batch \in Seq(Command) /\ Len(batch) <= MaxClaims
    /\ (phase = "idle") = (batch = <<>>)
    /\ phase # "idle" => polling \in Link

TypeInv == Store!TypeOK /\ MemoryType /\ TickType

-----------------------------------------------------------------------------
(* The tables                                                                *)

LEMMA TablesAssumptions ==
    /\ NoLink \notin Link
    /\ "connected" \in States
    /\ MaxEvents \in Nat /\ MaxClaims \in Nat \ {0} /\ MaxFaults \in Nat
BY NoLinkAssumption, BoundsAssumption DEF States

(* TuiExtension and this module name the same tables.                        *)
LEMMA SameType == Store!TypeOK <=> Tables!TypeOK
BY DEF Store!TypeOK, Tables!TypeOK, Store!Row, Tables!Row, Store!Event,
       Tables!Event, Store!CommandRow, Tables!CommandRow, Store!CommandState,
       Tables!CommandState, Store!EventKind, Tables!EventKind

LEMMA SameTypeNext == Store!TypeOK' <=> Tables!TypeOK'
BY DEF Store!TypeOK, Tables!TypeOK, Store!Row, Tables!Row, Store!Event,
       Tables!Event, Store!CommandRow, Tables!CommandRow, Store!CommandState,
       Tables!CommandState, Store!EventKind, Tables!EventKind

(* A step of the store, under the two names it has here.                     *)
StoreNext == Store!Next /\ Tables!Next

(* Each transaction the extension and its broker issue is one of the store's.*)
LEMMA RegisterIsNext ==
    ASSUME NEW l \in Link
    PROVE  /\ Store!RegisterInsert(l, l, l) => StoreNext
           /\ Store!RegisterRefresh(l, l) => StoreNext
<1>1. Store!RegisterInsert(l, l, l) => Tables!RegisterInsert(l, l, l)
  BY DEF Store!RegisterInsert, Tables!RegisterInsert, Store!Alive, Tables!Alive,
         Store!HasRow, Tables!HasRow, Store!EventRoom, Tables!EventRoom,
         Store!ShortIdsInUse, Tables!ShortIdsInUse, Store!NewRow, Tables!NewRow,
         Store!AppendEventRow, Tables!AppendEventRow
<1>2. Store!RegisterRefresh(l, l) => Tables!RegisterRefresh(l, l)
  BY DEF Store!RegisterRefresh, Tables!RegisterRefresh, Store!Alive, Tables!Alive,
         Store!Owns, Tables!Owns, Store!NewRow, Tables!NewRow
<1>3. QED
  BY <1>1, <1>2 DEF StoreNext, Store!Next, Tables!Next

LEMMA RowIsNext ==
    ASSUME NEW l \in Link
    PROVE  /\ Store!Heartbeat(l, l) => StoreNext
           /\ \A st \in States : Store!SetState(l, l, st) => StoreNext
           /\ Store!Disconnect(l, l) => StoreNext
           /\ Store!AppendEvent(l, l) => StoreNext
           /\ Store!GoStale(l) => StoreNext
<1>1. Store!Heartbeat(l, l) => Tables!Heartbeat(l, l)
  BY DEF Store!Heartbeat, Tables!Heartbeat, Store!Alive, Tables!Alive,
         Store!Owns, Tables!Owns
<1>2. \A st \in States : Store!SetState(l, l, st) => Tables!SetState(l, l, st)
  BY DEF Store!SetState, Tables!SetState, Store!Alive, Tables!Alive,
         Store!Owns, Tables!Owns
<1>3. Store!Disconnect(l, l) => Tables!Disconnect(l, l)
  BY DEF Store!Disconnect, Tables!Disconnect, Store!Alive, Tables!Alive,
         Store!Owns, Tables!Owns, Store!EventRoom, Tables!EventRoom,
         Store!NoRow, Tables!NoRow, Store!AppendEventRow, Tables!AppendEventRow
<1>4. Store!AppendEvent(l, l) => Tables!AppendEvent(l, l)
  BY DEF Store!AppendEvent, Tables!AppendEvent, Store!Alive, Tables!Alive,
         Store!Owns, Tables!Owns, Store!EventRoom, Tables!EventRoom,
         Store!AppendEventRow, Tables!AppendEventRow
<1>5. Store!GoStale(l) => Tables!GoStale(l)
  BY DEF Store!GoStale, Tables!GoStale, Store!HasRow, Tables!HasRow
<1>6. QED
  BY <1>1, <1>2, <1>3, <1>4, <1>5 DEF StoreNext, Store!Next, Tables!Next

LEMMA CommandIsNext ==
    ASSUME NEW l \in Link, NEW k \in Command
    PROVE  /\ Store!EnqueueCommand(l, k) => StoreNext
           /\ Store!ClaimNextCommand(l, l) => StoreNext
           /\ Store!CompleteCommand(k, l) => StoreNext
           /\ Store!FailCommand(k, l) => StoreNext
<1>1. Store!EnqueueCommand(l, k) => Tables!EnqueueCommand(l, k)
  BY DEF Store!EnqueueCommand, Tables!EnqueueCommand, Store!HasRow, Tables!HasRow,
         Store!Queued, Tables!Queued
<1>2. Store!ClaimNextCommand(l, l) => Tables!ClaimNextCommand(l, l)
  BY DEF Store!ClaimNextCommand, Tables!ClaimNextCommand, Store!Alive,
         Tables!Alive, Store!Owns, Tables!Owns, Store!OldestPending,
         Tables!OldestPending, Store!PendingAt, Tables!PendingAt
<1>3. Store!CompleteCommand(k, l) => Tables!CompleteCommand(k, l)
  BY DEF Store!CompleteCommand, Tables!CompleteCommand, Store!Alive,
         Tables!Alive, Store!MaySettle, Tables!MaySettle
<1>4. Store!FailCommand(k, l) => Tables!FailCommand(k, l)
  BY DEF Store!FailCommand, Tables!FailCommand, Store!Alive,
         Tables!Alive, Store!MaySettle, Tables!MaySettle
<1>5. QED
  BY <1>1, <1>2, <1>3, <1>4 DEF StoreNext, Store!Next, Tables!Next

LEMMA DeathIsNext ==
    ASSUME NEW cs \in SUBSET Link, Store!ProcessDies(cs)
    PROVE  StoreNext
<1>1. Tables!ProcessDies(cs)
  BY DEF Store!ProcessDies, Tables!ProcessDies, Store!Alive, Tables!Alive
<1>2. QED
  BY <1>1 DEF StoreNext, Store!Next, Tables!Next

LEMMA DerivedIsState ==
    ASSUME NEW agent, NEW prompt
    PROVE  Derived(agent, prompt) \in States
BY DEF Derived, States

LEMMA UsedAreLinks == Store!TypeOK => Used \in SUBSET Link
<1> SUFFICES ASSUME Store!TypeOK PROVE Used \in SUBSET Link
  OBVIOUS
<1>1. events \in Seq(Store!Event)
  BY DEF Store!TypeOK
<1>2. \A i \in DOMAIN events : events[i] \in Store!Event
  BY <1>1
<1>3. QED
  BY <1>2 DEF Used, Store!Event

(* The head of a batch and what is left of it.                               *)
LEMMA BatchShape ==
    ASSUME TickType, phase # "idle"
    PROVE  /\ Len(batch) \in Nat \ {0} /\ DOMAIN batch = 1..Len(batch)
           /\ Current = batch[1] /\ Current \in Command
           /\ Len(batch) # 1 => /\ Tail(batch) \in Seq(Command)
                                /\ Tail(batch) # <<>>
                                /\ Len(Tail(batch)) = Len(batch) - 1
                                /\ \A i \in DOMAIN Tail(batch) :
                                      /\ i + 1 \in DOMAIN batch
                                      /\ Tail(batch)[i] = batch[i + 1]
<1>1. batch \in Seq(Command) /\ batch # <<>>
  BY DEF TickType
<1>2. Len(batch) \in Nat \ {0} /\ DOMAIN batch = 1..Len(batch)
  BY <1>1
<1>3. Current = batch[1] /\ Current \in Command
  BY <1>1, <1>2 DEF Current
<1>4. ASSUME Len(batch) # 1
      PROVE  /\ Tail(batch) \in Seq(Command)
             /\ Len(Tail(batch)) = Len(batch) - 1 /\ Tail(batch) # <<>>
             /\ \A i \in DOMAIN Tail(batch) :
                   i + 1 \in DOMAIN batch /\ Tail(batch)[i] = batch[i + 1]
  <2>1. Tail(batch) \in Seq(Command) /\ Len(Tail(batch)) = Len(batch) - 1
    BY <1>1, <1>2
  <2>2. Tail(batch) # <<>>
    <3>1. Len(Tail(batch)) # 0
      BY <1>2, <1>4, <2>1
    <3>2. Len(<<>>) = 0
      OBVIOUS
    <3>3. QED
      BY <3>1, <3>2
  <2>3. ASSUME NEW i \in DOMAIN Tail(batch)
        PROVE  i + 1 \in DOMAIN batch /\ Tail(batch)[i] = batch[i + 1]
    <3>1. i \in 1..(Len(batch) - 1) /\ i + 1 \in 1..Len(batch)
      BY <1>2, <2>1
    <3>2. QED
      BY <1>1, <1>2, <3>1
  <2>4. QED
    BY <2>1, <2>2, <2>3
<1>5. QED
  BY <1>2, <1>3, <1>4
-----------------------------------------------------------------------------
(* Every step is a step of the store                                         *)

(* Dispose releases the row of the connection, or a call threw.              *)
LEMMA DisposeIsStep ==
    ASSUME MemoryType, Dispose
    PROVE  StoreNext \/ UNCHANGED storeVars
<1>1. conn \in Link
  BY DEF MemoryType, Dispose, Connected
<1>2. QED
  BY <1>1, RowIsNext DEF Dispose, Throws

LEMMA PushIsStep ==
    ASSUME MemoryType, NEW agent, NEW prompt, Push(agent, prompt)
    PROVE  StoreNext \/ UNCHANGED storeVars
<1>1. CASE Connected
  <2>1. conn \in Link
    BY <1>1 DEF MemoryType, Connected
  <2>2. Derived(agent, prompt) \in States
    BY DerivedIsState
  <2>3. QED
    BY <1>1, <2>1, <2>2, RowIsNext DEF Push, Throws
<1>2. CASE ~Connected
  BY <1>2 DEF Push
<1>3. QED
  BY <1>1, <1>2

LEMMA TickIsStep ==
    ASSUME TypeInv, Tick \/ TickThrows
    PROVE  StoreNext \/ UNCHANGED storeVars
<1> USE DEF TypeInv
<1>1. CASE PollClaim
  <2>1. conn \in Link /\ Store!ClaimNextCommand(conn, conn)
    BY <1>1 DEF PollClaim, Connected, MemoryType
  <2>2. PICK k : k \in Command
    <3>1. PICK i \in DOMAIN queue[conn] : TRUE
      BY <2>1 DEF Store!ClaimNextCommand
    <3>2. queue[conn] \in Seq(Command)
      BY <2>1 DEF Store!TypeOK
    <3>3. queue[conn][i] \in Command
      BY <3>1, <3>2
    <3>4. QED
      BY <3>3
  <2>3. QED
    BY <2>1, <2>2, CommandIsNext
<1>2. CASE ReportSettle
  <2>1. polling \in Link /\ Current \in Command
    BY <1>2, BatchShape DEF ReportSettle, TickType
  <2>2. QED
    BY <1>2, <2>1, CommandIsNext DEF ReportSettle
<1>3. CASE ReportAnnounce
  <2>1. polling \in Link
    BY <1>3 DEF ReportAnnounce, TickType
  <2>2. QED
    BY <1>3, <2>1, RowIsNext DEF ReportAnnounce
<1>4. CASE PublishStatus
  <2>1. polling \in Link /\ conn = polling
    BY <1>4 DEF PublishStatus, Handling, Revalidated, TickType
  <2>2. QED
    BY <1>4, <2>1, RowIsNext DEF PublishStatus, Throws
<1>5. CASE RemoteUnlink
  BY <1>5, DisposeIsStep DEF RemoteUnlink
<1>6. QED
  BY <1>1, <1>2, <1>3, <1>4, <1>5
     DEF Tick, TickThrows, PollDone, HandleDetached, DeliverText, Refuse, Abort,
         AcceptDisconnect, PollThrows, HandleUnverified, PiThrows, ReportThrows,
         Throws

LEMMA StoreStep == TypeInv /\ [Next]_vars => [StoreNext]_storeVars
<1> SUFFICES ASSUME TypeInv, [Next]_vars
             PROVE  StoreNext \/ UNCHANGED storeVars
  OBVIOUS
<1>a. MemoryType /\ Store!TypeOK
  BY DEF TypeInv
<1>b. ASSUME Connected PROVE conn \in Link
  BY <1>a, <1>b DEF Connected, MemoryType
<1>1. ASSUME NEW l \in Link, LocalConnect(l) PROVE StoreNext
  BY <1>1, RegisterIsNext DEF LocalConnect
<1>2. CASE LocalUnlink \/ SessionReplaced \/ Quit
  BY <1>2, <1>a, DisposeIsStep DEF LocalUnlink, SessionReplaced, Quit
<1>3. CASE SessionStart
  <2>1. optIn \in Link
    BY <1>3, <1>a DEF SessionStart, MemoryType
  <2>2. QED
    BY <1>3, <2>1, RegisterIsNext DEF SessionStart
<1>4. CASE ProcessEnds
  <2>1. Used \ dead \in SUBSET Link
    BY <1>a, UsedAreLinks
  <2>2. QED
    BY <1>4, <2>1, DeathIsNext DEF ProcessEnds
<1>5. CASE AgentStart \/ AgentSettled
  BY <1>5, <1>a, PushIsStep DEF AgentStart, AgentSettled
<1>6. ASSUME NEW open \in BOOLEAN, UiPrompt(open) PROVE StoreNext \/ UNCHANGED storeVars
  BY <1>6, <1>a, PushIsStep DEF UiPrompt
<1>7. CASE Output \/ Heartbeat
  BY <1>7, <1>b, RowIsNext DEF Output, Heartbeat
<1>8. CASE Tick \/ TickThrows
  BY <1>8, TickIsStep
<1>9. ASSUME NEW k \in Command, NEW l \in Link, NEW what \in Kind,
             BrokerEnqueues(k, l, what)
      PROVE  StoreNext
  BY <1>9, CommandIsNext DEF BrokerEnqueues
<1>10. ASSUME NEW l \in Link, RowGoesStale(l) PROVE StoreNext
  BY <1>10, RowIsNext DEF RowGoesStale
<1>11. CASE UNCHANGED vars
  BY <1>11 DEF vars, storeVars
<1>12. QED
  BY <1>1, <1>2, <1>3, <1>4, <1>5, <1>6, <1>7, <1>8, <1>9, <1>10, <1>11 DEF Next
-----------------------------------------------------------------------------
(* Typing                                                                    *)

LEMMA FaultsStep ==
    ASSUME MemoryType
    PROVE  /\ faults \in 0..MaxFaults
           /\ Throws => faults' \in 0..MaxFaults /\ faults' > 0
<1>1. MaxFaults \in Nat
  BY TablesAssumptions
<1>2. QED
  BY <1>1 DEF MemoryType, Throws

(* What Dispose and Push leave behind, whether or not a call threw.          *)
LEMMA DisposeMemory ==
    ASSUME MemoryType, Dispose
    PROVE  /\ conn' = NoLink /\ agentActive' = FALSE /\ uiPrompt' = FALSE
           /\ faults' \in 0..MaxFaults
BY FaultsStep DEF Dispose

LEMMA PushMemory ==
    ASSUME MemoryType, NEW agent \in BOOLEAN, NEW prompt \in BOOLEAN,
           Push(agent, prompt)
    PROVE  /\ agentActive' \in BOOLEAN /\ uiPrompt' \in BOOLEAN
           /\ faults' \in 0..MaxFaults
<1>1. agentActive \in BOOLEAN /\ uiPrompt \in BOOLEAN
  BY DEF MemoryType
<1>2. QED
  BY <1>1, FaultsStep DEF Push

(* The tick ends, or goes on to the next command of its batch.               *)
LEMMA EndTickType == ASSUME EndTick PROVE TickType'
<1>1. MaxClaims \in Nat
  BY TablesAssumptions
<1>2. <<>> \in Seq(Command) /\ Len(<<>>) = 0
  OBVIOUS
<1>3. /\ phase' = "idle" /\ polling' = NoLink /\ batch' = <<>> /\ verdict' = FALSE
      /\ batch' \in Seq(Command) /\ Len(batch') <= MaxClaims
  BY <1>1, <1>2 DEF EndTick
<1>4. (phase' = "idle") = (batch' = <<>>)
  BY <1>3
<1>5. QED
  BY <1>3, <1>4 DEF TickType

LEMMA ProceedType ==
    ASSUME TickType, phase # "idle", Proceed
    PROVE  TickType'
<1>1. CASE Len(batch) = 1
  BY <1>1, EndTickType DEF Proceed
<1>2. CASE Len(batch) # 1
  <2>1. /\ phase' = "handling" /\ batch' = Tail(batch) /\ verdict' = FALSE
        /\ polling' = polling
    BY <1>2 DEF Proceed
  <2>2. /\ Len(batch) \in Nat \ {0} /\ Len(batch) <= MaxClaims
        /\ batch' \in Seq(Command) /\ batch' # <<>> /\ Len(batch') = Len(batch) - 1
    BY <1>2, <2>1, BatchShape DEF TickType
  <2>3. MaxClaims \in Nat
    BY TablesAssumptions
  <2>4. Len(batch') <= MaxClaims
    BY <2>2, <2>3
  <2>5. QED
    BY <2>1, <2>2, <2>4 DEF TickType
<1>3. QED
  BY <1>1, <1>2

LEMMA ReportNextType ==
    ASSUME TickType, phase # "idle", NEW ok \in BOOLEAN, ReportNext(ok)
    PROVE  TickType'
BY DEF ReportNext, TickType

LEMMA AfterReportType ==
    ASSUME TickType, phase # "idle", AfterReport
    PROVE  TickType'
<1>1. CASE kind[Current] = "disconnect" /\ verdict
  BY <1>1 DEF AfterReport, TickType
<1>2. CASE ~(kind[Current] = "disconnect" /\ verdict)
  BY <1>2, ProceedType DEF AfterReport
<1>3. QED
  BY <1>1, <1>2

(* The command a claim adds to the batch.                                    *)
LEMMA ClaimIs ==
    ASSUME TypeInv, PollClaim
    PROVE  \E i \in DOMAIN queue[conn] :
              /\ conn \in Link /\ queue[conn][i] \in Command
              /\ commands[queue[conn][i]].state = "pending"
              /\ commands' = [commands EXCEPT ![queue[conn][i]] =
                                 [state |-> "claimed", owner |-> conn]]
              /\ claims' = Append(claims, queue[conn][i])
              /\ batch' = Append(batch, queue[conn][i])
              /\ UNCHANGED <<sessions, events, queue, dead>>
<1>1. conn \in Link /\ Store!ClaimNextCommand(conn, conn)
  BY DEF PollClaim, Connected, TypeInv, MemoryType
<1>2. PICK i \in DOMAIN queue[conn] :
         /\ Store!OldestPending(conn, i)
         /\ commands' = [commands EXCEPT ![queue[conn][i]] =
                            [state |-> "claimed", owner |-> conn]]
         /\ claims' = Append(claims, queue[conn][i])
  BY <1>1 DEF Store!ClaimNextCommand
<1>3. queue[conn] \in Seq(Command) /\ claims \in Seq(Command)
  BY <1>1 DEF TypeInv, Store!TypeOK
<1>4. queue[conn][i] \in Command
  BY <1>2, <1>3
<1>5. claims'[Len(claims')] = queue[conn][i]
  BY <1>2, <1>3, <1>4
<1>6. commands[queue[conn][i]].state = "pending"
  BY <1>2 DEF Store!OldestPending, Store!PendingAt
<1>7. UNCHANGED <<sessions, events, queue, dead>>
  BY <1>1 DEF Store!ClaimNextCommand
<1>8. QED
  BY <1>1, <1>2, <1>4, <1>5, <1>6, <1>7 DEF PollClaim

LEMMA PollClaimType ==
    ASSUME TypeInv, PollClaim
    PROVE  TickType'
<1>1. PICK k \in Command : batch' = Append(batch, k) /\ conn \in Link
  BY ClaimIs
<1>2. /\ phase' = "claiming" /\ polling' = conn /\ verdict' = verdict
      /\ Len(batch) < MaxClaims
  BY DEF PollClaim
<1>3. batch \in Seq(Command) /\ verdict \in BOOLEAN
  BY DEF TypeInv, TickType
<1>4. MaxClaims \in Nat
  BY TablesAssumptions
<1>5. batch' \in Seq(Command) /\ batch' # <<>> /\ Len(batch') <= MaxClaims
  BY <1>1, <1>2, <1>3, <1>4
<1>6. QED
  BY <1>1, <1>2, <1>3, <1>5 DEF TickType

LEMMA TickTypeStep == TypeInv /\ [Next]_vars => TickType'
<1> SUFFICES ASSUME TypeInv, [Next]_vars PROVE TickType'
  OBVIOUS
<1>a. TickType
  BY DEF TypeInv
<1>1. CASE UNCHANGED tickVars
  BY <1>1, <1>a DEF TickType, tickVars
<1>2. CASE PollClaim
  BY <1>2, PollClaimType
<1>3. CASE PollDone
  BY <1>3, <1>a DEF PollDone, TickType
<1>4. CASE PollThrows \/ ProcessEnds
  <2>1. EndTick
    BY <1>4 DEF PollThrows, ProcessEnds, EndTick
  <2>2. QED
    BY <2>1, EndTickType
<1>5. CASE HandleDetached \/ RemoteUnlink
  BY <1>5, <1>a, ProceedType DEF HandleDetached, RemoteUnlink, Handling
<1>6. CASE HandleUnverified \/ DeliverText \/ Refuse \/ PiThrows \/ Abort
           \/ PublishStatus \/ AcceptDisconnect
  <2>1. phase # "idle" /\ \E ok \in BOOLEAN : ReportNext(ok)
    BY <1>6 DEF HandleUnverified, DeliverText, Refuse, PiThrows, Abort,
                PublishStatus, AcceptDisconnect, Handling
  <2>2. QED
    BY <2>1, <1>a, ReportNextType
<1>7. CASE ReportSettle
  BY <1>7, <1>a DEF ReportSettle, TickType
<1>8. CASE ReportAnnounce \/ ReportThrows
  BY <1>8, <1>a, AfterReportType DEF ReportAnnounce, ReportThrows
<1>9. QED
  BY <1>1, <1>2, <1>3, <1>4, <1>5, <1>6, <1>7, <1>8
     DEF Next, vars, tickVars, Tick, TickThrows, LocalConnect, LocalUnlink,
         SessionReplaced, Quit, SessionStart, AgentStart, AgentSettled, UiPrompt,
         Output, Heartbeat, BrokerEnqueues, RowGoesStale

LEMMA MemoryTypeStep == TypeInv /\ [Next]_vars => MemoryType'
<1> SUFFICES ASSUME TypeInv, [Next]_vars PROVE MemoryType'
  OBVIOUS
<1>a. MemoryType
  BY DEF TypeInv
<1>b. /\ conn \in Link \cup {NoLink} /\ optIn \in Link \cup {NoLink}
      /\ agentActive \in BOOLEAN /\ uiPrompt \in BOOLEAN
  BY <1>a DEF MemoryType
<1>1. CASE UNCHANGED <<connVars, pi, kind, executed, announced, faults>>
  BY <1>1, <1>a DEF MemoryType, connVars
<1>2. ASSUME NEW l \in Link, LocalConnect(l) PROVE MemoryType'
  BY <1>2, <1>a DEF LocalConnect, MemoryType, history
<1>3. CASE LocalUnlink \/ SessionReplaced \/ Quit \/ RemoteUnlink
  <2>1. /\ conn' \in {conn, NoLink} /\ optIn' \in {optIn, NoLink}
        /\ agentActive' \in BOOLEAN /\ uiPrompt' \in BOOLEAN
        /\ faults' \in 0..MaxFaults /\ UNCHANGED <<pi, history>>
    BY <1>3, <1>a, <1>b, DisposeMemory, FaultsStep
       DEF LocalUnlink, SessionReplaced, Quit, RemoteUnlink
  <2>2. QED
    BY <2>1, <1>a, <1>b DEF MemoryType, history
<1>4. CASE SessionStart
  BY <1>4, <1>a DEF SessionStart, MemoryType, history
<1>5. CASE ProcessEnds
  BY <1>5, <1>a DEF ProcessEnds, MemoryType, history
<1>6. CASE AgentStart \/ AgentSettled
  <2>1. /\ agentActive' \in BOOLEAN /\ uiPrompt' \in BOOLEAN
        /\ faults' \in 0..MaxFaults
    BY <1>6, <1>a, <1>b, PushMemory DEF AgentStart, AgentSettled
  <2>2. pi' \in {"idle", "running"} /\ UNCHANGED <<conn, optIn, history>>
    BY <1>6 DEF AgentStart, AgentSettled
  <2>3. QED
    BY <2>1, <2>2, <1>a DEF MemoryType, history
<1>7. ASSUME NEW open \in BOOLEAN, UiPrompt(open) PROVE MemoryType'
  <2>1. /\ agentActive' \in BOOLEAN /\ uiPrompt' \in BOOLEAN
        /\ faults' \in 0..MaxFaults
    BY <1>7, <1>a, <1>b, PushMemory DEF UiPrompt
  <2>2. UNCHANGED <<conn, optIn, pi, history>>
    BY <1>7 DEF UiPrompt
  <2>3. QED
    BY <2>1, <2>2, <1>a DEF MemoryType, history
<1>8. CASE PublishStatus \/ TickThrows
  <2>1. faults' \in 0..MaxFaults
    BY <1>8, <1>a, FaultsStep
       DEF PublishStatus, TickThrows, PollThrows, HandleUnverified, PiThrows,
           ReportThrows
  <2>2. UNCHANGED <<connVars, pi, history>>
    BY <1>8 DEF PublishStatus, TickThrows, PollThrows, HandleUnverified, PiThrows,
                ReportThrows
  <2>3. QED
    BY <2>1, <2>2, <1>a DEF MemoryType, connVars, history
<1>9. CASE DeliverText \/ Abort
  <2>1. Current \in Command
    BY <1>9, BatchShape DEF TypeInv, DeliverText, Abort, Handling
  <2>2. /\ executed' = Append(executed, Current)
        /\ UNCHANGED <<connVars, kind, announced, faults>>
    BY <1>9 DEF DeliverText, Abort
  <2>3. pi' \in {pi, "starting"}
    BY <1>9 DEF DeliverText, Abort
  <2>4. QED
    BY <2>1, <2>2, <2>3, <1>a DEF MemoryType, connVars
<1>10. CASE ReportAnnounce
  <2>1. Current \in Command
    BY <1>10, BatchShape DEF TypeInv, ReportAnnounce
  <2>2. QED
    BY <1>10, <2>1, <1>a DEF ReportAnnounce, MemoryType, connVars
<1>11. ASSUME NEW k \in Command, NEW l \in Link, NEW what \in Kind,
              BrokerEnqueues(k, l, what)
       PROVE  MemoryType'
  BY <1>11, <1>a DEF BrokerEnqueues, MemoryType, connVars
<1>12. QED
  BY <1>1, <1>2, <1>3, <1>4, <1>5, <1>6, <1>7, <1>8, <1>9, <1>10, <1>11
     DEF Next, vars, connVars, history, Tick, PollClaim, PollDone, HandleDetached,
         Refuse, AcceptDisconnect, ReportSettle, Output, Heartbeat, RowGoesStale

LEMMA TypeInvStep == TypeInv /\ [Next]_vars => TypeInv'
<1> SUFFICES ASSUME TypeInv, [Next]_vars PROVE TypeInv'
  OBVIOUS
<1>1. Tables!TypeOK /\ [Tables!Next]_(Tables!vars)
  BY StoreStep, SameType DEF TypeInv, StoreNext, storeVars, Tables!vars
<1>2. Tables!TypeOK'
  BY <1>1, Tables!NextType, TablesAssumptions, NoLinkAssumption
<1>3. QED
  BY <1>2, SameTypeNext, MemoryTypeStep, TickTypeStep DEF TypeInv

LEMMA InitType == Init => TypeInv /\ Tables!Init
<1> SUFFICES ASSUME Init PROVE TypeInv /\ Tables!Init
  OBVIOUS
<1>1. Tables!Init
  BY DEF Init, Store!Init, Tables!Init, Store!NoRow, Tables!NoRow
<1>2. Store!TypeOK
  BY <1>1, Tables!InitType, SameType, TablesAssumptions, NoLinkAssumption
<1>3. MemoryType
  <2>1. <<>> \in Seq(Command) /\ {} \subseteq Command
    OBVIOUS
  <2>2. 0 \in 0..MaxFaults
    BY TablesAssumptions
  <2>3. kind \in [Command -> Kind \cup {"none"}]
    BY DEF Init
  <2>4. QED
    BY <2>1, <2>2, <2>3 DEF Init, MemoryType
<1>4. TickType
  <2>1. MaxClaims \in Nat /\ <<>> \in Seq(Command) /\ Len(<<>>) = 0
    BY TablesAssumptions
  <2>2. /\ phase = "idle" /\ polling = NoLink /\ batch = <<>> /\ verdict = FALSE
        /\ batch \in Seq(Command) /\ Len(batch) <= MaxClaims
    BY <2>1 DEF Init
  <2>3. (phase = "idle") = (batch = <<>>)
    BY <2>2
  <2>4. QED
    BY <2>2, <2>3 DEF TickType
<1>5. QED
  BY <1>1, <1>2, <1>3, <1>4 DEF TypeInv

(* Every reachable state has the type TypeOK states: of the tables, of the   *)
(* memory of the extension, and of the poll tick, whose batch is never       *)
(* longer than MAX_COMMANDS_PER_POLL and empty exactly between ticks.        *)
THEOREM TypeCorrect == Spec => []TypeOK
<1>1. TypeInv => TypeOK
  <2>1. SUFFICES ASSUME TypeInv PROVE TypeOK
    OBVIOUS
  <2>2. Store!TypeOK /\ MemoryType /\ TickType
    BY <2>1 DEF TypeInv
  <2>3. /\ {conn, optIn, polling} \subseteq Link \cup {NoLink}
        /\ {agentActive, uiPrompt, verdict} \subseteq BOOLEAN
    BY <2>2 DEF MemoryType, TickType
  <2>4. QED
    BY <2>2, <2>3 DEF TypeOK, MemoryType, TickType
<1>2. QED
  BY <1>1, InitType, TypeInvStep, PTL DEF Spec

(* Whatever the extension, its process and the broker do is what some client *)
(* of the store may do: all that is proved of TuiStore holds here.           *)
THEOREM ImplementsStore == Spec => StoreSpec
<1>1. Init => Store!Init
  BY DEF Init
<1>2. TypeInv /\ [Next]_vars => [Store!Next]_(Store!vars)
  BY StoreStep DEF StoreNext, storeVars, Store!vars
<1>3. QED
  BY <1>1, <1>2, InitType, TypeInvStep, PTL DEF Spec, StoreSpec, Store!Spec

(* The inductive invariant of the store, with all it implies about sessions, *)
(* the event stream and the order of claims, holds under the extension.      *)
THEOREM StoreInvariance == Spec => [](Tables!IInv)
<1>1. TypeInv /\ [Next]_vars => [Tables!Next]_(Tables!vars)
  BY StoreStep DEF StoreNext, storeVars, Tables!vars
<1>2. Spec => Tables!Spec
  BY <1>1, InitType, TypeInvStep, PTL DEF Spec, Tables!Spec
<1>3. Tables!Spec => [](Tables!IInv)
  BY Tables!Invariance, TablesAssumptions, NoLinkAssumption
<1>4. QED
  BY <1>2, <1>3, PTL
-----------------------------------------------------------------------------
(* The inductive invariant: the link against its row, commands against the   *)
(* links, the poll tick against the claims, what reached Pi against the      *)
(* claims, and what the phone was told against both.                         *)

RowsAreOwn == \A l \in Link : sessions[l].owner \in {l, NoLink}
RowsAreUsed == \A l \in Link : Store!HasRow(l) => l \in Used
ConnectedOwns == Connected => conn = optIn /\ Store!Owns(conn, conn)
OptInLives == optIn # NoLink => optIn \in Used \ dead

(* While no call throws, the only row of a living process is the one of its   *)
(* connection; RowNeedsOptIn follows, and unlike it survives a quit.         *)
RowNeedsConnection ==
    faults = 0 => \A l \in Link : Store!HasRow(l) /\ l \notin dead => l = conn

LinkInv ==
    /\ RowsAreOwn /\ RowsAreUsed
    /\ ConnectedOwns /\ OptInLives
    /\ RowNeedsConnection /\ RowMirrorsConnection

KindsKnown == \A k \in Command : kind[k] = "none" <=> commands[k].state = "absent"
QueuesAreUsed == \A l \in Link : \A i \in DOMAIN queue[l] : l \in Used
OwnersAreUsed ==
    \A k \in Command :
        commands[k].state \in {"claimed", "completed", "failed"} =>
            commands[k].owner \in Used

CommandInv == KindsKnown /\ QueuesAreUsed /\ OwnersAreUsed

TickIsConnected ==
    phase \in {"claiming", "settling", "announcing", "unlinking"} => conn = polling

(* The batch is the end of the order of claims.                              *)
BatchIsSuffix ==
    /\ Len(batch) <= Len(claims)
    /\ \A i \in DOMAIN batch : batch[i] = claims[Len(claims) - Len(batch) + i]

BatchIsSent == \A i \in DOMAIN batch : SentTo(batch[i], polling)
BatchIsClaimed ==
    \A i \in DOMAIN batch :
        i > 1 \/ phase \in {"claiming", "handling", "settling"} =>
            commands[batch[i]].state = "claimed"
HeadIsSettled ==
    phase = "announcing" =>
        commands[Current].state = IF verdict THEN "completed" ELSE "failed"

TickInv ==
    /\ TickIsConnected
    /\ BatchIsSuffix /\ BatchIsSent
    /\ BatchIsClaimed /\ HeadIsSettled

(* How many claims are past the point at which they may reach Pi.            *)
Handled ==
    Len(claims) - Len(batch)
      + (IF phase \in {"settling", "announcing", "unlinking"} THEN 1 ELSE 0)

ReachedAreHandled ==
    \A a \in DOMAIN executed : \E p \in 1..Handled : claims[p] = executed[a]
ReachedInOrder ==
    \A a, b \in DOMAIN executed : a < b =>
        \A p, q \in DOMAIN claims :
            claims[p] = executed[a] /\ claims[q] = executed[b] => p < q

ExecutedInv == ReachedAreHandled /\ ReachedInOrder

Reached(k) == \E i \in DOMAIN executed : executed[i] = k
VerdictTruthful ==
    phase = "settling" /\ kind[Current] \in {"prompt", "slash", "steer", "abort"} =>
        (verdict <=> Reached(Current))
AnnouncedIsSettled ==
    \A k \in announced : commands[k].state \in {"completed", "failed"}

(* An announced disconnect is being torn down, or its link is gone for good. *)
TornDown ==
    \A k \in announced, l \in Link :
        kind[k] = "disconnect" /\ commands[k].state = "completed" /\ SentTo(k, l) =>
            \/ phase = "unlinking" /\ polling = l
            \/ conn # l /\ optIn # l

ReportInv ==
    /\ VerdictTruthful /\ ReportTruthful
    /\ AnnouncedIsSettled /\ SettledIsAnnounced
    /\ TornDown

IInv == TypeInv /\ LinkInv /\ CommandInv /\ TickInv /\ ExecutedInv /\ ReportInv
-----------------------------------------------------------------------------
(* The link and its row                                                      *)

LEMMA EventAdded ==
    ASSUME Store!TypeOK, NEW l \in Link, NEW what \in {"connected", "disconnected", "output"},
           Store!AppendEventRow(l, what, l)
    PROVE  Used' = Used \cup {l}
<1> DEFINE e == [tracking |-> l, kind |-> what, by |-> l]
<1>1. events \in Seq(Store!Event) /\ e \in Store!Event /\ events' = Append(events, e)
  BY DEF Store!TypeOK, Store!Event, Store!EventKind, Store!AppendEventRow
<1>2. e.by = l
  OBVIOUS
<1> HIDE DEF e
<1>3. /\ Len(events) \in Nat /\ DOMAIN events = 1..Len(events)
      /\ DOMAIN events' = 1..(Len(events) + 1)
      /\ events'[Len(events) + 1] = e
      /\ \A i \in DOMAIN events : events'[i] = events[i]
  BY <1>1
<1>4. Used' = {events'[i].by : i \in DOMAIN events'}
  BY DEF Used
<1>5. ASSUME NEW x \in Used' PROVE x \in Used \cup {l}
  <2>1. PICK i \in DOMAIN events' : x = events'[i].by
    BY <1>4
  <2>2. CASE i = Len(events) + 1
    BY <2>1, <2>2, <1>2, <1>3
  <2>3. CASE i # Len(events) + 1
    <3>1. i \in DOMAIN events
      BY <2>1, <2>3, <1>3
    <3>2. QED
      BY <2>1, <3>1, <1>3 DEF Used
  <2>4. QED
    BY <2>2, <2>3
<1>6. ASSUME NEW x \in Used \cup {l} PROVE x \in Used'
  <2>1. CASE x = l
    <3>1. Len(events) + 1 \in DOMAIN events'
      BY <1>3
    <3>2. QED
      BY <2>1, <3>1, <1>2, <1>3, <1>4
  <2>2. CASE x \in Used
    <3>1. PICK i \in DOMAIN events : x = events[i].by
      BY <2>2 DEF Used
    <3>2. i \in DOMAIN events'
      BY <1>3
    <3>3. QED
      BY <3>1, <3>2, <1>3, <1>4
  <2>3. QED
    BY <2>1, <2>2
<1>7. QED
  BY <1>5, <1>6

(* What the transactions of a link do to the rows and to the events.         *)
LEMMA RowAfterRegister ==
    ASSUME Store!TypeOK, NEW l \in Link,
           Store!RegisterInsert(l, l, l) \/ Store!RegisterRefresh(l, l)
    PROVE  /\ sessions'[l].owner = l /\ sessions'[l].state = "connected"
           /\ \A m \in Link : m # l => sessions'[m] = sessions[m]
           /\ l \notin dead /\ dead' = dead
           /\ Used \subseteq Used'
           /\ Store!RegisterInsert(l, l, l) => l \in Used'
<1>1. sessions \in [Link -> Store!Row]
  BY DEF Store!TypeOK
<1>2. CASE Store!RegisterInsert(l, l, l)
  <2>1. /\ sessions' = [sessions EXCEPT ![l] = Store!NewRow(l, l)]
        /\ Store!AppendEventRow(l, "connected", l)
        /\ l \notin dead /\ dead' = dead
    BY <1>2 DEF Store!RegisterInsert, Store!Alive
  <2>2. Used' = Used \cup {l}
    BY <2>1, EventAdded
  <2>3. QED
    BY <1>1, <2>1, <2>2 DEF Store!NewRow
<1>3. CASE Store!RegisterRefresh(l, l) /\ ~Store!RegisterInsert(l, l, l)
  <2>1. /\ sessions' = [sessions EXCEPT ![l] = Store!NewRow(l, sessions[l].shortId)]
        /\ events' = events
        /\ l \notin dead /\ dead' = dead
    BY <1>1, <1>3 DEF Store!RegisterRefresh, Store!Alive
  <2>2. QED
    BY <1>1, <1>3, <2>1 DEF Store!NewRow, Used
<1>4. QED
  BY <1>2, <1>3

LEMMA RowAfterDisconnect ==
    ASSUME Store!TypeOK, NEW l \in Link, Store!Disconnect(l, l)
    PROVE  /\ sessions'[l].owner = NoLink
           /\ \A m \in Link : m # l => sessions'[m] = sessions[m]
           /\ dead' = dead /\ Used \subseteq Used'
<1>1. sessions \in [Link -> Store!Row]
  BY DEF Store!TypeOK
<1>2. /\ sessions' = [sessions EXCEPT ![l] = Store!NoRow]
      /\ Store!AppendEventRow(l, "disconnected", l) /\ dead' = dead
  BY DEF Store!Disconnect
<1>3. Used' = Used \cup {l}
  BY <1>2, EventAdded
<1>4. QED
  BY <1>1, <1>2, <1>3 DEF Store!NoRow

LEMMA RowAfterSetState ==
    ASSUME Store!TypeOK, NEW l \in Link, NEW st, Store!SetState(l, l, st)
    PROVE  /\ sessions'[l].owner = sessions[l].owner /\ sessions'[l].state = st
           /\ \A m \in Link : m # l => sessions'[m] = sessions[m]
           /\ dead' = dead /\ Used' = Used
<1>1. sessions \in [Link -> Store!Row]
  BY DEF Store!TypeOK
<1>2. QED
  BY <1>1 DEF Store!SetState, Store!Row, Used

LEMMA RowFreshness ==
    ASSUME Store!TypeOK, NEW l \in Link, Store!Heartbeat(l, l) \/ Store!GoStale(l)
    PROVE  /\ \A m \in Link : /\ sessions'[m].owner = sessions[m].owner
                              /\ sessions'[m].state = sessions[m].state
           /\ dead' = dead /\ Used' = Used
<1>1. sessions \in [Link -> Store!Row]
  BY DEF Store!TypeOK
<1>2. QED
  BY <1>1 DEF Store!Heartbeat, Store!GoStale, Store!Row, Used

(* A step that moves no owner, no state of a row and no memory of the link.  *)
LEMMA LinkQuiet ==
    ASSUME LinkInv,
           UNCHANGED <<conn, optIn, agentActive, uiPrompt, dead>>,
           \A l \in Link : /\ sessions'[l].owner = sessions[l].owner
                           /\ sessions'[l].state = sessions[l].state,
           conn \in Link \cup {NoLink},
           Used \subseteq Used',
           faults' = faults \/ faults' > 0
    PROVE  LinkInv'
<1> USE DEF LinkInv
<1>1. \A l \in Link : Store!HasRow(l)' <=> Store!HasRow(l)
  BY DEF Store!HasRow
<1>2. RowsAreOwn' /\ RowsAreUsed'
  BY <1>1 DEF RowsAreOwn, RowsAreUsed
<1>3. ConnectedOwns'
  BY DEF ConnectedOwns, Connected, Store!Owns
<1>4. OptInLives'
  BY DEF OptInLives
<1>5. RowNeedsConnection'
  BY <1>1 DEF RowNeedsConnection
<1>6. RowMirrorsConnection'
  BY DEF RowMirrorsConnection, Connected, Derived
<1>7. QED
  BY <1>2, <1>3, <1>4, <1>5, <1>6

(* A throwing call keeps the rows and counts.                                *)
LEMMA ThrowsQuiet ==
    ASSUME MemoryType, Throws
    PROVE  /\ UNCHANGED <<sessions, events, dead, queue, commands, claims>>
           /\ faults' > 0 /\ Used' = Used
BY FaultsStep DEF Throws, storeVars, Used

LEMMA DisposeLink ==
    ASSUME TypeInv, LinkInv, Dispose, optIn' \in {optIn, NoLink}
    PROVE  LinkInv'
<1> USE DEF LinkInv
<1>a. Store!TypeOK /\ MemoryType
  BY DEF TypeInv
<1>b. /\ conn \in Link /\ conn = optIn /\ conn' = NoLink /\ NoLink \notin Link
      /\ agentActive' = FALSE /\ uiPrompt' = FALSE
  BY <1>a, TablesAssumptions DEF Dispose, Connected, MemoryType, ConnectedOwns
<1>1. ConnectedOwns' /\ RowMirrorsConnection'
  BY <1>b DEF ConnectedOwns, Connected, RowMirrorsConnection
<1>2. CASE Store!Disconnect(conn, conn) /\ UNCHANGED faults
  <2>1. /\ sessions'[conn].owner = NoLink
        /\ \A m \in Link : m # conn => sessions'[m] = sessions[m]
        /\ dead' = dead /\ Used \subseteq Used'
    BY <1>2, <1>a, <1>b, RowAfterDisconnect
  <2>2. \A l \in Link : Store!HasRow(l)' => l # conn /\ Store!HasRow(l)
    BY <2>1 DEF Store!HasRow
  <2>3. RowsAreOwn' /\ RowsAreUsed'
    BY <2>1, <2>2 DEF RowsAreOwn, RowsAreUsed
  <2>4. OptInLives'
    BY <2>1 DEF OptInLives
  <2>5. RowNeedsConnection'
    BY <1>2, <2>1, <2>2 DEF RowNeedsConnection
  <2>6. QED
    BY <1>1, <2>3, <2>4, <2>5
<1>3. CASE Throws
  <2>1. UNCHANGED <<sessions, dead>> /\ faults' > 0 /\ Used' = Used
    BY <1>3, <1>a, ThrowsQuiet
  <2>2. RowsAreOwn' /\ RowsAreUsed' /\ OptInLives' /\ RowNeedsConnection'
    BY <2>1 DEF RowsAreOwn, RowsAreUsed, OptInLives, RowNeedsConnection,
                Store!HasRow
  <2>3. QED
    BY <1>1, <2>2
<1>4. QED
  BY <1>2, <1>3 DEF Dispose

(* Linking and relinking: the row is the connection's own, and new.          *)
LEMMA ConnectLink ==
    ASSUME TypeInv, LinkInv, ~Connected, NEW l \in Link,
           Store!RegisterInsert(l, l, l) \/ (Store!RegisterRefresh(l, l) /\ l \in Used),
           conn' = l, optIn' = l,
           agentActive' = FALSE, uiPrompt' = FALSE,
           faults' = faults
    PROVE  LinkInv'
<1> USE DEF LinkInv
<1>1. /\ sessions'[l].owner = l /\ sessions'[l].state = "connected"
      /\ \A m \in Link : m # l => sessions'[m] = sessions[m]
      /\ l \notin dead /\ dead' = dead
      /\ Used \subseteq Used' /\ l \in Used'
  BY RowAfterRegister DEF TypeInv
<1>2. NoLink \notin Link
  BY TablesAssumptions
<1>3. \A m \in Link : m # l => (Store!HasRow(m)' <=> Store!HasRow(m))
  BY <1>1 DEF Store!HasRow
<1>4. RowsAreOwn' /\ RowsAreUsed'
  BY <1>1, <1>3 DEF RowsAreOwn, RowsAreUsed
<1>5. ConnectedOwns' /\ OptInLives'
  BY <1>1 DEF ConnectedOwns, Connected, Store!Owns, OptInLives
<1>6. RowNeedsConnection'
  BY <1>1, <1>2, <1>3 DEF RowNeedsConnection, Connected
<1>7. RowMirrorsConnection'
  BY <1>1 DEF RowMirrorsConnection, Connected, Derived
<1>8. QED
  BY <1>4, <1>5, <1>6, <1>7

LEMMA PushLink ==
    ASSUME TypeInv, LinkInv, NEW agent, NEW prompt, Push(agent, prompt),
           UNCHANGED <<conn, optIn>>
    PROVE  LinkInv'
<1> USE DEF LinkInv
<1>a. Store!TypeOK /\ MemoryType /\ conn \in Link \cup {NoLink}
  BY DEF TypeInv, MemoryType
<1>1. CASE ~Connected
  <2>1. UNCHANGED <<storeVars, agentActive, uiPrompt, faults>>
    BY <1>1 DEF Push
  <2>2. QED
    BY <2>1, <1>a, LinkQuiet DEF storeVars, Used
<1>2. CASE Connected
  <2>a. conn \in Link /\ agentActive' = agent /\ uiPrompt' = prompt
    BY <1>2, <1>a DEF Connected, Push
  <2>1. CASE Store!SetState(conn, conn, Derived(agent, prompt)) /\ UNCHANGED faults
    <3>1. /\ sessions'[conn].owner = sessions[conn].owner
          /\ sessions'[conn].state = Derived(agent, prompt)
          /\ \A m \in Link : m # conn => sessions'[m] = sessions[m]
          /\ dead' = dead /\ Used' = Used
      BY <2>1, <2>a, <1>a, RowAfterSetState
    <3>2. \A m \in Link : sessions'[m].owner = sessions[m].owner
      BY <3>1
    <3>3. RowsAreOwn' /\ RowsAreUsed' /\ ConnectedOwns' /\ OptInLives'
          /\ RowNeedsConnection'
      BY <2>1, <3>1, <3>2 DEF RowsAreOwn, RowsAreUsed, ConnectedOwns, OptInLives,
                        RowNeedsConnection, Store!HasRow, Store!Owns, Connected
    <3>4. RowMirrorsConnection'
      BY <2>a, <3>1 DEF RowMirrorsConnection, Derived
    <3>5. QED
      BY <3>3, <3>4
  <2>2. CASE Throws
    <3>1. UNCHANGED <<sessions, dead>> /\ faults' > 0 /\ Used' = Used
      BY <2>2, <1>a, ThrowsQuiet
    <3>2. RowsAreOwn' /\ RowsAreUsed' /\ ConnectedOwns' /\ OptInLives'
          /\ RowNeedsConnection' /\ RowMirrorsConnection'
      BY <3>1 DEF RowsAreOwn, RowsAreUsed, ConnectedOwns, OptInLives,
                  RowNeedsConnection, RowMirrorsConnection, Store!HasRow,
                  Store!Owns, Connected
    <3>3. QED
      BY <3>2
  <2>3. QED
    BY <1>2, <2>1, <2>2 DEF Push
<1>3. QED
  BY <1>1, <1>2

LEMMA DeathLink ==
    ASSUME TypeInv, LinkInv, ProcessEnds
    PROVE  LinkInv'
<1> USE DEF LinkInv
<1>1. /\ dead' = dead \cup Used /\ UNCHANGED <<sessions, events>>
      /\ conn' = NoLink /\ optIn' = NoLink
  BY DEF ProcessEnds, Store!ProcessDies
<1>2. Used' = Used
  BY <1>1 DEF Used
<1>3. RowsAreOwn' /\ RowsAreUsed' /\ ConnectedOwns' /\ OptInLives'
      /\ RowMirrorsConnection'
  BY <1>1, <1>2 DEF RowsAreOwn, RowsAreUsed, ConnectedOwns, OptInLives,
                    RowMirrorsConnection, Store!HasRow, Connected
<1>4. RowNeedsConnection'
  BY <1>1 DEF RowsAreUsed, RowNeedsConnection, Store!HasRow
<1>5. QED
  BY <1>3, <1>4

LEMMA UsedGrows == TypeInv /\ [Next]_vars => Used \subseteq Used'
<1> SUFFICES ASSUME TypeInv, [Next]_vars PROVE Used \subseteq Used'
  OBVIOUS
<1>1. Tables!TypeOK /\ [Tables!Next]_(Tables!vars)
  BY StoreStep, SameType DEF TypeInv, StoreNext, storeVars, Tables!vars
<1>2. events' = events \/ \E e \in Tables!Event : events' = Append(events, e)
  BY <1>1, Tables!StreamGrows, TablesAssumptions, NoLinkAssumption
<1>3. events \in Seq(Store!Event)
  BY DEF TypeInv, Store!TypeOK
<1>4. \A i \in DOMAIN events : i \in DOMAIN events' /\ events'[i] = events[i]
  BY <1>2, <1>3
<1>5. QED
  BY <1>4 DEF Used

LEMMA LinkStep == TypeInv /\ LinkInv /\ [Next]_vars => LinkInv'
<1> SUFFICES ASSUME TypeInv, LinkInv, [Next]_vars PROVE LinkInv'
  OBVIOUS
<1>a. /\ Store!TypeOK /\ MemoryType /\ Used \subseteq Used'
      /\ conn \in Link \cup {NoLink} /\ optIn \in Link \cup {NoLink}
  BY UsedGrows DEF TypeInv, MemoryType
<1>1. ASSUME UNCHANGED <<sessions, dead, connVars>>, faults' = faults \/ faults' > 0
      PROVE  LinkInv'
  BY <1>1, <1>a, LinkQuiet DEF connVars
<1>2. ASSUME NEW l \in Link, LocalConnect(l) PROVE LinkInv'
  BY <1>2, ConnectLink DEF LocalConnect
<1>3. CASE SessionStart
  <2>1. optIn \in Link /\ optIn \in Used
    BY <1>3, <1>a DEF SessionStart, LinkInv, OptInLives
  <2>2. QED
    BY <1>3, <2>1, ConnectLink DEF SessionStart
<1>4. CASE LocalUnlink \/ SessionReplaced \/ RemoteUnlink \/ (Quit /\ Dispose)
  BY <1>4, DisposeLink DEF LocalUnlink, SessionReplaced, RemoteUnlink, Quit
<1>5. CASE Quit /\ ~Dispose
  <2>1. ~Connected /\ UNCHANGED <<storeVars, conn, agentActive, uiPrompt, faults>>
        /\ optIn' = NoLink
    BY <1>5 DEF Quit
  <2>2. UNCHANGED <<sessions, dead, Used>>
    BY <2>1 DEF storeVars, Used
  <2>3. RowsAreOwn' /\ RowsAreUsed' /\ ConnectedOwns' /\ OptInLives'
        /\ RowNeedsConnection' /\ RowMirrorsConnection'
    BY <2>1, <2>2 DEF LinkInv, RowsAreOwn, RowsAreUsed, ConnectedOwns, OptInLives,
                  RowNeedsConnection, RowMirrorsConnection, Store!HasRow,
                  Store!Owns, Connected
  <2>4. QED
    BY <2>3 DEF LinkInv
<1>6. CASE ProcessEnds
  BY <1>6, DeathLink
<1>7. CASE AgentStart \/ AgentSettled
  BY <1>7, PushLink DEF AgentStart, AgentSettled
<1>8. ASSUME NEW open \in BOOLEAN, UiPrompt(open) PROVE LinkInv'
  BY <1>8, PushLink DEF UiPrompt
<1>9. CASE Heartbeat
  <2>1. conn \in Link
    BY <1>9, <1>a DEF Heartbeat, Connected
  <2>2. QED
    BY <1>9, <2>1, <1>a, RowFreshness, LinkQuiet DEF Heartbeat, connVars
<1>10. ASSUME NEW l \in Link, RowGoesStale(l) PROVE LinkInv'
  BY <1>10, <1>a, RowFreshness, LinkQuiet DEF RowGoesStale, connVars
<1>11. CASE Output \/ PollClaim \/ ReportSettle \/ ReportAnnounce
            \/ \E k \in Command, l \in Link, what \in Kind : BrokerEnqueues(k, l, what)
  <2>1. UNCHANGED <<sessions, dead, connVars, faults>>
    BY <1>11 DEF Output, PollClaim, ReportSettle, ReportAnnounce, BrokerEnqueues,
                 Store!AppendEvent, Store!ClaimNextCommand, Store!CompleteCommand,
                 Store!FailCommand, Store!EnqueueCommand
  <2>2. QED
    BY <2>1, <1>1
<1>12. CASE PollDone \/ HandleDetached \/ DeliverText \/ Refuse \/ Abort
            \/ AcceptDisconnect \/ UNCHANGED vars
  <2>1. UNCHANGED <<sessions, dead, connVars, faults>>
    BY <1>12 DEF PollDone, HandleDetached, DeliverText, Refuse, Abort,
                 AcceptDisconnect, vars, storeVars, connVars
  <2>2. QED
    BY <2>1, <1>1
<1>13. CASE PublishStatus \/ TickThrows
  <2>1. UNCHANGED <<sessions, dead, connVars>> /\ (faults' = faults \/ faults' > 0)
    BY <1>13, <1>a, ThrowsQuiet
       DEF PublishStatus, TickThrows, PollThrows, HandleUnverified, PiThrows,
           ReportThrows, Store!AppendEvent
  <2>2. QED
    BY <2>1, <1>1
<1>14. QED
  BY <1>2, <1>3, <1>4, <1>5, <1>6, <1>7, <1>8, <1>9, <1>10, <1>11, <1>12, <1>13
     DEF Next, Tick
-----------------------------------------------------------------------------
(* Commands                                                                  *)

(* Only claiming, settling and enqueueing touch the ledger of commands.      *)
LEMMA QuietLedger ==
    ASSUME [Next]_vars, ~PollClaim, ~ReportSettle,
           ~(\E k \in Command, l \in Link, what \in Kind : BrokerEnqueues(k, l, what))
    PROVE  UNCHANGED <<queue, commands, claims, kind>>
<1>1. \A l, m, n : Store!RegisterInsert(l, m, n) => UNCHANGED <<queue, commands, claims>>
  BY DEF Store!RegisterInsert
<1>2. \A l, m : \/ Store!RegisterRefresh(l, m) \/ Store!Heartbeat(l, m)
                \/ Store!Disconnect(l, m) \/ Store!AppendEvent(l, m)
                => UNCHANGED <<queue, commands, claims>>
  BY DEF Store!RegisterRefresh, Store!Heartbeat, Store!Disconnect, Store!AppendEvent
<1>3. \A l, m, st : Store!SetState(l, m, st) => UNCHANGED <<queue, commands, claims>>
  BY DEF Store!SetState
<1>4. \A l : Store!GoStale(l) => UNCHANGED <<queue, commands, claims>>
  BY DEF Store!GoStale
<1>5. \A cs : Store!ProcessDies(cs) => UNCHANGED <<queue, commands, claims>>
  BY DEF Store!ProcessDies
<1>6. Throws => UNCHANGED <<queue, commands, claims>>
  BY DEF Throws, storeVars
<1>7. Dispose => UNCHANGED <<queue, commands, claims>>
  BY <1>2, <1>6 DEF Dispose
<1>8. \A agent, prompt : Push(agent, prompt) => UNCHANGED <<queue, commands, claims>>
  BY <1>3, <1>6 DEF Push, storeVars
<1>9. CASE Tick \/ TickThrows
  BY <1>9, <1>2, <1>6, <1>7
     DEF Tick, TickThrows, PollDone, HandleDetached, DeliverText, Refuse, Abort,
         PublishStatus, AcceptDisconnect, ReportAnnounce, RemoteUnlink, PollThrows,
         HandleUnverified, PiThrows, ReportThrows, storeVars, history
<1>10. CASE UNCHANGED vars
  BY <1>10 DEF vars
<1>11. CASE \/ \E l \in Link : LocalConnect(l) \/ RowGoesStale(l)
            \/ LocalUnlink \/ SessionReplaced \/ Quit \/ SessionStart \/ ProcessEnds
            \/ AgentStart \/ AgentSettled \/ \E open \in BOOLEAN : UiPrompt(open)
            \/ Output \/ Heartbeat
  BY <1>11, <1>1, <1>2, <1>4, <1>5, <1>7, <1>8
     DEF LocalConnect, LocalUnlink, SessionReplaced, Quit, SessionStart, ProcessEnds,
         AgentStart, AgentSettled, UiPrompt, Output, Heartbeat, RowGoesStale,
         storeVars, history
<1>12. QED
  BY <1>9, <1>10, <1>11 DEF Next

(* What settling and enqueueing write.                                       *)
LEMMA SettleIs ==
    ASSUME TypeInv, ReportSettle
    PROVE  /\ Current \in Command /\ polling \in Link
           /\ commands[Current].state = "claimed"
           /\ commands[Current].owner = polling
           /\ commands'[Current].state = IF verdict THEN "completed" ELSE "failed"
           /\ commands'[Current].owner = polling
           /\ \A k \in Command : k # Current => commands'[k] = commands[k]
           /\ UNCHANGED <<queue, claims, kind>>
<1>1. Current \in Command /\ polling \in Link
  BY BatchShape DEF TypeInv, ReportSettle, TickType
<1>2. commands \in [Command -> Store!CommandRow]
  BY DEF TypeInv, Store!TypeOK
<1>3. CASE verdict
  BY <1>1, <1>2, <1>3
     DEF ReportSettle, Store!CompleteCommand, Store!MaySettle, Store!CommandRow, history
<1>4. CASE ~verdict
  BY <1>1, <1>2, <1>4
     DEF ReportSettle, Store!FailCommand, Store!MaySettle, Store!CommandRow, history
<1>5. QED
  BY <1>3, <1>4

LEMMA EnqueueIs ==
    ASSUME TypeInv, NEW k \in Command, NEW l \in Link, NEW what \in Kind,
           BrokerEnqueues(k, l, what)
    PROVE  /\ Store!HasRow(l) /\ kind[k] = "none" /\ commands[k].state = "absent"
           /\ commands'[k].state = "pending"
           /\ \A m \in Command : m # k => commands'[m] = commands[m]
           /\ kind'[k] = what /\ \A m \in Command : m # k => kind'[m] = kind[m]
           /\ \A m \in Link : m # l => queue'[m] = queue[m]
           /\ queue'[l] = Append(queue[l], k)
           /\ queue[l] \in Seq(Command)
           /\ UNCHANGED <<sessions, events, claims, dead, connVars, tickVars,
                          executed, announced, faults>>
<1>1. /\ commands \in [Command -> Store!CommandRow]
      /\ queue \in [Link -> Seq(Command)]
      /\ kind \in [Command -> Kind \cup {"none"}]
  BY DEF TypeInv, Store!TypeOK, MemoryType
<1>2. QED
  BY <1>1 DEF BrokerEnqueues, Store!EnqueueCommand, Store!Queued

LEMMA KindIsReal == \A what \in Kind : what # "none"
BY KindAssumption DEF KindAssumption

LEMMA CommandStep ==
    TypeInv /\ LinkInv /\ CommandInv /\ [Next]_vars => CommandInv'
<1> SUFFICES ASSUME TypeInv, LinkInv, CommandInv, [Next]_vars PROVE CommandInv'
  OBVIOUS
<1> USE DEF CommandInv
<1>a. Used \subseteq Used'
  BY UsedGrows
<1>b. /\ commands \in [Command -> Store!CommandRow]
      /\ queue \in [Link -> Seq(Command)]
  BY DEF TypeInv, Store!TypeOK
<1>1. CASE UNCHANGED <<queue, commands, claims, kind>>
  BY <1>1, <1>a DEF KindsKnown, QueuesAreUsed, OwnersAreUsed
<1>2. CASE PollClaim
  <2>1. PICK k \in Command :
           /\ commands[k].state = "pending"
           /\ commands' = [commands EXCEPT ![k] =
                              [state |-> "claimed", owner |-> conn]]
           /\ queue' = queue
    BY <1>2, ClaimIs
  <2>2. kind' = kind /\ conn \in Used
    BY <1>2 DEF PollClaim, history, LinkInv, ConnectedOwns, OptInLives, Connected
  <2>3. /\ commands'[k].state = "claimed" /\ commands'[k].owner = conn
        /\ \A m \in Command : m # k => commands'[m] = commands[m]
    BY <2>1, <1>b
  <2>4. KindsKnown'
    BY <2>1, <2>2, <2>3 DEF KindsKnown
  <2>5. QueuesAreUsed'
    BY <2>1, <1>a DEF QueuesAreUsed
  <2>6. OwnersAreUsed'
    BY <2>2, <2>3, <1>a DEF OwnersAreUsed
  <2>7. QED
    BY <2>4, <2>5, <2>6
<1>3. CASE ReportSettle
  <2>1. KindsKnown'
    BY <1>3, SettleIs DEF KindsKnown
  <2>2. QueuesAreUsed'
    BY <1>3, <1>a, SettleIs DEF QueuesAreUsed
  <2>3. OwnersAreUsed'
    BY <1>3, <1>a, SettleIs DEF OwnersAreUsed
  <2>4. QED
    BY <2>1, <2>2, <2>3
<1>4. ASSUME NEW k \in Command, NEW l \in Link, NEW what \in Kind,
             BrokerEnqueues(k, l, what)
      PROVE  CommandInv'
  <2>1. KindsKnown'
    BY <1>4, EnqueueIs, KindIsReal DEF KindsKnown
  <2>2. QueuesAreUsed'
    <3>1. l \in Used'
      BY <1>4, <1>a, EnqueueIs DEF LinkInv, RowsAreUsed
    <3>2. QED
      BY <1>4, <1>a, <3>1, EnqueueIs DEF QueuesAreUsed
  <2>3. OwnersAreUsed'
    BY <1>4, <1>a, EnqueueIs DEF OwnersAreUsed
  <2>4. QED
    BY <2>1, <2>2, <2>3
<1>5. QED
  BY <1>1, <1>2, <1>3, <1>4, QuietLedger
-----------------------------------------------------------------------------
(* The poll tick against the claims                                          *)

(* What is used of the store's invariant.                                    *)
LEMMA LedgerFacts ==
    ASSUME Tables!IInv
    PROVE  /\ \A a, b \in DOMAIN claims : claims[a] = claims[b] => a = b
           /\ \A l, m \in Link : \A i \in DOMAIN queue[l], j \in DOMAIN queue[m] :
                 queue[l][i] = queue[m][j] => l = m /\ i = j
           /\ \A b \in DOMAIN claims, l \in Link : \A j \in DOMAIN queue[l] :
                 queue[l][j] = claims[b] =>
                     \A i \in 1..(j - 1) :
                         \E a \in 1..(b - 1) : claims[a] = queue[l][i]
BY DEF Tables!IInv, Tables!LedgerInv, Tables!ClaimedOnce, Tables!QueuedOnce,
       Tables!NoOvertaking

LEMMA LedgerFactsNext ==
    ASSUME Tables!IInv'
    PROVE  \A a, b \in DOMAIN claims' : claims'[a] = claims'[b] => a = b
BY DEF Tables!IInv, Tables!LedgerInv, Tables!ClaimedOnce

LEMMA ClaimsAreSeq ==
    ASSUME TypeInv
    PROVE  /\ claims \in Seq(Command) /\ Len(claims) \in Nat
           /\ DOMAIN claims = 1..Len(claims)
           /\ batch \in Seq(Command) /\ Len(batch) \in Nat
           /\ DOMAIN batch = 1..Len(batch)
           /\ (phase = "idle") <=> (batch = <<>>)
<1>1. claims \in Seq(Command) /\ batch \in Seq(Command)
  BY DEF TypeInv, Store!TypeOK, TickType
<1>2. (phase = "idle") <=> (batch = <<>>)
  BY DEF TypeInv, TickType
<1>3. QED
  BY <1>1, <1>2

(* The commands of a batch are different.                                    *)
LEMMA HeadIsAlone ==
    ASSUME TypeInv, Tables!IInv, TickInv, phase # "idle",
           NEW i \in DOMAIN batch, i > 1
    PROVE  batch[i] # Current
<1>1. Current = batch[1] /\ 1 \in DOMAIN batch
  BY BatchShape DEF TypeInv
<1>2. /\ batch[1] = claims[Len(claims) - Len(batch) + 1]
      /\ batch[i] = claims[Len(claims) - Len(batch) + i]
      /\ Len(batch) <= Len(claims)
  BY <1>1 DEF TickInv, BatchIsSuffix
<1>3. /\ Len(claims) - Len(batch) + 1 \in DOMAIN claims
      /\ Len(claims) - Len(batch) + i \in DOMAIN claims
  BY <1>1, <1>2, ClaimsAreSeq
<1>4. Len(claims) - Len(batch) + 1 # Len(claims) - Len(batch) + i
  BY ClaimsAreSeq
<1>5. QED
  BY <1>1, <1>2, <1>3, <1>4, LedgerFacts

(* Nothing is claimed: what a finished or advanced tick keeps.               *)
LEMMA TickEnds ==
    ASSUME TypeInv, phase' = "idle", batch' = <<>>, claims' = claims
    PROVE  TickInv'
<1>1. batch' = <<>> /\ phase' = "idle"
  OBVIOUS
<1>2. DOMAIN batch' = {} /\ Len(batch') = 0
  BY <1>1
<1>3. TickIsConnected' /\ HeadIsSettled'
  BY <1>1 DEF TickIsConnected, HeadIsSettled
<1>4. BatchIsSuffix'
  BY <1>2, ClaimsAreSeq DEF BatchIsSuffix
<1>5. BatchIsSent' /\ BatchIsClaimed'
  BY <1>2 DEF BatchIsSent, BatchIsClaimed
<1>6. QED
  BY <1>3, <1>4, <1>5 DEF TickInv

LEMMA TickProceeds ==
    ASSUME TypeInv, TickInv, phase # "idle", Proceed,
           UNCHANGED <<queue, commands, claims>>
    PROVE  TickInv'
<1>1. CASE Len(batch) = 1
  BY <1>1, TickEnds DEF Proceed, EndTick
<1>2. CASE Len(batch) # 1
  <2>1. /\ phase' = "handling" /\ batch' = Tail(batch) /\ polling' = polling
        /\ Len(batch') = Len(batch) - 1
        /\ \A i \in DOMAIN batch' : /\ i \in Nat \ {0} /\ i + 1 \in DOMAIN batch
                                    /\ batch'[i] = batch[i + 1]
    <3>1. \A i \in DOMAIN Tail(batch) : i \in Nat \ {0}
      BY <1>2, BatchShape DEF TypeInv
    <3>2. QED
      BY <1>2, <3>1, BatchShape DEF Proceed, TypeInv
  <2>2. TickIsConnected' /\ HeadIsSettled'
    BY <2>1 DEF TickIsConnected, HeadIsSettled
  <2>3. BatchIsSuffix'
    <3>1. Len(batch) <= Len(claims)
          /\ \A i \in DOMAIN batch : batch[i] = claims[Len(claims) - Len(batch) + i]
      BY DEF TickInv, BatchIsSuffix
    <3>2. \A i \in DOMAIN batch' :
             Len(claims) - Len(batch) + (i + 1) = Len(claims) - Len(batch') + i
      BY <2>1, ClaimsAreSeq
    <3>3. Len(batch') <= Len(claims)
      BY <2>1, <3>1, ClaimsAreSeq
    <3>4. \A i \in DOMAIN batch' : batch'[i] = claims[Len(claims) - Len(batch') + i]
      BY <2>1, <3>1, <3>2
    <3>5. QED
      BY <3>3, <3>4 DEF BatchIsSuffix
  <2>4. BatchIsSent'
    BY <2>1 DEF TickInv, BatchIsSent, SentTo
  <2>5. BatchIsClaimed'
    <3>1. \A i \in DOMAIN batch' : i + 1 > 1
      BY <2>1
    <3>2. QED
      BY <2>1, <3>1 DEF TickInv, BatchIsClaimed
  <2>6. QED
    BY <2>2, <2>3, <2>4, <2>5 DEF TickInv
<1>3. QED
  BY <1>1, <1>2

(* A step of the tick that keeps its batch, its connection and the ledger.   *)
LEMMA TickStays ==
    ASSUME TypeInv, TickInv, phase # "idle",
           UNCHANGED <<batch, polling, conn, queue, commands, claims>>,
           \/ phase' = "handling" /\ phase = "claiming"
           \/ phase' = "settling" /\ phase = "handling" /\ conn = polling
           \/ phase' = "unlinking" /\ phase \in {"settling", "announcing"}
    PROVE  TickInv'
<1> USE DEF TickInv
<1>1. TickIsConnected'
  BY DEF TickIsConnected
<1>2. BatchIsSuffix' /\ BatchIsSent'
  BY DEF BatchIsSuffix, BatchIsSent, SentTo
<1>3. BatchIsClaimed'
  BY DEF BatchIsClaimed
<1>4. HeadIsSettled'
  BY DEF HeadIsSettled
<1>5. QED
  BY <1>1, <1>2, <1>3, <1>4

LEMMA TickClaims ==
    ASSUME TypeInv, TickInv, PollClaim
    PROVE  TickInv'
<1>1. PICK q \in DOMAIN queue[conn] :
         /\ conn \in Link /\ queue[conn][q] \in Command
         /\ commands[queue[conn][q]].state = "pending"
         /\ commands' = [commands EXCEPT ![queue[conn][q]] =
                            [state |-> "claimed", owner |-> conn]]
         /\ claims' = Append(claims, queue[conn][q])
         /\ batch' = Append(batch, queue[conn][q])
         /\ queue' = queue
  BY ClaimIs
<1> DEFINE k == queue[conn][q]
           n == Len(batch)
           m == Len(claims)
<1>2. /\ phase' = "claiming" /\ polling' = conn /\ conn' = conn
      /\ phase \in {"idle", "claiming"}
  BY DEF PollClaim, connVars
<1>3. commands \in [Command -> Store!CommandRow]
  BY DEF TypeInv, Store!TypeOK
<1>4. /\ commands'[k].state = "claimed"
      /\ \A c \in Command : c # k => commands'[c] = commands[c]
  BY <1>1, <1>3
<1>5. /\ n \in Nat /\ m \in Nat
      /\ Len(batch') = n + 1 /\ Len(claims') = m + 1
      /\ DOMAIN batch = 1..n /\ DOMAIN claims = 1..m
      /\ DOMAIN batch' = 1..(n + 1)
      /\ batch'[n + 1] = k /\ claims'[m + 1] = k
      /\ \A i \in 1..n : batch'[i] = batch[i]
      /\ \A i \in 1..m : claims'[i] = claims[i]
      /\ \A i \in 1..n : batch[i] \in Command
  BY <1>1, ClaimsAreSeq
<1>6. n <= m /\ \A i \in 1..n : batch[i] = claims[m - n + i]
  BY <1>5 DEF TickInv, BatchIsSuffix
<1>k. k = queue[conn][q] /\ k \in Command
  BY <1>1
<1>nm. n = Len(batch) /\ m = Len(claims)
  OBVIOUS
<1> HIDE DEF k, n, m
<1>7. TickIsConnected' /\ HeadIsSettled'
  BY <1>2 DEF TickIsConnected, HeadIsSettled
<1>8. BatchIsSuffix'
  <2>1. \A i \in 1..n : m - n + i \in 1..m /\ m + 1 - (n + 1) + i = m - n + i
    BY <1>5, <1>6
  <2>2. m + 1 - (n + 1) + (n + 1) = m + 1 /\ n + 1 <= m + 1
    BY <1>5, <1>6
  <2>3. \A i \in 1..(n + 1) : i \in 1..n \/ i = n + 1
    BY <1>5
  <2>4. \A i \in 1..(n + 1) : batch'[i] = claims'[m + 1 - (n + 1) + i]
    BY <1>5, <1>6, <2>1, <2>2, <2>3
  <2>5. QED
    BY <1>5, <2>2, <2>4 DEF BatchIsSuffix
<1>9. BatchIsSent'
  <2>1. \A i \in 1..n : SentTo(batch[i], conn)
    <3>1. CASE phase = "idle"
      BY <3>1, <1>5, ClaimsAreSeq
    <3>2. CASE phase = "claiming"
      BY <3>2, <1>5 DEF TickInv, BatchIsSent, TickIsConnected
    <3>3. QED
      BY <1>2, <3>1, <3>2
  <2>2. SentTo(k, conn)
    BY <1>1, <1>k DEF SentTo
  <2>3. \A i \in 1..(n + 1) : i \in 1..n \/ i = n + 1
    BY <1>5
  <2>4. \A i \in 1..(n + 1) : SentTo(batch'[i], conn)
    BY <1>5, <2>1, <2>2, <2>3
  <2>5. QED
    BY <1>1, <1>2, <1>5, <2>4 DEF BatchIsSent, SentTo
<1>10. BatchIsClaimed'
  <2>1. \A i \in 1..n : commands[batch[i]].state = "claimed"
    <3>1. CASE phase = "idle"
      BY <3>1, <1>5, ClaimsAreSeq
    <3>2. CASE phase = "claiming"
      BY <3>2, <1>5 DEF TickInv, BatchIsClaimed
    <3>3. QED
      BY <1>2, <3>1, <3>2
  <2>2. \A i \in 1..n : commands'[batch[i]].state = "claimed"
    BY <1>4, <1>5, <2>1
  <2>3. \A i \in 1..(n + 1) : i \in 1..n \/ i = n + 1
    BY <1>5
  <2>4. \A i \in 1..(n + 1) : commands'[batch'[i]].state = "claimed"
    BY <1>4, <1>5, <2>2, <2>3
  <2>5. QED
    BY <1>5, <2>4 DEF BatchIsClaimed
<1>11. QED
  BY <1>7, <1>8, <1>9, <1>10 DEF TickInv

LEMMA TickSettles ==
    ASSUME TypeInv, Tables!IInv, TickInv, ReportSettle
    PROVE  TickInv'
<1> USE DEF TickInv
<1>1. /\ phase = "settling" /\ phase' = "announcing"
      /\ UNCHANGED <<batch, polling, conn, verdict>>
  BY DEF ReportSettle, connVars
<1>2. /\ commands'[Current].state = IF verdict THEN "completed" ELSE "failed"
      /\ \A k \in Command : k # Current => commands'[k] = commands[k]
      /\ UNCHANGED <<queue, claims, kind>>
  BY SettleIs
<1>3. TickIsConnected' /\ BatchIsSuffix' /\ BatchIsSent'
  BY <1>1, <1>2 DEF TickIsConnected, BatchIsSuffix, BatchIsSent, SentTo
<1>4. BatchIsClaimed'
  <2>1. \A i \in DOMAIN batch : batch[i] \in Command
    BY ClaimsAreSeq
  <2>2. \A i \in DOMAIN batch : i > 1 => commands[batch[i]].state = "claimed"
    BY DEF BatchIsClaimed
  <2>3. \A i \in DOMAIN batch : i > 1 => batch[i] # Current
    BY <1>1, HeadIsAlone
  <2>4. QED
    BY <1>1, <1>2, <2>1, <2>2, <2>3 DEF BatchIsClaimed
<1>5. HeadIsSettled'
  BY <1>1, <1>2 DEF HeadIsSettled, Current
<1>6. QED
  BY <1>3, <1>4, <1>5

LEMMA TickEnqueued ==
    ASSUME TypeInv, TickInv,
           NEW k \in Command, NEW l \in Link, NEW what \in Kind,
           BrokerEnqueues(k, l, what)
    PROVE  TickInv'
<1> USE DEF TickInv
<1>1. /\ commands[k].state = "absent"
      /\ \A m \in Command : m # k => commands'[m] = commands[m]
      /\ \A m \in Link : m # l => queue'[m] = queue[m]
      /\ queue'[l] = Append(queue[l], k) /\ queue[l] \in Seq(Command)
      /\ UNCHANGED <<claims, conn, phase, polling, batch, verdict>>
  BY EnqueueIs DEF connVars, tickVars
<1>2. TickIsConnected' /\ BatchIsSuffix'
  BY <1>1 DEF TickIsConnected, BatchIsSuffix
<1>3. BatchIsSent'
  <2>1. \A c : SentTo(c, l) => SentTo(c, l)'
    BY <1>1 DEF SentTo
  <2>2. \A c, m \in Link : m # l /\ SentTo(c, m) => SentTo(c, m)'
    BY <1>1 DEF SentTo
  <2>3. \A i \in DOMAIN batch : SentTo(batch[i], polling)
    BY DEF BatchIsSent
  <2>4. batch # <<>> => polling \in Link
    BY DEF TypeInv, TickType
  <2>5. DOMAIN batch # {} => batch # <<>>
    OBVIOUS
  <2>6. \A i \in DOMAIN batch : SentTo(batch[i], polling)'
    <3>1. TAKE i \in DOMAIN batch
    <3>2. polling \in Link /\ SentTo(batch[i], polling)
      BY <2>3, <2>4, <2>5
    <3>3. CASE polling = l
      BY <3>2, <3>3, <1>1, <2>1 DEF SentTo
    <3>4. CASE polling # l
      BY <3>2, <3>4, <1>1 DEF SentTo
    <3>5. QED
      BY <3>3, <3>4
  <2>7. QED
    BY <1>1, <2>6 DEF BatchIsSent
<1>4. BatchIsClaimed'
  <2>1. \A i \in DOMAIN batch : batch[i] \in Command
    BY ClaimsAreSeq
  <2>2. QED
    BY <1>1, <2>1 DEF BatchIsClaimed
<1>5. HeadIsSettled'
  <2>1. phase # "idle" => Current \in Command
    BY BatchShape DEF TypeInv
  <2>2. QED
    BY <1>1, <2>1 DEF HeadIsSettled, Current
<1>6. QED
  BY <1>2, <1>3, <1>4, <1>5

LEMMA TickStep ==
    TypeInv /\ Tables!IInv /\ TickInv /\ [Next]_vars => TickInv'
<1> SUFFICES ASSUME TypeInv, Tables!IInv, TickInv, [Next]_vars PROVE TickInv'
  OBVIOUS
<1>1. CASE PollClaim
  BY <1>1, TickClaims
<1>2. CASE ReportSettle
  BY <1>2, TickSettles
<1>3. ASSUME NEW k \in Command, NEW l \in Link, NEW what \in Kind,
             BrokerEnqueues(k, l, what)
      PROVE  TickInv'
  BY <1>3, TickEnqueued
<1>4. CASE UNCHANGED <<queue, commands, claims>>
  <2>1. CASE PollThrows \/ ProcessEnds
    BY <1>4, <2>1, TickEnds DEF PollThrows, ProcessEnds, EndTick
  <2>2. CASE HandleDetached \/ RemoteUnlink
    BY <1>4, <2>2, TickProceeds DEF HandleDetached, RemoteUnlink, Handling
  <2>3. CASE PollDone
    BY <1>4, <2>3, TickStays DEF PollDone, connVars
  <2>4. CASE HandleUnverified \/ DeliverText \/ Refuse \/ PiThrows \/ Abort
             \/ PublishStatus \/ AcceptDisconnect
    <3>1. /\ phase = "handling" /\ conn = polling /\ phase' = "settling"
          /\ UNCHANGED <<batch, polling, conn>>
      BY <2>4 DEF HandleUnverified, DeliverText, Refuse, PiThrows, Abort,
                  PublishStatus, AcceptDisconnect, Handling, Revalidated, ReportNext,
                  connVars
    <3>2. QED
      BY <1>4, <3>1, TickStays
  <2>5. CASE ReportAnnounce \/ ReportThrows
    <3>1. /\ phase \in {"settling", "announcing"} /\ AfterReport /\ conn' = conn
      BY <2>5 DEF ReportAnnounce, ReportThrows, connVars
    <3>2. CASE Proceed
      BY <1>4, <3>1, <3>2, TickProceeds
    <3>3. CASE phase' = "unlinking" /\ UNCHANGED <<polling, batch, verdict>>
      BY <1>4, <3>1, <3>3, TickStays
    <3>4. QED
      BY <3>1, <3>2, <3>3 DEF AfterReport
  <2>6. CASE UNCHANGED tickVars /\ (phase = "idle" \/ conn' = conn)
    <3>1. CASE phase = "idle"
      BY <1>4, <2>6, <3>1, TickEnds, ClaimsAreSeq DEF tickVars
    <3>2. CASE phase # "idle"
      BY <1>4, <2>6, <3>2
         DEF tickVars, TickInv, TickIsConnected, BatchIsSuffix, BatchIsSent, SentTo,
             BatchIsClaimed, HeadIsSettled, Current
    <3>3. QED
      BY <3>1, <3>2
  <2>7. CASE \/ \E l \in Link : LocalConnect(l)
             \/ LocalUnlink \/ SessionReplaced \/ Quit \/ SessionStart
             \/ AgentStart \/ AgentSettled \/ \E open \in BOOLEAN : UiPrompt(open)
             \/ Output \/ Heartbeat
    BY <2>6, <2>7
       DEF LocalConnect, LocalUnlink, SessionReplaced, Quit, SessionStart, AgentStart,
           AgentSettled, UiPrompt, Output, Heartbeat, Idle
  <2>8. CASE UNCHANGED vars \/ \E l \in Link : RowGoesStale(l)
    BY <2>6, <2>8 DEF vars, tickVars, connVars, RowGoesStale
  <2>9. QED
    BY <1>1, <1>2, <1>3, <2>1, <2>2, <2>3, <2>4, <2>5, <2>7, <2>8
       DEF Next, Tick, TickThrows
<1>5. QED
  BY <1>1, <1>2, <1>3, <1>4, QuietLedger
-----------------------------------------------------------------------------
(* What reached Pi against the claims                                        *)

LEMMA HandledIs ==
    ASSUME TypeInv, TickInv
    PROVE  /\ Handled \in 0..Len(claims)
           /\ phase = "handling" =>
                 /\ Handled + 1 \in DOMAIN claims
                 /\ Current = claims[Handled + 1]
           /\ phase \in {"settling", "announcing", "unlinking"} =>
                 /\ Handled \in DOMAIN claims
                 /\ Current = claims[Handled]
<1>1. /\ Len(claims) \in Nat /\ Len(batch) \in Nat /\ Len(batch) <= Len(claims)
      /\ DOMAIN claims = 1..Len(claims)
  BY ClaimsAreSeq DEF TickInv, BatchIsSuffix
<1>2. ASSUME phase # "idle"
      PROVE  /\ Len(batch) >= 1
             /\ Current = claims[Len(claims) - Len(batch) + 1]
             /\ Len(claims) - Len(batch) + 1 \in DOMAIN claims
  <2>1. Len(batch) \in Nat \ {0} /\ Current = batch[1] /\ 1 \in DOMAIN batch
    BY <1>2, BatchShape DEF TypeInv
  <2>2. QED
    BY <1>1, <2>1 DEF TickInv, BatchIsSuffix
<1>3. CASE phase \in {"settling", "announcing", "unlinking"}
  <2>1. Handled = Len(claims) - Len(batch) + 1
    BY <1>3 DEF Handled
  <2>2. QED
    BY <1>1, <1>2, <1>3, <2>1
<1>4. CASE phase \notin {"settling", "announcing", "unlinking"}
  <2>1. Handled = Len(claims) - Len(batch)
    BY <1>1, <1>4 DEF Handled
  <2>2. QED
    BY <1>1, <1>2, <1>4, <2>1
<1>5. QED
  BY <1>3, <1>4

(* A command that is not among the handled claims has not reached Pi.        *)
LEMMA NotReached ==
    ASSUME TypeInv, Tables!IInv, TickInv, ExecutedInv,
           NEW p \in DOMAIN claims, p > Handled
    PROVE  ~Reached(claims[p])
<1> SUFFICES ASSUME Reached(claims[p]) PROVE FALSE
  OBVIOUS
<1>1. PICK a \in DOMAIN executed : executed[a] = claims[p]
  BY DEF Reached
<1>2. PICK q \in 1..Handled : claims[q] = claims[p]
  BY <1>1 DEF ExecutedInv, ReachedAreHandled
<1>3. q \in DOMAIN claims
  BY HandledIs, ClaimsAreSeq
<1>4. q = p
  BY <1>2, <1>3, LedgerFacts
<1>5. QED
  BY <1>4, HandledIs

(* Nothing reaches Pi; claims may be added or left behind.                   *)
LEMMA ExecutedKept ==
    ASSUME TypeInv, TypeInv', Tables!IInv', TickInv, ExecutedInv,
           executed' = executed,
           claims' = claims \/ \E k \in Command : claims' = Append(claims, k),
           Handled' >= Handled
    PROVE  ExecutedInv'
<1> USE DEF ExecutedInv
<1>1. /\ Handled \in 0..Len(claims) /\ Handled' \in Int
      /\ DOMAIN claims = 1..Len(claims) /\ Len(claims) \in Nat
  <2>1. claims' \in Seq(Command) /\ batch' \in Seq(Command)
    BY DEF TypeInv, Store!TypeOK, TickType
  <2>2. Len(claims') \in Nat /\ Len(batch') \in Nat
    BY <2>1
  <2>3. Handled' \in Int
    BY <2>2 DEF Handled
  <2>4. QED
    BY <2>3, HandledIs, ClaimsAreSeq
<1>2. \A p \in DOMAIN claims : p \in DOMAIN claims' /\ claims'[p] = claims[p]
  BY ClaimsAreSeq
<1>3. ReachedAreHandled'
  <2>1. \A p \in 1..Handled : p \in 1..Handled' /\ claims'[p] = claims[p]
    BY <1>1, <1>2
  <2>2. QED
    BY <2>1 DEF ReachedAreHandled
<1>4. ReachedInOrder'
  <2> SUFFICES ASSUME NEW a \in DOMAIN executed, NEW b \in DOMAIN executed, a < b,
                      NEW p \in DOMAIN claims', NEW q \in DOMAIN claims',
                      claims'[p] = executed[a], claims'[q] = executed[b]
               PROVE  p < q
    BY DEF ReachedInOrder
  <2>1. PICK x \in 1..Handled : claims[x] = executed[a]
    BY DEF ReachedAreHandled
  <2>2. PICK y \in 1..Handled : claims[y] = executed[b]
    BY DEF ReachedAreHandled
  <2>3. x \in DOMAIN claims /\ y \in DOMAIN claims
    BY <1>1
  <2>4. x = p /\ y = q
    BY <1>2, <2>1, <2>2, <2>3, LedgerFactsNext
  <2>5. x < y
    BY <2>1, <2>2, <2>3 DEF ReachedInOrder
  <2>6. QED
    BY <2>4, <2>5
<1>5. QED
  BY <1>3, <1>4

(* The head of the batch reaches Pi.                                         *)
LEMMA ExecutedGrows ==
    ASSUME TypeInv, Tables!IInv, TickInv, ExecutedInv, phase = "handling",
           phase' = "settling", executed' = Append(executed, Current),
           UNCHANGED <<batch, claims>>
    PROVE  ExecutedInv'
<1> USE DEF ExecutedInv
<1> DEFINE n == Len(executed)
           h == Handled
<1>1. /\ h \in 0..Len(claims) /\ h + 1 \in DOMAIN claims /\ Current = claims[h + 1]
      /\ DOMAIN claims = 1..Len(claims) /\ Len(claims) \in Nat
  BY HandledIs, ClaimsAreSeq
<1>2. Handled' = h + 1
  BY ClaimsAreSeq DEF Handled
<1>3. Current \in Command /\ executed \in Seq(Command)
  BY BatchShape DEF TypeInv, MemoryType
<1>4. /\ n \in Nat /\ DOMAIN executed = 1..n /\ DOMAIN executed' = 1..(n + 1)
      /\ executed'[n + 1] = claims[h + 1]
      /\ \A a \in 1..n : executed'[a] = executed[a]
  BY <1>1, <1>3
<1>5. h = Handled
  OBVIOUS
<1> HIDE DEF n, h
<1>6. \A a \in 1..n : \E p \in 1..h : claims[p] = executed[a]
  BY <1>4, <1>5 DEF ReachedAreHandled
<1>7. ReachedAreHandled'
  <2>1. \A p \in 1..h : p \in 1..(h + 1)
    BY <1>1
  <2>2. h + 1 \in 1..(h + 1)
    BY <1>1
  <2>3. \A a \in 1..(n + 1) : a \in 1..n \/ a = n + 1
    BY <1>4
  <2>4. \A a \in 1..(n + 1) : \E p \in 1..(h + 1) : claims[p] = executed'[a]
    BY <1>4, <1>6, <2>1, <2>2, <2>3
  <2>5. QED
    BY <1>2, <1>4, <2>4 DEF ReachedAreHandled
<1>8. ReachedInOrder'
  <2> SUFFICES ASSUME NEW a \in DOMAIN executed', NEW b \in DOMAIN executed', a < b,
                      NEW p \in DOMAIN claims, NEW q \in DOMAIN claims,
                      claims[p] = executed'[a], claims[q] = executed'[b]
               PROVE  p < q
    BY DEF ReachedInOrder
  <2>1. a \in 1..n
    BY <1>4
  <2>2. CASE b \in 1..n
    BY <1>4, <2>1, <2>2 DEF ReachedInOrder
  <2>3. CASE b = n + 1
    <3>1. q = h + 1
      BY <1>1, <1>4, <2>3, LedgerFacts
    <3>2. PICK x \in 1..h : claims[x] = executed[a]
      BY <1>6, <2>1
    <3>3. x \in DOMAIN claims
      BY <1>1
    <3>4. x = p
      BY <1>4, <2>1, <3>2, <3>3, LedgerFacts
    <3>5. QED
      BY <1>1, <3>1, <3>4
  <2>4. QED
    BY <1>4, <2>2, <2>3
<1>9. QED
  BY <1>7, <1>8

(* The number of handled claims never falls.                                 *)
LEMMA HandledGrows ==
    ASSUME TypeInv, TickInv, claims' = claims,
           \/ UNCHANGED <<batch, phase>>
           \/ phase' = "idle" /\ batch' = <<>>
           \/ phase # "idle" /\ Proceed
           \/ UNCHANGED batch /\ phase \in {"claiming", "handling"}
           \/ UNCHANGED batch /\ phase' \in {"settling", "announcing", "unlinking"}
    PROVE  Handled' >= Handled
<1>1. /\ Len(claims) \in Nat /\ Len(batch) \in Nat /\ Handled \in 0..Len(claims)
  BY ClaimsAreSeq, HandledIs
<1>2. /\ phase \notin {"settling", "announcing", "unlinking"} =>
            Handled = Len(claims) - Len(batch)
      /\ Handled <= Len(claims) - Len(batch) + 1
  BY <1>1 DEF Handled
<1>3. CASE UNCHANGED <<batch, phase>>
  <2>1. Handled' = Handled
    BY <1>3 DEF Handled
  <2>2. QED
    BY <2>1, <1>1
<1>4. CASE phase' = "idle" /\ batch' = <<>>
  <2>1. Handled' = Len(claims)
    BY <1>1, <1>4 DEF Handled
  <2>2. QED
    BY <2>1, <1>1
<1>5. CASE phase # "idle" /\ Proceed
  <2>1. CASE Len(batch) = 1
    BY <1>4, <1>5, <2>1 DEF Proceed, EndTick
  <2>2. CASE Len(batch) # 1
    <3>1. phase' = "handling" /\ Len(batch') = Len(batch) - 1
      BY <1>5, <2>2, BatchShape DEF Proceed, TypeInv
    <3>2. Handled' = Len(claims) - Len(batch) + 1
      BY <1>1, <3>1 DEF Handled
    <3>3. QED
      BY <1>1, <1>2, <3>2
  <2>3. QED
    BY <2>1, <2>2
<1>6. CASE UNCHANGED batch /\ phase \in {"claiming", "handling"}
  <2>1. Handled' \in {Len(claims) - Len(batch), Len(claims) - Len(batch) + 1}
    BY <1>1, <1>6 DEF Handled
  <2>2. QED
    BY <1>1, <1>2, <1>6, <2>1
<1>7. CASE UNCHANGED batch /\ phase' \in {"settling", "announcing", "unlinking"}
  <2>1. Handled' = Len(claims) - Len(batch) + 1
    BY <1>1, <1>7 DEF Handled
  <2>2. QED
    BY <1>1, <1>2, <2>1
<1>8. QED
  BY <1>3, <1>4, <1>5, <1>6, <1>7

LEMMA ExecutedStep ==
    /\ TypeInv /\ TypeInv' /\ Tables!IInv /\ Tables!IInv'
    /\ TickInv /\ ExecutedInv /\ [Next]_vars
    => ExecutedInv'
<1> SUFFICES ASSUME TypeInv, TypeInv', Tables!IInv, Tables!IInv', TickInv,
                    ExecutedInv, [Next]_vars
             PROVE  ExecutedInv'
  OBVIOUS
<1>1. CASE PollClaim
  <2>1. PICK k \in Command : claims' = Append(claims, k) /\ batch' = Append(batch, k)
    BY <1>1, ClaimIs
  <2>2. /\ phase \in {"idle", "claiming"} /\ phase' = "claiming" /\ executed' = executed
    BY <1>1 DEF PollClaim, history
  <2>3. /\ Len(claims') = Len(claims) + 1 /\ Len(batch') = Len(batch) + 1
        /\ Len(claims) \in Nat /\ Len(batch) \in Nat
    BY <2>1, ClaimsAreSeq
  <2>4. Handled' = Handled /\ Handled' >= Handled
    BY <2>2, <2>3 DEF Handled
  <2>5. QED
    BY <2>1, <2>2, <2>4, ExecutedKept
<1>2. CASE DeliverText \/ Abort
  <2>1. /\ phase = "handling" /\ phase' = "settling"
        /\ executed' = Append(executed, Current) /\ UNCHANGED <<batch, claims>>
    BY <1>2 DEF DeliverText, Abort, Handling, ReportNext, storeVars
  <2>2. QED
    BY <2>1, ExecutedGrows
<1>3. ASSUME executed' = executed, claims' = claims,
             \/ UNCHANGED <<batch, phase>>
             \/ phase' = "idle" /\ batch' = <<>>
             \/ phase # "idle" /\ Proceed
             \/ UNCHANGED batch /\ phase \in {"claiming", "handling"}
             \/ UNCHANGED batch /\ phase' \in {"settling", "announcing", "unlinking"}
      PROVE  ExecutedInv'
  BY <1>3, HandledGrows, ExecutedKept
<1>4. CASE ReportSettle
  <2>1. /\ executed' = executed /\ claims' = claims /\ UNCHANGED batch
        /\ phase' = "announcing"
    BY <1>4, SettleIs DEF ReportSettle, history
  <2>2. QED
    BY <2>1, <1>3
<1>5. ASSUME NEW k \in Command, NEW l \in Link, NEW what \in Kind,
             BrokerEnqueues(k, l, what)
      PROVE  ExecutedInv'
  <2>1. UNCHANGED <<executed, claims, batch, phase>>
    BY <1>5, EnqueueIs DEF tickVars
  <2>2. QED
    BY <2>1, <1>3
<1>6. CASE UNCHANGED claims
  <2>1. CASE PollThrows \/ ProcessEnds
    BY <1>3, <1>6, <2>1 DEF PollThrows, ProcessEnds, EndTick, history
  <2>2. CASE HandleDetached \/ RemoteUnlink
    BY <1>3, <1>6, <2>2 DEF HandleDetached, RemoteUnlink, Handling, history
  <2>3. CASE PollDone
    BY <1>3, <1>6, <2>3 DEF PollDone, history
  <2>4. CASE HandleUnverified \/ Refuse \/ PiThrows \/ PublishStatus
             \/ AcceptDisconnect
    <3>1. /\ phase' = "settling" /\ UNCHANGED batch /\ executed' = executed
      BY <2>4 DEF HandleUnverified, Refuse, PiThrows, PublishStatus,
                  AcceptDisconnect, ReportNext, history
    <3>2. QED
      BY <1>3, <1>6, <3>1
  <2>5. CASE ReportAnnounce \/ ReportThrows
    <3>1. /\ phase # "idle" /\ AfterReport /\ executed' = executed
      BY <2>5 DEF ReportAnnounce, ReportThrows, history
    <3>2. QED
      BY <1>3, <1>6, <3>1 DEF AfterReport
  <2>6. CASE \/ \E l \in Link : LocalConnect(l) \/ RowGoesStale(l)
             \/ LocalUnlink \/ SessionReplaced \/ Quit \/ SessionStart
             \/ AgentStart \/ AgentSettled \/ \E open \in BOOLEAN : UiPrompt(open)
             \/ Output \/ Heartbeat \/ UNCHANGED vars
    <3>1. UNCHANGED <<batch, phase, executed>>
      BY <2>6
         DEF LocalConnect, LocalUnlink, SessionReplaced, Quit, SessionStart,
             AgentStart, AgentSettled, UiPrompt, Output, Heartbeat, RowGoesStale,
             tickVars, history, vars
    <3>2. QED
      BY <1>3, <1>6, <3>1
  <2>7. QED
    BY <1>1, <1>2, <1>4, <1>5, <2>1, <2>2, <2>3, <2>4, <2>5, <2>6
       DEF Next, Tick, TickThrows
<1>7. QED
  BY <1>1, <1>4, <1>5, <1>6, QuietLedger
-----------------------------------------------------------------------------
(* What the phone is told                                                    *)

(* Steps that neither move the ledger nor let anything reach Pi or the phone.*)
LEMMA QuietHistory ==
    ASSUME [Next]_vars, ~PollClaim, ~ReportSettle, ~DeliverText, ~Abort, ~ReportAnnounce,
           ~(\E k \in Command, l \in Link, what \in Kind : BrokerEnqueues(k, l, what))
    PROVE  UNCHANGED <<queue, commands, claims, kind, executed, announced>>
<1>1. UNCHANGED <<queue, commands, claims, kind>>
  BY QuietLedger
<1>2. CASE Tick \/ TickThrows
  BY <1>1, <1>2
     DEF Tick, TickThrows, PollDone, HandleDetached, Refuse, PublishStatus,
         AcceptDisconnect, RemoteUnlink, PollThrows, HandleUnverified, PiThrows,
         ReportThrows, history
<1>3. CASE \/ \E l \in Link : LocalConnect(l) \/ RowGoesStale(l)
           \/ LocalUnlink \/ SessionReplaced \/ Quit \/ SessionStart \/ ProcessEnds
           \/ AgentStart \/ AgentSettled \/ \E open \in BOOLEAN : UiPrompt(open)
           \/ Output \/ Heartbeat \/ UNCHANGED vars
  BY <1>1, <1>3
     DEF LocalConnect, LocalUnlink, SessionReplaced, Quit, SessionStart, ProcessEnds,
         AgentStart, AgentSettled, UiPrompt, Output, Heartbeat, RowGoesStale, vars,
         history
<1>4. QED
  BY <1>2, <1>3 DEF Next

(* Faults only add up, and the dead stay dead.                               *)
LEMMA FaultsGrow == TypeInv /\ [Next]_vars => faults' = faults \/ faults' > 0
<1> SUFFICES ASSUME TypeInv, [Next]_vars PROVE faults' = faults \/ faults' > 0
  OBVIOUS
<1>1. Throws => faults' > 0
  BY FaultsStep DEF TypeInv
<1>2. Dispose => faults' = faults \/ faults' > 0
  BY <1>1 DEF Dispose
<1>3. \A agent, prompt : Push(agent, prompt) => faults' = faults \/ faults' > 0
  BY <1>1 DEF Push
<1>4. CASE Tick \/ TickThrows
  BY <1>1, <1>2, <1>4
     DEF Tick, TickThrows, PollClaim, PollDone, HandleDetached, DeliverText, Refuse,
         Abort, PublishStatus, AcceptDisconnect, ReportSettle, ReportAnnounce,
         RemoteUnlink, PollThrows, HandleUnverified, PiThrows, ReportThrows
<1>5. CASE \/ \E l \in Link : LocalConnect(l) \/ RowGoesStale(l)
           \/ \E k \in Command, l \in Link, what \in Kind : BrokerEnqueues(k, l, what)
           \/ LocalUnlink \/ SessionReplaced \/ Quit \/ SessionStart \/ ProcessEnds
           \/ AgentStart \/ AgentSettled \/ \E open \in BOOLEAN : UiPrompt(open)
           \/ Output \/ Heartbeat \/ UNCHANGED vars
  BY <1>2, <1>3, <1>5
     DEF LocalConnect, LocalUnlink, SessionReplaced, Quit, SessionStart, ProcessEnds,
         AgentStart, AgentSettled, UiPrompt, Output, Heartbeat, RowGoesStale, vars,
         BrokerEnqueues
<1>6. QED
  BY <1>4, <1>5 DEF Next

LEMMA DeadGrow == TypeInv /\ [Next]_vars => dead \subseteq dead'
<1> SUFFICES ASSUME TypeInv, [Next]_vars PROVE dead \subseteq dead'
  OBVIOUS
<1>1. Tables!Next \/ UNCHANGED storeVars
  BY StoreStep DEF StoreNext
<1>2. QED
  BY <1>1
     DEF storeVars, Tables!Next, Tables!RegisterInsert, Tables!RegisterReplace,
         Tables!RegisterRefresh, Tables!Heartbeat, Tables!SetState,
         Tables!Disconnect, Tables!AppendEvent, Tables!EnqueueCommand,
         Tables!ClaimNextCommand, Tables!CompleteCommand, Tables!FailCommand,
         Tables!FailStaleClaims, Tables!GoStale, Tables!ProcessDies

(* What a step does to the commands: only a report settles one, the head of  *)
(* the batch, and what is settled stays as it is.                            *)
LEMMA SettledStays ==
    ASSUME TypeInv, [Next]_vars, NEW k \in Command,
           commands[k].state \in {"completed", "failed"}
    PROVE  commands'[k] = commands[k] /\ kind'[k] = kind[k]
<1>1. CASE PollClaim
  <2>1. PICK c \in Command :
           /\ commands[c].state = "pending"
           /\ commands' = [commands EXCEPT ![c] = [state |-> "claimed", owner |-> conn]]
    BY <1>1, ClaimIs
  <2>2. c # k
    BY <2>1
  <2>3. commands \in [Command -> Store!CommandRow]
    BY DEF TypeInv, Store!TypeOK
  <2>4. QED
    BY <1>1, <2>1, <2>2, <2>3 DEF PollClaim, history
<1>2. CASE ReportSettle
  BY <1>2, SettleIs
<1>3. ASSUME NEW c \in Command, NEW l \in Link, NEW what \in Kind,
             BrokerEnqueues(c, l, what)
      PROVE  commands'[k] = commands[k] /\ kind'[k] = kind[k]
  BY <1>3, EnqueueIs
<1>4. QED
  BY <1>1, <1>2, <1>3, QuietLedger

LEMMA OnlyReportsSettle ==
    ASSUME TypeInv, [Next]_vars, NEW k \in Command,
           commands'[k].state \in {"completed", "failed"}
    PROVE  \/ commands[k].state \in {"completed", "failed"}
           \/ ReportSettle /\ k = Current
<1>1. CASE PollClaim
  <2>1. PICK c \in Command :
           commands' = [commands EXCEPT ![c] = [state |-> "claimed", owner |-> conn]]
    BY <1>1, ClaimIs
  <2>2. commands \in [Command -> Store!CommandRow]
    BY DEF TypeInv, Store!TypeOK
  <2>3. k # c /\ commands'[k] = commands[k]
    BY <2>1, <2>2
  <2>4. QED
    BY <2>3
<1>2. CASE ReportSettle
  BY <1>2, SettleIs
<1>3. ASSUME NEW c \in Command, NEW l \in Link, NEW what \in Kind,
             BrokerEnqueues(c, l, what)
      PROVE  commands[k].state \in {"completed", "failed"}
  BY <1>3, EnqueueIs
<1>4. QED
  BY <1>1, <1>2, <1>3, QuietLedger

(* The claimed head has not reached Pi while it waits to be handled.         *)
LEMMA HeadNotReached ==
    ASSUME TypeInv, Tables!IInv, TickInv, ExecutedInv, phase = "handling"
    PROVE  ~Reached(Current)
<1>1. /\ Handled \in Nat /\ Handled + 1 \in DOMAIN claims
      /\ Current = claims[Handled + 1]
  BY HandledIs, ClaimsAreSeq
<1>2. Handled + 1 > Handled
  BY <1>1
<1>3. QED
  BY <1>1, <1>2, NotReached

LEMMA VerdictStep ==
    ASSUME TypeInv, Tables!IInv, TickInv, ExecutedInv, CommandInv, VerdictTruthful,
           [Next]_vars
    PROVE  VerdictTruthful'
<1>1. CASE DeliverText \/ Abort
  <2>1. /\ phase = "handling" /\ batch' = batch /\ verdict' = TRUE
        /\ executed' = Append(executed, Current)
    BY <1>1 DEF DeliverText, Abort, Handling, ReportNext
  <2>2. Current \in Command /\ executed \in Seq(Command)
    BY <2>1, BatchShape DEF TypeInv, MemoryType
  <2>3. /\ Len(executed) + 1 \in DOMAIN executed'
        /\ executed'[Len(executed) + 1] = Current
    BY <2>1, <2>2
  <2>4. Reached(Current)' /\ verdict'
    BY <2>1, <2>3 DEF Reached, Current
  <2>5. QED
    BY <2>4 DEF VerdictTruthful
<1>2. CASE Refuse \/ PiThrows \/ HandleUnverified
  <2>1. /\ phase = "handling" /\ batch' = batch /\ verdict' = FALSE
        /\ executed' = executed
    BY <1>2 DEF Refuse, PiThrows, HandleUnverified, Handling, ReportNext, history
  <2>2. ~Reached(Current)
    BY <2>1, HeadNotReached
  <2>3. ~Reached(Current)' /\ ~verdict'
    BY <2>1, <2>2 DEF Reached, Current
  <2>4. QED
    BY <2>3 DEF VerdictTruthful
<1>3. CASE PublishStatus \/ AcceptDisconnect
  <2>1. /\ batch' = batch /\ kind' = kind /\ kind[Current] \in {"status", "disconnect"}
    BY <1>3 DEF PublishStatus, AcceptDisconnect, ReportNext, history
  <2>2. QED
    BY <2>1 DEF VerdictTruthful, Current
<1>4. ASSUME phase' # "settling" PROVE VerdictTruthful'
  BY <1>4 DEF VerdictTruthful
<1>5. CASE UNCHANGED <<phase, batch, verdict, kind, executed>>
  BY <1>5 DEF VerdictTruthful, Reached, Current
<1>6. ASSUME NEW k \in Command, NEW l \in Link, NEW what \in Kind,
             BrokerEnqueues(k, l, what)
      PROVE  VerdictTruthful'
  <2>1. /\ UNCHANGED <<phase, batch, verdict, executed>>
        /\ commands[k].state = "absent"
        /\ \A m \in Command : m # k => kind'[m] = kind[m]
    BY <1>6, EnqueueIs DEF tickVars
  <2>2. CASE phase = "settling"
    <3>1. Current \in Command /\ commands[Current].state = "claimed"
      BY <2>2, BatchShape DEF TypeInv, TickInv, BatchIsClaimed
    <3>2. kind'[Current] = kind[Current] /\ Current' = Current
      BY <2>1, <3>1 DEF Current
    <3>3. QED
      BY <2>1, <3>2 DEF VerdictTruthful, Reached
  <2>3. QED
    BY <2>1, <2>2 DEF VerdictTruthful
<1>7. CASE PollClaim \/ PollDone \/ HandleDetached \/ ReportSettle \/ ReportAnnounce
           \/ RemoteUnlink \/ PollThrows \/ ReportThrows \/ ProcessEnds
  <2>1. phase' # "settling"
    BY <1>7 DEF PollClaim, PollDone, HandleDetached, ReportSettle, ReportAnnounce,
                RemoteUnlink, PollThrows, ReportThrows, ProcessEnds, AfterReport,
                Proceed, EndTick
  <2>2. QED
    BY <2>1, <1>4
<1>8. CASE \/ \E l \in Link : LocalConnect(l) \/ RowGoesStale(l)
           \/ LocalUnlink \/ SessionReplaced \/ Quit \/ SessionStart
           \/ AgentStart \/ AgentSettled \/ \E open \in BOOLEAN : UiPrompt(open)
           \/ Output \/ Heartbeat \/ UNCHANGED vars
  <2>1. UNCHANGED <<phase, batch, verdict, kind, executed>>
    BY <1>8
       DEF LocalConnect, LocalUnlink, SessionReplaced, Quit, SessionStart,
           AgentStart, AgentSettled, UiPrompt, Output, Heartbeat, RowGoesStale, vars,
           history, tickVars
  <2>2. QED
    BY <2>1, <1>5
<1>9. QED
  BY <1>1, <1>2, <1>3, <1>6, <1>7, <1>8 DEF Next, Tick, TickThrows

LEMMA TruthIs ==
    ReportTruthful <=>
        \A k \in Command : kind[k] \in {"prompt", "slash", "steer", "abort"} =>
            /\ commands[k].state = "completed" => Reached(k)
            /\ commands[k].state = "failed" => ~Reached(k)
BY DEF ReportTruthful, Reached

LEMMA TruthIsNext ==
    ReportTruthful' <=>
        \A k \in Command : kind'[k] \in {"prompt", "slash", "steer", "abort"} =>
            /\ commands'[k].state = "completed" => Reached(k)'
            /\ commands'[k].state = "failed" => ~Reached(k)'
BY DEF ReportTruthful, Reached

(* What is reached grows by the head of a batch that is being handled.       *)
LEMMA ReachedStep ==
    ASSUME TypeInv, [Next]_vars, NEW k \in Command
    PROVE  \/ Reached(k)' <=> Reached(k)
           \/ k = Current /\ phase = "handling" /\ (DeliverText \/ Abort)
<1>1. CASE DeliverText \/ Abort
  <2>1. phase = "handling" /\ executed' = Append(executed, Current)
    BY <1>1 DEF DeliverText, Abort, Handling
  <2>2. Current \in Command /\ executed \in Seq(Command)
    BY <2>1, BatchShape DEF TypeInv, MemoryType
  <2>3. CASE k # Current
    BY <2>1, <2>2, <2>3 DEF Reached
  <2>4. QED
    BY <1>1, <2>1, <2>3
<1>2. CASE executed' = executed
  BY <1>2 DEF Reached
<1>3. QED
  <2>1. CASE PollClaim \/ ReportSettle \/ ReportAnnounce
             \/ \E c \in Command, l \in Link, what \in Kind : BrokerEnqueues(c, l, what)
    BY <1>2, <2>1 DEF PollClaim, ReportSettle, ReportAnnounce, BrokerEnqueues, history
  <2>2. QED
    BY <1>1, <1>2, <2>1, QuietHistory

LEMMA TruthStep ==
    ASSUME TypeInv, Tables!IInv, TickInv, VerdictTruthful, ReportTruthful,
           [Next]_vars
    PROVE  ReportTruthful'
<1> SUFFICES ASSUME NEW k \in Command,
                    kind'[k] \in {"prompt", "slash", "steer", "abort"},
                    commands'[k].state \in {"completed", "failed"}
             PROVE  /\ commands'[k].state = "completed" => Reached(k)'
                    /\ commands'[k].state = "failed" => ~Reached(k)'
  BY TruthIsNext
<1>1. CASE commands[k].state \in {"completed", "failed"}
  <2>1. commands'[k] = commands[k] /\ kind'[k] = kind[k]
    BY <1>1, SettledStays
  <2>2. ~(k = Current /\ phase = "handling")
    <3>1. ASSUME k = Current, phase = "handling" PROVE FALSE
      <4>1. commands[Current].state = "claimed"
        BY <3>1, BatchShape DEF TypeInv, TickInv, BatchIsClaimed
      <4>2. QED
        BY <1>1, <3>1, <4>1
    <3>2. QED
      BY <3>1
  <2>3. Reached(k)' <=> Reached(k)
    BY <2>2, ReachedStep
  <2>4. QED
    BY <2>1, <2>3, TruthIs
<1>2. CASE commands[k].state \notin {"completed", "failed"}
  <2>1. ReportSettle /\ k = Current
    BY <1>2, OnlyReportsSettle
  <2>2. /\ phase = "settling" /\ kind' = kind /\ executed' = executed
        /\ commands'[k].state = IF verdict THEN "completed" ELSE "failed"
    BY <2>1, SettleIs DEF ReportSettle, history
  <2>3. Reached(k)' <=> Reached(k)
    BY <2>2 DEF Reached
  <2>4. verdict <=> Reached(k)
    BY <2>1, <2>2 DEF VerdictTruthful
  <2>5. QED
    BY <2>2, <2>3, <2>4
<1>3. QED
  BY <1>1, <1>2

(* The settled commands and the announced ones.                              *)
LEMMA AnnouncedStep ==
    ASSUME TypeInv, TickInv, AnnouncedIsSettled, [Next]_vars
    PROVE  AnnouncedIsSettled'
<1>0. announced \subseteq Command
  BY DEF TypeInv, MemoryType
<1>1. \A k \in announced : commands'[k].state \in {"completed", "failed"}
  BY <1>0, SettledStays DEF AnnouncedIsSettled
<1>2. CASE ReportAnnounce
  <2>1. /\ phase = "announcing" /\ announced' = announced \cup {Current}
    BY <1>2 DEF ReportAnnounce
  <2>2. Current \in Command /\ commands[Current].state \in {"completed", "failed"}
    BY <2>1, BatchShape DEF TypeInv, TickInv, HeadIsSettled
  <2>3. commands'[Current] = commands[Current]
    BY <2>2, SettledStays
  <2>4. QED
    BY <1>1, <2>1, <2>2, <2>3 DEF AnnouncedIsSettled
<1>3. CASE announced' = announced
  BY <1>1, <1>3 DEF AnnouncedIsSettled
<1>4. QED
  <2>1. CASE PollClaim \/ ReportSettle \/ DeliverText \/ Abort
             \/ \E c \in Command, l \in Link, what \in Kind : BrokerEnqueues(c, l, what)
    BY <1>3, <2>1 DEF PollClaim, ReportSettle, DeliverText, Abort, BrokerEnqueues,
                      history
  <2>2. QED
    BY <1>2, <1>3, <2>1, QuietHistory

(* A settled command whose report is under way is the head of the batch; the *)
(* end of the process in between takes the owner of the command with it.     *)
LEMMA PromptStep ==
    ASSUME TypeInv, TickInv, CommandInv, SettledIsAnnounced, [Next]_vars
    PROVE  SettledIsAnnounced'
<1> SUFFICES ASSUME NEW k \in Command,
                    commands'[k].state \in {"completed", "failed"},
                    k \notin announced', faults' = 0, commands'[k].owner \notin dead'
             PROVE  phase' = "announcing" /\ Current' = k
  BY DEF SettledIsAnnounced
<1>1. CASE ReportSettle /\ k = Current
  BY <1>1 DEF ReportSettle, Current
<1>2. CASE ~(ReportSettle /\ k = Current)
  <2>1. commands[k].state \in {"completed", "failed"}
    BY <1>2, OnlyReportsSettle
  <2>2. commands'[k] = commands[k]
    BY <2>1, SettledStays
  <2>3. faults = 0 /\ dead \subseteq dead'
    <3>1. faults \in Nat
      BY FaultsStep DEF TypeInv
    <3>2. QED
      BY <3>1, FaultsGrow, DeadGrow
  <2>4. announced \subseteq announced'
    <3>1. CASE PollClaim \/ ReportSettle \/ DeliverText \/ Abort \/ ReportAnnounce
               \/ \E c \in Command, l \in Link, what \in Kind : BrokerEnqueues(c, l, what)
      BY <3>1 DEF PollClaim, ReportSettle, DeliverText, Abort, ReportAnnounce,
                  BrokerEnqueues, history
    <3>2. QED
      BY <3>1, QuietHistory
  <2>5. phase = "announcing" /\ Current = k
    BY <2>1, <2>2, <2>3, <2>4 DEF SettledIsAnnounced
  <2>6. CASE ReportAnnounce
    BY <2>5, <2>6 DEF ReportAnnounce
  <2>7. CASE ReportThrows
    BY <2>7, FaultsStep DEF ReportThrows, TypeInv
  <2>8. CASE ProcessEnds
    <3>1. commands[k].owner \in Used
      BY <2>1 DEF CommandInv, OwnersAreUsed
    <3>2. Used \subseteq dead'
      BY <2>8 DEF ProcessEnds, Store!ProcessDies
    <3>3. QED
      BY <2>2, <3>1, <3>2
  <2>9. CASE UNCHANGED <<phase, batch>>
    BY <2>5, <2>9 DEF Current
  <2>10. CASE UNCHANGED vars \/ \E m \in Link : RowGoesStale(m)
              \/ \E c \in Command, l \in Link, what \in Kind : BrokerEnqueues(c, l, what)
    <3>1. UNCHANGED <<phase, batch>>
      BY <2>10 DEF RowGoesStale, BrokerEnqueues, tickVars, vars
    <3>2. QED
      BY <3>1, <2>9
  <2>11. CASE PollThrows \/ HandleUnverified \/ PiThrows
              \/ PollClaim \/ PollDone \/ HandleDetached \/ DeliverText \/ Refuse
              \/ Abort \/ PublishStatus \/ AcceptDisconnect \/ ReportSettle
              \/ RemoteUnlink
    BY <2>5, <2>11
       DEF PollThrows, HandleUnverified, PiThrows, PollClaim, PollDone,
           HandleDetached, DeliverText, Refuse, Abort, PublishStatus,
           AcceptDisconnect, ReportSettle, RemoteUnlink, Handling
  <2>12. CASE \/ \E l \in Link : LocalConnect(l)
              \/ LocalUnlink \/ SessionReplaced \/ Quit \/ SessionStart
              \/ AgentStart \/ AgentSettled \/ \E open \in BOOLEAN : UiPrompt(open)
              \/ Output \/ Heartbeat
    BY <2>5, <2>12
       DEF LocalConnect, LocalUnlink, SessionReplaced, Quit, SessionStart,
           AgentStart, AgentSettled, UiPrompt, Output, Heartbeat, Idle
  <2>13. QED
    BY <2>6, <2>7, <2>8, <2>10, <2>11, <2>12 DEF Next, Tick, TickThrows
<1>3. QED
  BY <1>1, <1>2

(* A link that was used before comes back only through its own opt-in.       *)
LEMMA LinksStay ==
    ASSUME TypeInv, [Next]_vars, NEW l \in Link, l \in Used
    PROVE  /\ conn' = l => conn = l \/ optIn = l
           /\ optIn' = l => optIn = l
<1>0. l # NoLink
  BY TablesAssumptions
<1>1. ASSUME NEW m \in Link, LocalConnect(m)
      PROVE  conn' # l /\ optIn' # l
  BY <1>1 DEF LocalConnect
<1>2. CASE LocalUnlink \/ SessionReplaced \/ Quit \/ RemoteUnlink
  BY <1>0, <1>2 DEF LocalUnlink, SessionReplaced, Quit, RemoteUnlink, Dispose
<1>3. CASE SessionStart
  BY <1>3 DEF SessionStart
<1>4. CASE ProcessEnds
  BY <1>0, <1>4 DEF ProcessEnds
<1>5. CASE UNCHANGED <<conn, optIn>>
  BY <1>5
<1>6. CASE \/ \E m \in Link : RowGoesStale(m)
           \/ \E c \in Command, m \in Link, what \in Kind : BrokerEnqueues(c, m, what)
           \/ AgentStart \/ AgentSettled \/ \E open \in BOOLEAN : UiPrompt(open)
           \/ Output \/ Heartbeat \/ UNCHANGED vars
  <2>1. UNCHANGED <<conn, optIn>>
    BY <1>6 DEF RowGoesStale, BrokerEnqueues, AgentStart, AgentSettled, UiPrompt,
                Output, Heartbeat, connVars, vars
  <2>2. QED
    BY <2>1, <1>5
<1>7. CASE PollClaim \/ PollDone \/ HandleDetached \/ DeliverText \/ Refuse \/ Abort
           \/ PublishStatus \/ AcceptDisconnect \/ ReportSettle \/ ReportAnnounce
           \/ TickThrows
  <2>1. UNCHANGED <<conn, optIn>>
    BY <1>7 DEF PollClaim, PollDone, HandleDetached, DeliverText, Refuse, Abort,
                PublishStatus, AcceptDisconnect, ReportSettle, ReportAnnounce,
                TickThrows, PollThrows, HandleUnverified, PiThrows, ReportThrows,
                connVars
  <2>2. QED
    BY <2>1, <1>5
<1>8. QED
  BY <1>1, <1>2, <1>3, <1>4, <1>6, <1>7 DEF Next, Tick

(* A tear-down, once begun, is done next, unless the process ends.           *)
LEMMA TearDownStep ==
    ASSUME TypeInv, [Next]_vars, phase = "unlinking"
    PROVE  \/ phase' = "unlinking" /\ polling' = polling
           \/ conn' = NoLink /\ optIn' = NoLink
<1>1. CASE RemoteUnlink
  BY <1>1 DEF RemoteUnlink, Dispose
<1>2. CASE ProcessEnds
  BY <1>2 DEF ProcessEnds
<1>3. CASE UNCHANGED vars \/ \E m \in Link : RowGoesStale(m)
           \/ \E c \in Command, l \in Link, what \in Kind : BrokerEnqueues(c, l, what)
  BY <1>3 DEF RowGoesStale, BrokerEnqueues, tickVars, vars
<1>4. CASE PollThrows \/ HandleUnverified \/ PiThrows \/ ReportThrows
           \/ PollClaim \/ PollDone \/ HandleDetached \/ DeliverText \/ Refuse
           \/ Abort \/ PublishStatus \/ AcceptDisconnect \/ ReportSettle
           \/ ReportAnnounce
  BY <1>4
     DEF PollThrows, HandleUnverified, PiThrows, ReportThrows, PollClaim, PollDone,
         HandleDetached, DeliverText, Refuse, Abort, PublishStatus,
         AcceptDisconnect, ReportSettle, ReportAnnounce, Handling
<1>5. CASE \/ \E l \in Link : LocalConnect(l)
           \/ LocalUnlink \/ SessionReplaced \/ Quit \/ SessionStart
           \/ AgentStart \/ AgentSettled \/ \E open \in BOOLEAN : UiPrompt(open)
           \/ Output \/ Heartbeat
  BY <1>5
     DEF LocalConnect, LocalUnlink, SessionReplaced, Quit, SessionStart,
         AgentStart, AgentSettled, UiPrompt, Output, Heartbeat, Idle
<1>6. QED
  BY <1>1, <1>2, <1>3, <1>4, <1>5 DEF Next, Tick, TickThrows

(* A settled command is not sent anywhere else later.                        *)
LEMMA SentStays ==
    ASSUME TypeInv, [Next]_vars, NEW k \in Command, NEW l \in Link,
           commands[k].state # "absent", SentTo(k, l)'
    PROVE  SentTo(k, l)
<1>1. ASSUME NEW c \in Command, NEW m \in Link, NEW what \in Kind,
             BrokerEnqueues(c, m, what)
      PROVE  SentTo(k, l)
  <2>1. /\ c # k
        /\ \A x \in Link : x # m => queue'[x] = queue[x]
        /\ queue'[m] = Append(queue[m], c) /\ queue[m] \in Seq(Command)
    BY <1>1, EnqueueIs
  <2>2. CASE l # m
    BY <2>1, <2>2 DEF SentTo
  <2>3. CASE l = m
    BY <2>1, <2>3 DEF SentTo
  <2>4. QED
    BY <2>2, <2>3
<1>2. CASE queue' = queue
  BY <1>2 DEF SentTo
<1>3. QED
  BY <1>1, <1>2, QuietLedger, ClaimIs, SettleIs

LEMMA TornDownStep ==
    ASSUME TypeInv, Tables!IInv, TickInv, CommandInv, AnnouncedIsSettled, TornDown,
           [Next]_vars
    PROVE  TornDown'
<1> SUFFICES ASSUME NEW k \in announced', NEW l \in Link,
                    kind'[k] = "disconnect", commands'[k].state = "completed",
                    SentTo(k, l)'
             PROVE  \/ phase' = "unlinking" /\ polling' = l
                    \/ conn' # l /\ optIn' # l
  BY DEF TornDown
<1>0. announced \subseteq Command /\ NoLink \notin Link
  BY TablesAssumptions DEF TypeInv, MemoryType
<1>1. CASE k \in announced
  <2>1. /\ k \in Command /\ commands[k].state \in {"completed", "failed"}
        /\ commands'[k] = commands[k] /\ kind'[k] = kind[k]
    BY <1>0, <1>1, SettledStays DEF AnnouncedIsSettled
  <2>2. SentTo(k, l)
    BY <2>1, SentStays
  <2>3. l \in Used
    BY <2>2 DEF CommandInv, QueuesAreUsed, SentTo
  <2>4. CASE phase = "unlinking" /\ polling = l
    <3>1. \/ phase' = "unlinking" /\ polling' = polling
          \/ conn' = NoLink /\ optIn' = NoLink
      BY <2>4, TearDownStep
    <3>2. QED
      BY <2>4, <3>1, <1>0
  <2>5. CASE conn # l /\ optIn # l
    BY <2>3, <2>5, LinksStay
  <2>6. QED
    BY <1>1, <2>1, <2>2, <2>4, <2>5 DEF TornDown
<1>2. CASE k \notin announced
  <2>1. ReportAnnounce
    <3>1. announced' # announced
      BY <1>2
    <3>2. CASE PollClaim \/ ReportSettle \/ DeliverText \/ Abort
               \/ \E c \in Command, m \in Link, what \in Kind : BrokerEnqueues(c, m, what)
      BY <3>1, <3>2 DEF PollClaim, ReportSettle, DeliverText, Abort, BrokerEnqueues,
                        history
    <3>3. QED
      BY <3>1, <3>2, QuietHistory
  <2>2. /\ phase = "announcing" /\ announced' = announced \cup {Current}
        /\ kind' = kind /\ AfterReport
    BY <2>1 DEF ReportAnnounce
  <2>3. k = Current /\ k \in Command /\ commands[k].state \in {"completed", "failed"}
    BY <1>2, <2>2, BatchShape DEF TypeInv, TickInv, HeadIsSettled
  <2>4. commands[k].state = "completed" /\ SentTo(k, l)
    BY <2>3, SettledStays, SentStays
  <2>5. verdict
    BY <2>2, <2>3, <2>4 DEF TickInv, HeadIsSettled
  <2>6. phase' = "unlinking" /\ polling' = polling
    BY <2>2, <2>3, <2>5 DEF AfterReport
  <2>7. polling = l
    <3>1. 1 \in DOMAIN batch /\ batch[1] = k /\ polling \in Link
      BY <2>2, <2>3, BatchShape DEF TypeInv, TickType
    <3>2. SentTo(k, polling)
      BY <3>1 DEF TickInv, BatchIsSent
    <3>3. QED
      BY <2>4, <3>1, <3>2, LedgerFacts DEF SentTo
  <2>8. QED
    BY <2>6, <2>7
<1>3. QED
  BY <1>1, <1>2

LEMMA ReportStep ==
    /\ TypeInv /\ Tables!IInv /\ TickInv /\ CommandInv /\ ExecutedInv /\ ReportInv
    /\ [Next]_vars
    => ReportInv'
BY VerdictStep, TruthStep, AnnouncedStep, PromptStep, TornDownStep DEF ReportInv
-----------------------------------------------------------------------------
(* The theorems                                                              *)

LEMMA InitInv == Init => IInv
<1> SUFFICES ASSUME Init PROVE IInv
  OBVIOUS
<1>1. TypeInv
  BY InitType
<1>2. /\ \A l \in Link : sessions[l].owner = NoLink /\ queue[l] = <<>>
      /\ \A k \in Command : commands[k].state = "absent" /\ kind[k] = "none"
      /\ claims = <<>> /\ batch = <<>> /\ executed = <<>> /\ announced = {}
      /\ conn = NoLink /\ optIn = NoLink /\ phase = "idle"
  BY DEF Init, Store!Init, Store!NoRow
<1>3. LinkInv
  BY <1>2 DEF LinkInv, RowsAreOwn, RowsAreUsed, ConnectedOwns, OptInLives,
              RowNeedsConnection, RowMirrorsConnection, Connected, Store!HasRow
<1>4. CommandInv
  BY <1>2 DEF CommandInv, KindsKnown, QueuesAreUsed, OwnersAreUsed
<1>5. TickInv
  BY <1>2 DEF TickInv, TickIsConnected, BatchIsSuffix, BatchIsSent, BatchIsClaimed,
              HeadIsSettled
<1>6. ExecutedInv
  BY <1>2 DEF ExecutedInv, ReachedAreHandled, ReachedInOrder
<1>7. ReportInv
  BY <1>2 DEF ReportInv, VerdictTruthful, ReportTruthful, AnnouncedIsSettled,
              SettledIsAnnounced, TornDown
<1>8. QED
  BY <1>1, <1>3, <1>4, <1>5, <1>6, <1>7 DEF IInv

(* The inductive invariant, with the one of the store below it, holds in     *)
(* every reachable state.                                                    *)
THEOREM Invariance == Spec => [](IInv /\ Tables!IInv)
<1>1. IInv /\ Tables!IInv /\ Tables!IInv' /\ [Next]_vars => IInv'
  BY TypeInvStep, LinkStep, CommandStep, TickStep, ExecutedStep, ReportStep DEF IInv
<1>2. QED
  BY <1>1, InitInv, StoreInvariance, PTL DEF Spec

(* Pi acts on the commands of a link in the order they were enqueued, on     *)
(* each at most once, whatever batches, lost polls, reloads and restarts lie *)
(* between.                                                                  *)
THEOREM ExecutedInOrderTheorem == Spec => []ExecutedInOrder
<1>1. IInv /\ Tables!IInv => ExecutedInOrder
  <2> SUFFICES ASSUME IInv, Tables!IInv,
                      NEW a \in DOMAIN executed, NEW b \in DOMAIN executed, a < b
               PROVE  /\ executed[a] # executed[b]
                      /\ \A l \in Link : \A i, j \in DOMAIN queue[l] :
                            queue[l][i] = executed[a] /\ queue[l][j] = executed[b]
                                => i < j
    BY DEF ExecutedInOrder
  <2>a. TypeInv /\ TickInv /\ ReachedAreHandled /\ ReachedInOrder
    BY DEF IInv, ExecutedInv
  <2>1. PICK p \in 1..Handled : claims[p] = executed[a]
    BY <2>a DEF ReachedAreHandled
  <2>2. PICK q \in 1..Handled : claims[q] = executed[b]
    BY <2>a DEF ReachedAreHandled
  <2>3. /\ p \in DOMAIN claims /\ q \in DOMAIN claims /\ p \in Nat /\ q \in Nat
        /\ \A x \in 1..(p - 1) : x \in DOMAIN claims /\ x < p
    BY <2>a, HandledIs, ClaimsAreSeq
  <2>4. executed[a] # executed[b]
    BY <2>a, <2>1, <2>2, <2>3 DEF ReachedInOrder
  <2>5. ASSUME NEW l \in Link, NEW i \in DOMAIN queue[l], NEW j \in DOMAIN queue[l],
               queue[l][i] = executed[a], queue[l][j] = executed[b]
        PROVE  i < j
    <3>1. i \in Nat /\ j \in Nat /\ j >= 1 /\ i # j
      <4>1. queue[l] \in Seq(Command)
        BY <2>a DEF TypeInv, Store!TypeOK
      <4>2. QED
        BY <4>1, <2>4, <2>5
    <3>2. ASSUME j < i PROVE FALSE
      <4>1. j \in 1..(i - 1)
        BY <3>1, <3>2
      <4>2. PICK x \in 1..(p - 1) : claims[x] = queue[l][j]
        BY <2>1, <2>3, <2>5, <4>1, LedgerFacts
      <4>3. p < x
        BY <2>a, <2>1, <2>3, <2>5, <4>2 DEF ReachedInOrder
      <4>4. QED
        BY <2>3, <4>2, <4>3
    <3>3. QED
      BY <3>1, <3>2
  <2>6. QED
    BY <2>4, <2>5
<1>2. QED
  BY <1>1, Invariance, PTL

(* What the phone is told of a message or an abort is what happened to it.   *)
THEOREM ReportTruthfulTheorem == Spec => []ReportTruthful
<1>1. IInv => ReportTruthful
  BY DEF IInv, ReportInv
<1>2. QED
  BY <1>1, Invariance, PTL

(* Nothing is settled behind the back of the phone while no call throws and  *)
(* the process lives.                                                        *)
THEOREM SettledIsAnnouncedTheorem == Spec => []SettledIsAnnounced
<1>1. IInv => SettledIsAnnounced
  BY DEF IInv, ReportInv
<1>2. QED
  BY <1>1, Invariance, PTL

(* The state column is what the flags of the connection derive.              *)
THEOREM RowMirrorsConnectionTheorem == Spec => []RowMirrorsConnection
<1>1. IInv => RowMirrorsConnection
  BY DEF IInv, LinkInv
<1>2. QED
  BY <1>1, Invariance, PTL

(* The row of a living process is the link this user opted in to.            *)
THEOREM RowNeedsOptInTheorem == Spec => []RowNeedsOptIn
<1>1. IInv => RowNeedsOptIn
  <2> SUFFICES ASSUME IInv, faults = 0, NEW l \in Link, Store!HasRow(l), l \notin dead
               PROVE  l = optIn
    BY DEF RowNeedsOptIn
  <2>1. l = conn /\ l # NoLink
    BY TablesAssumptions DEF IInv, LinkInv, RowNeedsConnection
  <2>2. QED
    BY <2>1 DEF IInv, LinkInv, ConnectedOwns, Connected
<1>2. QED
  BY <1>1, Invariance, PTL

(* A disconnect the phone was told of is final.                              *)
THEOREM UnlinkedForGoodTheorem == Spec => []UnlinkedForGood
<1>1. IInv => UnlinkedForGood
  BY DEF IInv, ReportInv, TornDown, UnlinkedForGood
<1>2. QED
  BY <1>1, Invariance, PTL

(* Remote input reaches Pi only through the link that claimed it, opted in,  *)
(* connected and owner of its row.                                           *)
THEOREM OptedInExecutionTheorem == Spec => OptedInExecution
<1> DEFINE A == executed' # executed =>
                   conn = polling /\ optIn = polling /\ Store!Owns(conn, polling)
<1>1. IInv /\ [Next]_vars => [A]_vars
  <2> SUFFICES ASSUME IInv, [Next]_vars, executed' # executed
               PROVE  conn = polling /\ optIn = polling /\ Store!Owns(conn, polling)
    OBVIOUS
  <2>1. CASE DeliverText \/ Abort
    <3>1. phase = "handling" /\ conn = polling /\ polling \in Link
      BY <2>1 DEF DeliverText, Abort, Handling, Revalidated, IInv, TypeInv, TickType
    <3>2. Connected
      BY <3>1, TablesAssumptions DEF Connected
    <3>3. QED
      BY <3>1, <3>2 DEF IInv, LinkInv, ConnectedOwns
  <2>2. CASE PollClaim \/ ReportSettle \/ ReportAnnounce
             \/ \E k \in Command, l \in Link, what \in Kind : BrokerEnqueues(k, l, what)
    BY <2>2 DEF PollClaim, ReportSettle, ReportAnnounce, BrokerEnqueues, history
  <2>3. QED
    BY <2>1, <2>2, QuietHistory
<1>2. QED
  BY <1>1, Invariance, PTL DEF Spec, OptedInExecution
=============================================================================
