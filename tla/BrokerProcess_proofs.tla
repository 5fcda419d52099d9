------------------------ MODULE BrokerProcess_proofs ------------------------
(***************************************************************************)
(* The status file tells the truth about a broker that runs, for any       *)
(* number of broker processes.  A broker's writes say so only of itself:   *)
(* the proof needs that no other process writes while it runs.             *)
(***************************************************************************)
EXTENDS BrokerProcess, TLAPS

BrokerStates == {"new", "booting", "up", "stopping", "gone"}

OneRuns == \A a, b \in BrokerPid : Running(a) /\ Running(b) => a = b

BInv == broker \in [BrokerPid -> BrokerStates] /\ OneRuns /\ RunningIsSeen

(* Steps that leave the status file alone and start no process.              *)
LEMMA SameMeta ==
    ASSUME BInv, UNCHANGED <<heartbeat, shutdownAt>>,
           broker' \in [BrokerPid -> BrokerStates],
           \A b \in BrokerPid : Running(b)' => Running(b),
           \A b \in BrokerPid : broker'[b] \in {"up", "stopping"} =>
                                    broker[b] \in {"up", "stopping"}
    PROVE  BInv'
  BY DEF BInv, OneRuns, RunningIsSeen

(* IgnoreNew: a process is launched when none runs, and has no part in the   *)
(* status file yet.                                                          *)
LEMMA LaunchKeepsBInv ==
    ASSUME BInv, Launched, UNCHANGED <<heartbeat, shutdownAt>>
    PROVE  BInv'
  <1>1. CASE \E b \in BrokerPid : Running(b)
    BY <1>1, SameMeta DEF Launched, BInv, Running
  <1>2. CASE ~\E b \in BrokerPid : Running(b)
    <2>1. PICK n \in BrokerPid : broker' = [broker EXCEPT ![n] = "booting"]
      BY <1>2 DEF Launched
    <2>2. broker' \in [BrokerPid -> BrokerStates]
      BY <2>1 DEF BInv, BrokerStates
    <2>3. \A b \in BrokerPid : Running(b)' => b = n
      BY <1>2, <2>1 DEF Running, BInv
    <2>4. \A b \in BrokerPid : broker'[b] \notin {"up", "stopping"}
      BY <1>2, <2>1 DEF Running, BInv
    <2> QED BY <2>2, <2>3, <2>4 DEF BInv, OneRuns, RunningIsSeen
  <1> QED BY <1>1, <1>2

(* The running broker writes its own pid.                                    *)
LEMMA WriterIsNamed ==
    ASSUME BInv, NEW w \in BrokerPid, Running(w),
           heartbeat' = w /\ shutdownAt' = FALSE,
           broker' \in [BrokerPid -> BrokerStates],
           \A b \in BrokerPid : Running(b)' => Running(b)
    PROVE  BInv'
  <1>1. \A b \in BrokerPid : Running(b)' => b = w
    BY DEF BInv, OneRuns
  <1>2. \A b \in BrokerPid : broker'[b] \in {"up", "stopping"} => Running(b)'
    BY DEF Running
  <1> QED BY <1>1, <1>2 DEF BInv, OneRuns, RunningIsSeen

LEMMA BrokerStepKeepsBInv ==
    ASSUME BInv, NEW b \in BrokerPid, Broker(b)
    PROVE  BInv'
  <1>1. CASE BootEnds(b)
    BY <1>1, WriterIsNamed DEF BootEnds, Running, BInv, BrokerStates
  <1>2. CASE BootFails(b)
    BY <1>2, SameMeta DEF BootFails, meta, Running, BInv, BrokerStates
  <1>3. CASE Heartbeat(b)
    BY <1>3, WriterIsNamed DEF Heartbeat, Running, BInv
  <1>4. CASE ControlTick(b)
    BY <1>4, SameMeta DEF ControlTick, meta, Running, BInv, BrokerStates
  <1>5. CASE Signal(b)
    BY <1>5, SameMeta DEF Signal, meta, Running, BInv, BrokerStates
  <1>6. CASE Ends(b)
    <2>1. broker' \in [BrokerPid -> BrokerStates]
      BY <1>6 DEF Ends, BInv, BrokerStates
    <2>2. \A a \in BrokerPid : ~Running(a)'
      BY <1>6 DEF Ends, Running, BInv, OneRuns, BrokerStates
    <2> QED BY <2>1, <2>2 DEF BInv, OneRuns, RunningIsSeen, Running
  <1>7. CASE Dies(b)
    BY <1>7, SameMeta DEF Dies, meta, Running, BInv, BrokerStates
  <1> QED BY <1>1, <1>2, <1>3, <1>4, <1>5, <1>6, <1>7 DEF Broker

(* In every reachable state at most one broker runs and the status file      *)
(* speaks of it.                                                             *)
THEOREM StatusInvariance == Spec => []BInv
  <1>1. Init => BInv
    BY DEF Init, BInv, OneRuns, RunningIsSeen, Running, BrokerStates
  <1>2. BInv /\ [Next]_vars => BInv'
    <2> SUFFICES ASSUME BInv, [Next]_vars PROVE BInv'
      OBVIOUS
    <2>1. CASE TaskStarts
      BY <2>1, LaunchKeepsBInv DEF TaskStarts, meta
    <2>2. CASE \E b \in BrokerPid : Broker(b)
      BY <2>2, BrokerStepKeepsBInv
    <2>3. CASE GoesStale
      BY <2>3, SameMeta DEF GoesStale, BInv, Running
    <2>4. CASE Switch
      <3>1. CASE TurnOn
        BY <3>1, LaunchKeepsBInv DEF TurnOn, meta
      <3>2. CASE TurnOff \/ TurnOffUnasked \/ OffIsConfirmed \/ OffTimesOut
        BY <3>2, SameMeta
           DEF TurnOff, TurnOffUnasked, OffIsConfirmed, OffTimesOut, meta, BInv, Running
      <3> QED BY <2>4, <3>1, <3>2 DEF Switch
    <2>5. CASE UNCHANGED vars
      BY <2>5, SameMeta DEF vars, meta, BInv, Running
    <2> QED BY <2>1, <2>2, <2>3, <2>4, <2>5 DEF Next
  <1> QED BY <1>1, <1>2, PTL DEF Spec

(* Whoever reads the status file while a booted broker runs learns of that   *)
(* broker, so that telegram off asks it to stop.                             *)
THEOREM RunningIsSeenTheorem == Spec => []RunningIsSeen
  <1>1. BInv => RunningIsSeen
    BY DEF BInv
  <1> QED BY <1>1, StatusInvariance, PTL
=============================================================================
