---------------------------- MODULE BrokerProcess ----------------------------
(***************************************************************************)
(* Turning the phone connection on and off: the broker processes of        *)
(* src/runtime-broker.mjs, their status file broker-meta.json and control  *)
(* file broker-control.json, and the switch of scripts/telegram.ps1 over   *)
(* the scheduled task.                                                     *)
(*                                                                         *)
(* A process is named by its pid, and a pid is not used again.  The task   *)
(* launches a broker at sign-in, on demand and after a failure, while it   *)
(* is enabled and none of its instances runs (IgnoreNew).  The owner runs  *)
(* one switch at a time.  All brokers share the instance id of the         *)
(* installation, so the id in the control file tells none of them apart;   *)
(* the model notes for whom a request was written.                         *)
(*                                                                         *)
(* What a broker does while it runs is in SelectiveBroker and              *)
(* BrokerDelivery.  Logs, the diagnosis of an unclean death (a log line),  *)
(* foreign and malformed control files and failing writes are left out.    *)
(***************************************************************************)
CONSTANT BrokerPid   \* broker processes ever launched; "none" is no pid

VARIABLES
    enabled,    \* the task's enabled bit: the owner's intent
    broker,     \* each broker process
    heartbeat,  \* pid in broker-meta.json, or "none"
    shutdownAt, \* whether it records a shutdown
    fresh,      \* whether its heartbeat is recent
    control,    \* the broker a stop request was written for, "none" once consumed
    off         \* telegram off waits for the stop to be confirmed

meta == <<heartbeat, shutdownAt, fresh>>
vars == <<enabled, broker, meta, control, off>>

Running(b) == broker[b] \in {"booting", "up", "stopping"}

(* Get-BrokerLiveMeta.                                                       *)
LiveMeta ==
    ~shutdownAt /\ \E b \in BrokerPid : heartbeat = b /\ Running(b)

-----------------------------------------------------------------------------
(* A broker process *)

Launched ==
    IF \E b \in BrokerPid : Running(b) THEN UNCHANGED broker
    ELSE \E b \in BrokerPid : /\ broker[b] = "new"
                              /\ broker' = [broker EXCEPT ![b] = "booting"]

(* Sign-in, or the restart after a failure.                                  *)
TaskStarts ==
    /\ enabled /\ Launched
    /\ UNCHANGED <<enabled, meta, control, off>>

(* It has its credentials and its store: the timers start and the status     *)
(* file is its own.                                                          *)
BootEnds(b) ==
    /\ broker[b] = "booting"
    /\ broker' = [broker EXCEPT ![b] = "up"]
    /\ heartbeat' = b /\ shutdownAt' = FALSE /\ fresh' = TRUE
    /\ UNCHANGED <<enabled, control, off>>

BootFails(b) ==
    /\ broker[b] = "booting"
    /\ broker' = [broker EXCEPT ![b] = "gone"]
    /\ UNCHANGED <<enabled, meta, control, off>>

Heartbeat(b) ==
    /\ broker[b] \in {"up", "stopping"}
    /\ heartbeat' = b /\ shutdownAt' = FALSE /\ fresh' = TRUE
    /\ UNCHANGED <<enabled, broker, control, off>>

(* A request is consumed before it is applied; a broker that stops already   *)
(* consumes it as well.                                                      *)
ControlTick(b) ==
    /\ broker[b] \in {"up", "stopping"} /\ control # "none"
    /\ control' = "none"
    /\ broker' = [broker EXCEPT ![b] = "stopping"]
    /\ UNCHANGED <<enabled, meta, off>>

Signal(b) ==
    /\ broker[b] = "up"
    /\ broker' = [broker EXCEPT ![b] = "stopping"]
    /\ UNCHANGED <<enabled, meta, control, off>>

(* The loop of the broker ends: asked to, on a conflict or an authorisation  *)
(* failure, or because it threw.  The shutdown is recorded last.             *)
Ends(b) ==
    /\ broker[b] \in {"up", "stopping"}
    /\ broker' = [broker EXCEPT ![b] = "gone"]
    /\ heartbeat' = b /\ shutdownAt' = TRUE /\ fresh' = TRUE
    /\ UNCHANGED <<enabled, control, off>>

Dies(b) ==
    /\ Running(b)
    /\ broker' = [broker EXCEPT ![b] = "gone"]
    /\ UNCHANGED <<enabled, meta, control, off>>

GoesStale ==
    /\ fresh /\ fresh' = FALSE
    /\ UNCHANGED <<enabled, broker, heartbeat, shutdownAt, control, off>>

-----------------------------------------------------------------------------
(* The owner's switch *)

(* telegram on: a live broker is reused; otherwise the task is enabled and   *)
(* started.  The wait for a heartbeat that follows changes nothing.          *)
TurnOn ==
    /\ ~off /\ ~(LiveMeta /\ fresh)
    /\ enabled' = TRUE
    /\ Launched
    /\ UNCHANGED <<meta, control, off>>

(* telegram off, a live broker is known: it is asked to stop.                *)
TurnOff ==
    /\ ~off /\ LiveMeta
    /\ control' = heartbeat
    /\ off' = TRUE
    /\ UNCHANGED <<enabled, broker, meta>>

(* None is known: the task is disabled at once.                              *)
TurnOffUnasked ==
    /\ ~off /\ ~LiveMeta
    /\ enabled' = FALSE
    /\ UNCHANGED <<broker, meta, control, off>>

(* The shutdown is recorded, or the process is no longer there.              *)
OffIsConfirmed ==
    /\ off /\ ~LiveMeta
    /\ enabled' = FALSE /\ off' = FALSE
    /\ UNCHANGED <<broker, meta, control>>

(* After 20 seconds the task is left enabled and the control file in place.  *)
(* A request that was not consumed then waits for the next broker.           *)
OffTimesOut ==
    /\ off /\ LiveMeta
    /\ off' = FALSE
    /\ UNCHANGED <<enabled, broker, meta, control>>

-----------------------------------------------------------------------------
(* The task is registered disabled.                                          *)
Init ==
    /\ enabled = FALSE
    /\ broker = [b \in BrokerPid |-> "new"]
    /\ heartbeat = "none" /\ shutdownAt = FALSE /\ fresh = FALSE
    /\ control = "none" /\ off = FALSE

Broker(b) ==
    \/ BootEnds(b) \/ BootFails(b) \/ Heartbeat(b) \/ ControlTick(b)
    \/ Signal(b) \/ Ends(b) \/ Dies(b)

Switch == TurnOn \/ TurnOff \/ TurnOffUnasked \/ OffIsConfirmed \/ OffTimesOut

Next == TaskStarts \/ (\E b \in BrokerPid : Broker(b)) \/ GoesStale \/ Switch

Spec == Init /\ [][Next]_vars

-----------------------------------------------------------------------------
(* Properties *)

(* Booting aside, a broker that runs is seen: the status file names it and   *)
(* records no shutdown, whatever an earlier broker, its death or its last    *)
(* write left there.  So the switch never disables the task beside it: it    *)
(* asks it to stop, and waits until it has.                                  *)
RunningIsSeen ==
    \A b \in BrokerPid :
        broker[b] \in {"up", "stopping"} => heartbeat = b /\ ~shutdownAt
=============================================================================
