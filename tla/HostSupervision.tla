--------------------------- MODULE HostSupervision ---------------------------
(***************************************************************************)
(* Who owns the database and who polls Telegram in the legacy runtime: the *)
(* hosts of src/runtime-host.mjs, the worker processes they spawn, the two *)
(* leases of src/store.mjs and the control file of src/bridge-control.mjs. *)
(*                                                                         *)
(* A process is named by its pid, and a pid is not used again.  Processes  *)
(* interleave between transactions; a tick of the host is one step, the    *)
(* credentials a spawn waits for and the disposal of Pi are not.  What the *)
(* host does for its session is in SessionHost, what a worker does in      *)
(* TelegramWorker.                                                         *)
(*                                                                         *)
(* A shutdown in the middle of a start ends the host here, although a Pi   *)
(* that start() brings up after it lives on.  All hosts write the lease    *)
(* under the name 'bridge-host' and all workers under 'telegram-worker'.   *)
(***************************************************************************)
EXTENDS FiniteSets, Naturals

CONSTANTS HostPid,     \* host processes ever started
          WorkerPid    \* worker processes ever spawned; "none" is no pid

VARIABLES
    hst,          \* host process: "new", an active state, "gone"
    hostLease,    \* pid in host_lease, or "none"
    desired,      \* #workerDesired of each host
    ref,          \* #worker of each host
    control,      \* control.json: a command, or "none" once consumed
    wst,          \* worker process
    parent,       \* the host that spawned it
    workerLease   \* pid in worker_lease, or "none"

hosts == <<hst, hostLease, desired, ref>>
workers == <<wst, parent, workerLease>>
vars == <<hosts, control, workers>>

Command == {"stop-worker", "start-worker", "stop-host"}

HostActive(h) == hst[h] \in {"starting", "firstSpawn", "up", "stopping"}
Running(w) == wst[w] \in {"starting", "up", "ending"}

(* isProcessAlive: a lease is taken over only from a dead process.           *)
HostLeaseFree == ~\E h \in HostPid : hostLease = h /\ HostActive(h)
WorkerLeaseFree == ~\E w \in WorkerPid : workerLease = w /\ Running(w)

(* A release asks for the name only: the row goes, whoever's pid it holds.   *)
ReleaseHostLease == hostLease' = "none"
ReleaseWorkerLease == workerLease' = "none"

-----------------------------------------------------------------------------
(* Starting a host *)

HostAcquires(h) ==
    /\ hst[h] = "new" /\ HostLeaseFree
    /\ hostLease' = h
    /\ hst' = [hst EXCEPT ![h] = "starting"]
    /\ desired' = [desired EXCEPT ![h] = TRUE]
    /\ UNCHANGED <<ref, control, workers>>

(* LEASE_BUSY: it never held the lease and releases nothing.                 *)
HostIsRefused(h) ==
    /\ hst[h] = "new" /\ ~HostLeaseFree
    /\ hst' = [hst EXCEPT ![h] = "gone"]
    /\ UNCHANGED <<hostLease, desired, ref, control, workers>>

(* dispose() of the session host.                                            *)
HostEnds(h) ==
    /\ hst' = [hst EXCEPT ![h] = "gone"]
    /\ ReleaseHostLease
    /\ UNCHANGED <<desired, ref, control, workers>>

(* startSession fails: the lease is held, and is released.                   *)
PiFails(h) == hst[h] = "starting" /\ HostEnds(h)

(* ensureWorker: one more spawn begins and waits for its credentials.  The   *)
(* pid of an earlier worker is never known here, so none is ever adopted.    *)
SpawnBegins(h) ==
    \E w \in WorkerPid :
        /\ wst[w] = "new"
        /\ wst' = [wst EXCEPT ![w] = "spawning"]
        /\ parent' = [parent EXCEPT ![w] = h]

(* Pi runs; start() waits for the first worker before it begins to tick.     *)
PiStarts(h) ==
    /\ hst[h] = "starting"
    /\ hst' = [hst EXCEPT ![h] = "firstSpawn"]
    /\ SpawnBegins(h)
    /\ UNCHANGED <<hostLease, desired, ref, control, workerLease>>

(* The first spawn is over; the interval timer starts.                       *)
Booted(h) == [hst EXCEPT ![h] = IF @ = "firstSpawn" THEN "up" ELSE @]

(* The worker process exists.  The reference is overwritten, or not kept     *)
(* when the host is already shutting down.                                   *)
SpawnEnds(w) ==
    /\ wst[w] = "spawning"
    /\ wst' = [wst EXCEPT ![w] = "starting"]
    /\ LET h == parent[w] IN
          /\ hst' = Booted(h)
          /\ ref' = IF hst[h] \in {"firstSpawn", "up"}
                    THEN [ref EXCEPT ![h] = w] ELSE ref
    /\ UNCHANGED <<hostLease, desired, control, parent, workerLease>>

SpawnFails(w) ==
    /\ wst[w] = "spawning"
    /\ wst' = [wst EXCEPT ![w] = "gone"]
    /\ hst' = Booted(parent[w])
    /\ UNCHANGED <<hostLease, desired, ref, control, parent, workerLease>>

-----------------------------------------------------------------------------
(* A host at work *)

(* stopWorkerSafe: the reference is dropped and the process is told to end   *)
(* (SIGTERM) or terminated (Windows).  Its exit is not waited for.           *)
StopsWorker(h) ==
    /\ ref' = [ref EXCEPT ![h] = "none"]
    /\ \E end \in {"ending", "gone"} :
          wst' = [w \in WorkerPid |->
                    IF w = ref[h] /\ Running(w) THEN end ELSE wst[w]]
    /\ UNCHANGED parent

(* One tick: the control file, then the worker.  A command is consumed       *)
(* before it is applied.  A worker that is wanted and of which there is no   *)
(* reference is spawned, five seconds after the last spawn began, which may  *)
(* still wait for credentials; one that has ended is still referenced.       *)
Tick(h) ==
    /\ hst[h] = "up" /\ control # "stop-host"
    /\ control' = "none"
    /\ desired' = [desired EXCEPT ![h] =
                     (@ \/ control = "start-worker") /\ control # "stop-worker"]
    /\ IF ~desired'[h] THEN StopsWorker(h)
       ELSE /\ UNCHANGED ref
            /\ \/ ref[h] = "none" /\ SpawnBegins(h)
               \/ UNCHANGED <<wst, parent>>
    /\ UNCHANGED <<hst, hostLease, workerLease>>

(* Signal, stop-host, a lost lease or ticks that keep failing: the worker is *)
(* stopped, then Pi is disposed.                                             *)
ShutdownBegins(h) ==
    /\ hst[h] \in {"starting", "firstSpawn", "up"}
    /\ \/ UNCHANGED control
       \/ hst[h] = "up" /\ control = "stop-host" /\ control' = "none"
    /\ hst' = [hst EXCEPT ![h] = "stopping"]
    /\ desired' = [desired EXCEPT ![h] = FALSE]
    /\ StopsWorker(h)
    /\ UNCHANGED <<hostLease, workerLease>>

ShutdownEnds(h) == hst[h] = "stopping" /\ HostEnds(h)

(* The lease stays behind, and so do the workers: nothing ties them to their *)
(* parent.  Those still waiting for credentials are never spawned.           *)
HostCrashes(h) ==
    /\ HostActive(h)
    /\ hst' = [hst EXCEPT ![h] = "gone"]
    /\ wst' = [w \in WorkerPid |->
                 IF wst[w] = "spawning" /\ parent[w] = h THEN "gone" ELSE wst[w]]
    /\ UNCHANGED <<hostLease, desired, ref, control, parent, workerLease>>

(* The operator writes the control file.                                     *)
Operator ==
    /\ control = "none"
    /\ control' \in Command
    /\ UNCHANGED <<hosts, workers>>

-----------------------------------------------------------------------------
(* A worker process *)

(* start(): it polls when it gets the lease, and goes to its end when the    *)
(* lease is busy or a check before it fails.                                 *)
WorkerStarts(w) ==
    /\ wst[w] = "starting"
    /\ \/ /\ WorkerLeaseFree
          /\ workerLease' = w
          /\ wst' = [wst EXCEPT ![w] = "up"]
       \/ /\ wst' = [wst EXCEPT ![w] = "ending"]
          /\ UNCHANGED workerLease
    /\ UNCHANGED <<hosts, control, parent>>

(* A conflict, an authorisation failure or a thrown error ends the loop.     *)
WorkerStops(w) ==
    /\ wst[w] = "up"
    /\ wst' = [wst EXCEPT ![w] = "ending"]
    /\ UNCHANGED <<hosts, control, parent, workerLease>>

(* dispose() in the finally of runWorkerMain releases the lease whether or   *)
(* not start() got it.                                                       *)
WorkerDisposes(w) ==
    /\ wst[w] = "ending"
    /\ wst' = [wst EXCEPT ![w] = "gone"]
    /\ ReleaseWorkerLease
    /\ UNCHANGED <<hosts, control, parent>>

WorkerDies(w) ==
    /\ Running(w)
    /\ wst' = [wst EXCEPT ![w] = "gone"]
    /\ UNCHANGED <<hosts, control, parent, workerLease>>

-----------------------------------------------------------------------------
Init ==
    /\ hst = [h \in HostPid |-> "new"]
    /\ hostLease = "none"
    /\ desired = [h \in HostPid |-> FALSE]
    /\ ref = [h \in HostPid |-> "none"]
    /\ control = "none"
    /\ wst = [w \in WorkerPid |-> "new"]
    /\ parent = [w \in WorkerPid |-> "none"]
    /\ workerLease = "none"

Host(h) ==
    \/ HostAcquires(h) \/ HostIsRefused(h) \/ PiFails(h) \/ PiStarts(h)
    \/ Tick(h) \/ ShutdownBegins(h) \/ ShutdownEnds(h) \/ HostCrashes(h)

Worker(w) ==
    \/ SpawnEnds(w) \/ SpawnFails(w)
    \/ WorkerStarts(w) \/ WorkerStops(w) \/ WorkerDisposes(w) \/ WorkerDies(w)

Next == (\E h \in HostPid : Host(h)) \/ (\E w \in WorkerPid : Worker(w)) \/ Operator

Spec == Init /\ [][Next]_vars

-----------------------------------------------------------------------------
(* Properties *)

(* Two processes never own the database: whoever acts as host is the one in  *)
(* the lease, through crashes, takeovers, refused and failed starts.         *)
OneHost == \A g, h \in HostPid : HostActive(g) /\ HostActive(h) => g = h

(* "worker lease is singleton": at most one process polls Telegram.          *)
OneWorker == Cardinality({w \in WorkerPid : wst[w] = "up"}) <= 1
=============================================================================
