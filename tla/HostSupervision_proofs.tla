------------------------ MODULE HostSupervision_proofs ------------------------
(***************************************************************************)
(* That one host owns the database is proved for any number of host and    *)
(* worker processes.  The mutual exclusion is not inductive: it rests on   *)
(* the lease, which names every active host, so that a release under the   *)
(* common name never takes it from another one.                            *)
(***************************************************************************)
EXTENDS HostSupervision, TLAPS

HostStates == {"new", "starting", "firstSpawn", "up", "stopping", "gone"}

(* The lease of an active host is never missing and never another's, which   *)
(* is why renewHostLease never finds "not_owner".                            *)
ActiveHoldsLease == \A h \in HostPid : HostActive(h) => hostLease = h

HInv == hst \in [HostPid -> HostStates] /\ ActiveHoldsLease

(* An active host stays the holder when another process becomes active only  *)
(* over a free lease: the steps that leave the lease alone.                  *)
LEMMA SameLease ==
    ASSUME HInv, hostLease' = hostLease,
           hst' \in [HostPid -> HostStates],
           \A h \in HostPid : HostActive(h)' => HostActive(h)
    PROVE  HInv'
  BY DEF HInv, ActiveHoldsLease

(* A host that ends takes the lease with it; nobody else was active.         *)
LEMMA EndingKeepsHInv ==
    ASSUME HInv, NEW h \in HostPid, HostActive(h), HostEnds(h)
    PROVE  HInv'
  <1>1. \A g \in HostPid : HostActive(g) => g = h
    BY DEF HInv, ActiveHoldsLease
  <1>2. hst' \in [HostPid -> HostStates]
    BY DEF HInv, HostEnds, HostStates
  <1>3. \A g \in HostPid : ~HostActive(g)'
    BY <1>1 DEF HInv, HostEnds, HostActive, HostStates
  <1> QED BY <1>2, <1>3 DEF HInv, ActiveHoldsLease

LEMMA HostStepKeepsHInv ==
    ASSUME HInv, NEW h \in HostPid, Host(h)
    PROVE  HInv'
  <1>1. CASE HostAcquires(h)
    <2>1. \A g \in HostPid : ~HostActive(g)
      BY <1>1 DEF HostAcquires, HostLeaseFree, HInv, ActiveHoldsLease
    <2>2. \A g \in HostPid : HostActive(g)' => g = h
      BY <1>1, <2>1 DEF HostAcquires, HostActive, HInv
    <2>3. hst' \in [HostPid -> HostStates] /\ hostLease' = h
      BY <1>1 DEF HostAcquires, HInv, HostStates
    <2> QED BY <2>2, <2>3 DEF HInv, ActiveHoldsLease
  <1>2. CASE HostIsRefused(h)
    BY <1>2, SameLease DEF HostIsRefused, HInv, HostStates, HostActive
  <1>3. CASE PiFails(h)
    BY <1>3, EndingKeepsHInv DEF PiFails, HostActive
  <1>4. CASE PiStarts(h)
    BY <1>4, SameLease DEF PiStarts, HInv, HostStates, HostActive
  <1>5. CASE Tick(h)
    BY <1>5, SameLease DEF Tick, HInv, HostActive
  <1>6. CASE ShutdownBegins(h)
    BY <1>6, SameLease DEF ShutdownBegins, HInv, HostStates, HostActive
  <1>7. CASE ShutdownEnds(h)
    BY <1>7, EndingKeepsHInv DEF ShutdownEnds, HostActive
  <1>8. CASE HostCrashes(h)
    BY <1>8, SameLease DEF HostCrashes, HInv, HostStates, HostActive
  <1> QED
    BY <1>1, <1>2, <1>3, <1>4, <1>5, <1>6, <1>7, <1>8 DEF Host

(* No worker touches the lease of the host; the end of a first spawn only    *)
(* moves a host from one active state to another.                            *)
LEMMA WorkerStepKeepsHInv ==
    ASSUME HInv, NEW w \in WorkerPid, Worker(w)
    PROVE  HInv'
  <1>1. ASSUME NEW h, hst' = Booted(h), hostLease' = hostLease
        PROVE  HInv'
    BY <1>1, SameLease DEF Booted, HInv, HostStates, HostActive
  <1>2. CASE SpawnEnds(w)
    BY <1>1, <1>2 DEF SpawnEnds
  <1>3. CASE SpawnFails(w)
    BY <1>1, <1>3 DEF SpawnFails
  <1>4. CASE WorkerStarts(w) \/ WorkerStops(w) \/ WorkerDisposes(w) \/ WorkerDies(w)
    BY <1>4, SameLease
    DEF WorkerStarts, WorkerStops, WorkerDisposes, WorkerDies, hosts, HInv, HostActive
  <1> QED BY <1>2, <1>3, <1>4 DEF Worker

(* Every active host holds the lease, in every reachable state.              *)
THEOREM ActiveHoldsLeaseTheorem == Spec => []HInv
  <1>1. Init => HInv
    BY DEF Init, HInv, ActiveHoldsLease, HostActive, HostStates
  <1>2. HInv /\ [Next]_vars => HInv'
    <2> SUFFICES ASSUME HInv, [Next]_vars PROVE HInv'
      OBVIOUS
    <2>1. CASE \E h \in HostPid : Host(h)
      BY <2>1, HostStepKeepsHInv
    <2>2. CASE \E w \in WorkerPid : Worker(w)
      BY <2>2, WorkerStepKeepsHInv
    <2>3. CASE Operator
      BY <2>3, SameLease DEF Operator, hosts, HInv, HostActive
    <2>4. CASE UNCHANGED vars
      BY <2>4, SameLease DEF vars, hosts, HInv, HostActive
    <2> QED BY <2>1, <2>2, <2>3, <2>4 DEF Next
  <1> QED BY <1>1, <1>2, PTL DEF Spec

(* At most one process acts as the host of a database, whatever crashes, is  *)
(* refused, is taken over or shuts down (acquireHostLease, releaseHostLease).*)
THEOREM OneHostTheorem == Spec => []OneHost
  <1>1. HInv => OneHost
    BY DEF HInv, ActiveHoldsLease, OneHost
  <1> QED BY <1>1, ActiveHoldsLeaseTheorem, PTL
=============================================================================
