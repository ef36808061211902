-------------------------- MODULE WorkerPoolProofs --------------------------
(***************************************************************************)
(* Theorems about WorkerPool, for every number of replicas, requests and   *)
(* launches, with crashes of Core, failing cleanups and health routes.     *)
(***************************************************************************)
EXTENDS WorkerPool, FiniteSetTheorems, TLAPS

(* A request holds a Worker exactly while it uses it or waits for its end.  *)
HoldersHold ==
  \A q \in Requests : request[q] \in {"holding", "stopping"} <=> holds[q] # NoWorker

(* A launch makes a Worker of its own replica.                             *)
LEMMA SpawnedIsWorker ==
  ASSUME TypeOK, NEW i \in Ids, MayLaunch(i)
  PROVE  /\ Spawned(i) \in Workers
         /\ launches[i] + 1 \in 1 .. MaxLaunches
BY WorkerPoolAssumption DEF TypeOK, MayLaunch, Spawned, Workers

(* The Worker registered for a replica.                                    *)
LEMMA ReplicaIsWorker ==
  ASSUME TypeOK, NEW i \in Present PROVE i \in Ids /\ Replica(i) \in Workers
BY WorkerPoolAssumption DEF TypeOK, Present, Replica, Workers

LEMMA WorkerParts ==
  ASSUME NEW w \in Workers
  PROVE  /\ w[1] \in Ids /\ w[2] \in 1 .. MaxLaunches
         /\ w = <<w[1], w[2]>>
BY DEF Workers

(* A launch, successful or not, keeps the types.                           *)
LEMMA LaunchType ==
  ASSUME TypeOK, NEW i \in Ids, Launch(i)
  PROVE  /\ replicas' \in [Ids -> 0 .. MaxLaunches]
         /\ canonical' \in Workers \cup {NoWorker}
         /\ launched' \in BOOLEAN
         /\ blamed' \in [Ids -> Workers \cup {NoWorker}]
         /\ diagnostic' \in {"none", "ready", "restarting", "failed"}
         /\ request' \in [Requests -> RequestStates]
         /\ launches' \in [Ids -> 0 .. MaxLaunches]
         /\ Spawned(i) \in Workers
<1>1. MayLaunch(i)
  BY DEF Launch
<1>2. Spawned(i) \in Workers /\ launches[i] + 1 \in 1 .. MaxLaunches
  BY <1>1, SpawnedIsWorker
<1> QED BY <1>2, WorkerPoolAssumption DEF TypeOK, Launch, Woken, RequestStates

LEMMA LaunchFailsType ==
  ASSUME TypeOK, NEW i \in Ids, LaunchFails(i)
  PROVE  /\ alive' \subseteq Workers /\ owned' \subseteq Workers
         /\ launches' \in [Ids -> 0 .. MaxLaunches]
<1>1. CASE UNCHANGED <<alive, owned, launches>>
  BY <1>1 DEF TypeOK
<1>2. CASE /\ MayLaunch(i)
           /\ launches' = [launches EXCEPT ![i] = @ + 1]
           /\ alive' = alive \cup {Spawned(i)}
           /\ owned' = owned \cup {Spawned(i)}
  BY <1>2, SpawnedIsWorker, WorkerPoolAssumption DEF TypeOK
<1> QED BY <1>1, <1>2 DEF LaunchFails

(* The canonical Worker is a Worker.                                       *)
LEMMA CanonicalType ==
  ASSUME TypeOK, NEW gone, CanonicalWithout(gone)
  PROVE  canonical' \in Workers \cup {NoWorker}
BY ReplicaIsWorker DEF TypeOK, CanonicalWithout

(* A step of a watch task keeps the types.                                 *)
LEMMA WatchType ==
  ASSUME TypeOK, NEW w \in Workers, WatchStep(w) PROVE TypeOK'
<1> USE DEF registry, scaling, objects, watching, clients, machine
<1>0. w[1] \in Ids
  BY WorkerParts
<1>1. CASE Probe(w)
  BY <1>1 DEF TypeOK, Probe, WatchStates
<1>2. CASE ProbeSucceeds(w)
  BY <1>2, <1>0 DEF TypeOK, ProbeSucceeds, WatchStates
<1>3. CASE ProbeFails(w)
  BY <1>3, <1>0 DEF TypeOK, ProbeFails, WatchStates
<1>4. CASE NoticeExit(w)
  BY <1>4 DEF TypeOK, NoticeExit, WatchStates
<1>5. CASE Quarantine(w)
  BY <1>5, <1>0 DEF TypeOK, Quarantine, WatchStates
<1>6. CASE CleanUp(w)
  <2>1. canonical' \in Workers \cup {NoWorker}
    BY <1>6, CanonicalType DEF CleanUp, TypeOK
  <2>2. /\ watch' \in [Workers -> WatchStates] /\ attempt' \in [Workers -> 0 .. MaxAttempts]
        /\ replicas' \in [Ids -> 0 .. MaxLaunches]
        /\ request' \in [Requests -> RequestStates]
    BY <1>6, <1>0, WorkerPoolAssumption DEF CleanUp, TypeOK, WatchStates, RequestStates, Woken
  <2>3. /\ alive' \subseteq Workers /\ owned' \subseteq Workers
        /\ quarantined' \subseteq Workers /\ terminated' \subseteq Workers
    BY <1>6 DEF CleanUp, TypeOK, Reaped, ReapFails
  <2> QED BY <1>6, <2>1, <2>2, <2>3 DEF CleanUp, TypeOK
<1>7. CASE Overtaken(w)
  BY <1>7, WorkerPoolAssumption DEF TypeOK, Overtaken, WatchStates
<1>8. CASE Replace(w)
  <2>1. Launch(w[1])
    BY <1>8 DEF Replace
  <2> QED BY <1>8, <1>0, <2>1, LaunchType, WorkerPoolAssumption DEF Replace, TypeOK, WatchStates
<1>9. CASE ReplaceFails(w)
  <2>1. LaunchFails(w[1])
    BY <1>9 DEF ReplaceFails
  <2> QED BY <1>9, <1>0, <2>1, LaunchFailsType, WorkerPoolAssumption
          DEF ReplaceFails, NextDiagnostic, LastAttempt, TypeOK, WatchStates, RequestStates, Woken
<1> QED BY <1>1, <1>2, <1>3, <1>4, <1>5, <1>6, <1>7, <1>8, <1>9 DEF WatchStep

(* A step of a request keeps the types.                                    *)
LEMMA LeaseType ==
  ASSUME TypeOK, HoldersHold, NEW q \in Requests, LeaseStep(q) PROVE TypeOK'
<1> USE DEF registry, scaling, objects, watching, clients, machine, RequestStates
<1>1. CASE Wait(q)
  BY <1>1 DEF TypeOK, Wait
<1>2. CASE Refuse(q)
  BY <1>2 DEF TypeOK, Refuse
<1>3. CASE Release(q)
  BY <1>3 DEF TypeOK, Release, WakeAnd, Woken
<1>4. CASE HardStop(q)
  <2>1. holds[q] \in Workers
    BY <1>4, WorkerPoolAssumption DEF HardStop, TypeOK, HoldersHold
  <2>2. holds[q][1] \in Ids
    BY <2>1, WorkerParts
  <2> QED BY <1>4, <2>1, <2>2 DEF TypeOK, HardStop, WakeAnd, Woken, WatchStates
<1>5. CASE HardStopEnds(q)
  <2>1. holds[q] \in Workers
    BY <1>5, WorkerPoolAssumption DEF HardStopEnds, TypeOK, HoldersHold
  <2>2. /\ watch' \in [Workers -> WatchStates] /\ request' \in [Requests -> RequestStates]
        /\ diagnostic' \in {"none", "ready", "restarting", "failed"}
    BY <1>5, <2>1 DEF TypeOK, HardStopEnds, WakeAnd, Woken, WatchStates
  <2>3. alive' \subseteq Workers /\ terminated' \subseteq Workers
    BY <1>5, <2>1 DEF TypeOK, HardStopEnds
  <2> QED BY <1>5, <2>2, <2>3 DEF TypeOK, HardStopEnds
<1>6. ASSUME NEW i \in Ids, Lease(q, i) PROVE TypeOK'
  <2>1. Replica(i) \in Workers
    BY <1>6, ReplicaIsWorker DEF Lease, Admissible, Healthy
  <2> QED BY <1>6, <2>1 DEF TypeOK, Lease
<1> QED BY <1>1, <1>2, <1>3, <1>4, <1>5, <1>6 DEF LeaseStep

(* Starting, scaling and stopping keep the types.                          *)
LEMMA PoolType ==
  ASSUME TypeOK, retiring \subseteq Present,
         \/ Start \/ StopAll \/ Crash
         \/ \E w \in Workers : Die(w)
         \/ \E count \in Counts : EnsureReplicas(count)
         \/ \E i \in Ids : ScaleStep(i) \/ HealthFails(i)
  PROVE  TypeOK'
<1> USE DEF registry, scaling, objects, watching, clients, machine
<1>1. CASE Start
  <2>1. PICK kept \in SUBSET owned :
          \/ /\ Launch(0)
             /\ watch' = [watch EXCEPT ![Spawned(0)] = "watching"]
             /\ alive' = (alive \cap kept) \cup {Spawned(0)}
             /\ owned' = kept \cup {Spawned(0)}
          \/ /\ alive' = alive \cap kept
             /\ owned' = kept
             /\ diagnostic' = "failed"
             /\ UNCHANGED <<registry, blamed, watch, request, launches>>
    BY <1>1 DEF Start
  <2>2. 0 \in Ids
    BY WorkerPoolAssumption DEF Ids
  <2>3. CASE Launch(0) /\ watch' = [watch EXCEPT ![Spawned(0)] = "watching"]
             /\ alive' = (alive \cap kept) \cup {Spawned(0)} /\ owned' = kept \cup {Spawned(0)}
    BY <1>1, <2>2, <2>3, LaunchType DEF Start, TypeOK, WatchStates
  <2>4. CASE alive' = alive \cap kept /\ owned' = kept /\ diagnostic' = "failed"
             /\ UNCHANGED <<registry, blamed, watch, request, launches>>
    BY <1>1, <2>4 DEF Start, TypeOK
  <2> QED BY <2>1, <2>3, <2>4
<1>2. CASE StopAll
  <2>1. PICK kept \in SUBSET {Replica(i) : i \in Present} :
          LET ended == {Replica(i) : i \in Present} \ kept IN
          /\ alive' = alive \ ended
          /\ owned' = owned \ ended
          /\ terminated' = terminated \ ended
          /\ quarantined' = (quarantined \ ended) \cup kept
          /\ replicas' = [i \in Ids |-> IF Replica(i) \in ended THEN 0 ELSE replicas[i]]
          /\ leased' = IF ended = {} THEN leased ELSE {}
          /\ CanonicalWithout(ended)
          /\ launched' = (launched /\ (ended = {} \/ kept # {}))
    BY <1>2 DEF StopAll
  <2>2. kept \subseteq Workers
    BY ReplicaIsWorker
  <2>3. canonical' \in Workers \cup {NoWorker}
    BY <2>1, CanonicalType
  <2>4. replicas' \in [Ids -> 0 .. MaxLaunches]
    BY <2>1, WorkerPoolAssumption DEF TypeOK
  <2>5. /\ alive' \subseteq Workers /\ owned' \subseteq Workers /\ leased' \subseteq Ids
        /\ quarantined' \subseteq Workers /\ terminated' \subseteq Workers
    BY <2>1, <2>2 DEF TypeOK
  <2>6. launched' \in BOOLEAN
    BY <2>1 DEF TypeOK
  <2>7. request' \in [Requests -> RequestStates]
    BY <1>2 DEF StopAll, TypeOK, RequestStates, Woken
  <2> QED BY <1>2, <2>3, <2>4, <2>5, <2>6, <2>7 DEF StopAll, TypeOK, WatchStates
<1>3. CASE Crash
  <2>1. /\ alive' \subseteq Workers /\ owned' \subseteq Workers
        /\ launches' \in [Ids -> 0 .. MaxLaunches]
    BY <1>3, SpawnedIsWorker, WorkerPoolAssumption DEF Crash, TypeOK
  <2>2. crashes' \in 0 .. MaxCrashes
    BY <1>3, WorkerPoolAssumption DEF Crash, TypeOK
  <2>3. /\ replicas' \in [Ids -> 0 .. MaxLaunches]
        /\ blamed' \in [Ids -> Workers \cup {NoWorker}]
        /\ watch' \in [Workers -> WatchStates] /\ attempt' \in [Workers -> 0 .. MaxAttempts]
        /\ request' \in [Requests -> RequestStates]
        /\ holds' \in [Requests -> Workers \cup {NoWorker}]
    BY <1>3, WorkerPoolAssumption DEF Crash, Volatile, WatchStates, RequestStates
  <2> QED BY <1>3, <2>1, <2>2, <2>3 DEF Crash, Volatile, TypeOK
<1>4. ASSUME NEW w \in Workers, Die(w) PROVE TypeOK'
  BY <1>4 DEF Die, TypeOK
<1>5. ASSUME NEW count \in Counts, EnsureReplicas(count) PROVE TypeOK'
  <2>1. Cardinality(Present) \in Nat
    <3>1. IsFiniteSet(Ids)
      BY FS_Interval, WorkerPoolAssumption DEF Ids
    <3> QED BY <3>1, FS_Subset, FS_CardinalityType DEF Present
  <2>2. Cardinality(Present) .. count - 1 \subseteq Ids
    BY <2>1, WorkerPoolAssumption DEF Ids
  <2>3. retiring' \subseteq Ids /\ starting' \subseteq Ids
    BY <1>5, <2>2 DEF EnsureReplicas, TypeOK, Present
  <2> QED BY <1>5, <2>3 DEF EnsureReplicas, TypeOK
<1>6. ASSUME NEW i \in Ids, Retire(i) PROVE TypeOK'
  <2>1. canonical' \in Workers \cup {NoWorker}
    BY <1>6, ReplicaIsWorker DEF Retire, TypeOK
  <2>2. watch' \in [Workers -> WatchStates]
    BY <1>6 DEF Retire, TypeOK, WatchStates
  <2>3. replicas' \in [Ids -> 0 .. MaxLaunches] /\ retiring' \subseteq Ids
    BY <1>6, WorkerPoolAssumption DEF Retire, TypeOK
  <2>4. /\ alive' \subseteq Workers /\ owned' \subseteq Workers
        /\ quarantined' \subseteq Workers /\ terminated' \subseteq Workers
    <3>0. i \in Present
      BY <1>6 DEF Retire
    <3>1. CASE ReapFails(Replica(i))
      BY <3>0, <3>1, ReplicaIsWorker DEF ReapFails, TypeOK
    <3>2. CASE Reaped(Replica(i))
      BY <3>2 DEF Reaped, TypeOK
    <3> QED BY <1>6, <3>1, <3>2 DEF Retire
  <2> QED BY <1>6, <2>1, <2>2, <2>3, <2>4 DEF Retire, TypeOK
<1>7. ASSUME NEW i \in Ids, StartNext(i) PROVE TypeOK'
  BY <1>7, LaunchType, WorkerPoolAssumption DEF StartNext, TypeOK, WatchStates
<1>8. ASSUME NEW i \in Ids, StartNextFails(i) PROVE TypeOK'
  BY <1>8, LaunchFailsType DEF StartNextFails, TypeOK, WatchStates
<1>9. ASSUME NEW i \in Ids, HealthFails(i) PROVE TypeOK'
  BY <1>9, ReplicaIsWorker DEF HealthFails, Present, TypeOK
<1> QED BY <1>1, <1>2, <1>3, <1>4, <1>5, <1>6, <1>7, <1>8, <1>9 DEF ScaleStep
-----------------------------------------------------------------------------
(* What the leases rest on.  A stopping pool has ended or quarantined every    *)
(* Worker, so that the leases it drops are never granted again; a pool without *)
(* a launch specification has no Workers; and the ids to retire are registered *)
(* until they are.                                                             *)
StoppedIsClosed ==
  stopping => LockFree /\ \A i \in Present : Replica(i) \in quarantined
Consistent ==
  /\ HoldersHold
  /\ retiring \subseteq Present
  /\ retiring = {} \/ starting = {}
  /\ StoppedIsClosed
  /\ ~launched => Present = {}
PoolInv == TypeOK /\ Consistent /\ LeasesAreExclusive

(* Waking the waiters leaves every holder a holder.                            *)
LEMMA WokenHolders ==
  ASSUME TypeOK, HoldersHold, request' = Woken, UNCHANGED holds PROVE HoldersHold'
BY DEF TypeOK, HoldersHold, Woken, RequestStates

(* A launch registers one more Worker, and only that.                          *)
LEMMA LaunchRegisters ==
  ASSUME TypeOK, NEW i \in Ids, Launch(i)
  PROVE  /\ Present' = Present \cup {i}
         /\ launched'
         /\ \A k \in Ids \ {i} : replicas'[k] = replicas[k]
         /\ request' = Woken
<1>1. launches[i] + 1 # 0 /\ replicas' = [replicas EXCEPT ![i] = launches[i] + 1]
  BY WorkerPoolAssumption DEF TypeOK, Launch
<1> QED BY <1>1 DEF TypeOK, Launch, Present

LEMMA LeasesKept ==
  ASSUME LeasesAreExclusive, UNCHANGED <<holds, leased, stopping>>
  PROVE  LeasesAreExclusive'
BY DEF LeasesAreExclusive

(* A step of a watch task keeps the pool consistent.                           *)
LEMMA WatchConsistent ==
  ASSUME PoolInv, NEW w \in Workers, WatchStep(w) PROVE PoolInv'
<1> USE DEF registry, scaling, objects, watching, clients, machine
<1>0. TypeOK /\ w[1] \in Ids /\ w = <<w[1], w[2]>>
  BY WorkerParts DEF PoolInv
<1>a. TypeOK'
  BY <1>0, WatchType
<1>b. UNCHANGED <<holds, leased, stopping, scaling>>
  BY DEF WatchStep, Probe, ProbeSucceeds, ProbeFails, NoticeExit, Quarantine, CleanUp,
         Overtaken, Replace, ReplaceFails
<1>c. LeasesAreExclusive'
  BY <1>b, LeasesKept DEF PoolInv
<1>1. CASE Probe(w) \/ ProbeSucceeds(w) \/ ProbeFails(w) \/ NoticeExit(w) \/ Overtaken(w)
  <2>1. UNCHANGED <<registry, request, quarantined>>
    BY <1>1 DEF Probe, ProbeSucceeds, ProbeFails, NoticeExit, Overtaken
  <2> QED BY <1>a, <1>b, <1>c, <2>1
          DEF PoolInv, Consistent, HoldersHold, StoppedIsClosed, LockFree, Present, Replica
<1>2. CASE Quarantine(w)
  <2>1. UNCHANGED <<registry, request>> /\ quarantined \subseteq quarantined'
    BY <1>2 DEF Quarantine
  <2> QED BY <1>a, <1>b, <1>c, <2>1
          DEF PoolInv, Consistent, HoldersHold, StoppedIsClosed, LockFree, Present, Replica
<1>3. CASE CleanUp(w)
  <2>1. UNCHANGED launched /\ LockFree /\ request' \in {request, Woken}
    BY <1>3 DEF CleanUp
  <2>2. HoldersHold'
    BY <1>0, <1>b, <2>1, WokenHolders DEF PoolInv, Consistent, HoldersHold
  <2>3. CASE UNCHANGED <<replicas, quarantined>>
    BY <1>a, <1>b, <1>c, <2>1, <2>2, <2>3
       DEF PoolInv, Consistent, StoppedIsClosed, LockFree, Present, Replica
  <2>4. CASE /\ quarantined' = quarantined \ {w}
             /\ IF Registered(w) THEN replicas' = [replicas EXCEPT ![w[1]] = 0]
                                 ELSE UNCHANGED replicas
    <3>1. Present' \subseteq Present
      BY <1>0, <2>4 DEF Present, TypeOK
    <3>2. \A i \in Present' : Replica(i)' = Replica(i) /\ Replica(i) # w
      BY <1>0, <2>4 DEF Present, TypeOK, Replica, Registered
    <3>3. StoppedIsClosed'
      BY <1>b, <2>4, <3>1, <3>2 DEF PoolInv, Consistent, StoppedIsClosed, LockFree
    <3> QED BY <1>a, <1>b, <1>c, <2>1, <2>2, <3>1, <3>3 DEF PoolInv, Consistent, LockFree
  <2> QED BY <1>3, <2>3, <2>4 DEF CleanUp, Reaped, ReapFails
<1>4. CASE Replace(w)
  <2>1. Launch(w[1]) /\ ~stopping /\ LockFree
    BY <1>4 DEF Replace
  <2>2. Present \subseteq Present' /\ launched' /\ request' = Woken
    BY <1>0, <2>1, LaunchRegisters
  <2>3. HoldersHold'
    BY <1>0, <1>b, <2>2, WokenHolders DEF PoolInv, Consistent
  <2> QED BY <1>a, <1>b, <1>c, <2>1, <2>2, <2>3
          DEF PoolInv, Consistent, StoppedIsClosed, LockFree
<1>5. CASE ReplaceFails(w)
  <2>1. UNCHANGED <<registry, quarantined>> /\ request' = Woken
    BY <1>5 DEF ReplaceFails
  <2>2. HoldersHold'
    BY <1>0, <1>b, <2>1, WokenHolders DEF PoolInv, Consistent
  <2> QED BY <1>a, <1>b, <1>c, <2>1, <2>2
          DEF PoolInv, Consistent, StoppedIsClosed, LockFree, Present, Replica
<1> QED BY <1>1, <1>2, <1>3, <1>4, <1>5 DEF WatchStep

(* A step of a request keeps the pool consistent.                              *)
LEMMA LeaseConsistent ==
  ASSUME PoolInv, NEW q \in Requests, LeaseStep(q) PROVE PoolInv'
<1> USE DEF registry, scaling, objects, watching, clients, machine
<1>0. TypeOK /\ HoldersHold
  BY DEF PoolInv, Consistent
<1>a. TypeOK'
  BY <1>0, LeaseType
<1>b. UNCHANGED <<registry, scaling, stopping>>
  BY DEF LeaseStep, Wait, Refuse, Release, HardStop, HardStopEnds, Lease
<1>c. quarantined \subseteq quarantined'
  BY DEF LeaseStep, Wait, Refuse, Release, HardStop, HardStopEnds, Lease
<1>d. Consistent' <=> HoldersHold'
  BY <1>b, <1>c DEF PoolInv, Consistent, StoppedIsClosed, LockFree, Present, Replica
<1>1. CASE Wait(q) \/ Refuse(q)
  <2>1. HoldersHold'
    BY <1>1, <1>0 DEF Wait, Refuse, HoldersHold, Looking, TypeOK, RequestStates
  <2>2. LeasesAreExclusive'
    BY <1>1, LeasesKept DEF Wait, Refuse, PoolInv
  <2> QED BY <1>a, <1>d, <2>1, <2>2 DEF PoolInv
<1>2. CASE HardStop(q) \/ HardStopEnds(q)
  <2>1. HoldersHold'
    BY <1>2, <1>0 DEF HardStop, HardStopEnds, HoldersHold, WakeAnd, Woken, TypeOK, RequestStates
  <2>2. LeasesAreExclusive'
    BY <1>2, LeasesKept DEF HardStop, HardStopEnds, PoolInv
  <2> QED BY <1>a, <1>d, <2>1, <2>2 DEF PoolInv
<1>3. CASE Release(q)
  <2>1. HoldersHold'
    BY <1>3, <1>0 DEF Release, HoldersHold, WakeAnd, Woken, TypeOK, RequestStates
  <2>2. holds[q] # NoWorker
    BY <1>3, <1>0 DEF Release, HoldersHold
  <2>3. LeasesAreExclusive'
    BY <1>3, <1>0, <2>2 DEF Release, LeasesAreExclusive, PoolInv, TypeOK
  <2> QED BY <1>a, <1>d, <2>1, <2>3 DEF PoolInv
<1>4. ASSUME NEW i \in Ids, Lease(q, i) PROVE PoolInv'
  <2>1. i \in Present /\ i \notin leased /\ Replica(i) \notin quarantined
    BY <1>4 DEF Lease, Admissible, Healthy
  <2>2. ~stopping
    BY <2>1 DEF PoolInv, Consistent, StoppedIsClosed
  <2>3. Replica(i) \in Workers /\ Replica(i) # NoWorker /\ Replica(i)[1] = i
    BY <1>0, <2>1, ReplicaIsWorker, WorkerPoolAssumption DEF Replica
  <2>4. HoldersHold'
    BY <1>4, <1>0, <2>3 DEF Lease, HoldersHold, TypeOK, RequestStates
  <2>5. \A p \in Requests : holds[p] # NoWorker => holds[p][1] \in leased /\ holds[p][1] # i
    BY <2>1, <2>2 DEF PoolInv, LeasesAreExclusive
  <2>6. /\ holds' = [holds EXCEPT ![q] = Replica(i)] /\ leased' = leased \cup {i}
        /\ UNCHANGED stopping
    BY <1>4 DEF Lease
  <2>7. LeasesAreExclusive'
    BY <1>0, <2>3, <2>5, <2>6 DEF LeasesAreExclusive, PoolInv, TypeOK
  <2> QED BY <1>a, <1>d, <2>4, <2>7 DEF PoolInv
<1> QED BY <1>1, <1>2, <1>3, <1>4 DEF LeaseStep

(* Starting, scaling, stopping, deaths and crashes keep the pool consistent.   *)
LEMMA PoolConsistent ==
  ASSUME PoolInv,
         \/ Start \/ StopAll \/ Crash
         \/ \E w \in Workers : Die(w)
         \/ \E count \in Counts : EnsureReplicas(count)
         \/ \E i \in Ids : ScaleStep(i) \/ HealthFails(i)
  PROVE  PoolInv'
<1> USE DEF registry, scaling, objects, watching, clients, machine
<1>0. TypeOK /\ HoldersHold /\ retiring \subseteq Present
  BY DEF PoolInv, Consistent
<1>a. TypeOK'
  BY <1>0, PoolType
<1>1. CASE Start
  <2>1. UNCHANGED <<holds, leased, stopping, scaling>> /\ ~stopping
    BY <1>1 DEF Start
  <2>2. LeasesAreExclusive'
    BY <2>1, LeasesKept DEF PoolInv
  <2>3. CASE Launch(0)
    <3>1. 0 \in Ids
      BY WorkerPoolAssumption DEF Ids
    <3>2. Present \subseteq Present' /\ launched' /\ request' = Woken
      BY <1>0, <2>3, <3>1, LaunchRegisters
    <3>3. HoldersHold'
      BY <1>0, <2>1, <3>2, WokenHolders
    <3> QED BY <1>a, <2>1, <2>2, <3>2, <3>3 DEF PoolInv, Consistent, StoppedIsClosed
  <2>4. CASE UNCHANGED <<registry, request>>
    BY <1>a, <2>1, <2>2, <2>4 DEF PoolInv, Consistent, StoppedIsClosed, Present, HoldersHold
  <2> QED BY <1>1, <2>3, <2>4 DEF Start
<1>2. CASE StopAll
  <2>1. PICK kept \in SUBSET {Replica(i) : i \in Present} :
          LET ended == {Replica(i) : i \in Present} \ kept IN
          /\ quarantined' = (quarantined \ ended) \cup kept
          /\ replicas' = [i \in Ids |-> IF Replica(i) \in ended THEN 0 ELSE replicas[i]]
          /\ leased' = IF ended = {} THEN leased ELSE {}
          /\ launched' = (launched /\ (ended = {} \/ kept # {}))
    BY <1>2 DEF StopAll
  <2>2. /\ stopping' /\ LockFree /\ request' = Woken
        /\ UNCHANGED <<holds, scaling>>
    BY <1>2 DEF StopAll
  <2>3. \A i \in Present' : i \in Present /\ Replica(i)' = Replica(i) /\ Replica(i) \in kept
    <3> SUFFICES ASSUME NEW i \in Present'
                 PROVE  i \in Present /\ Replica(i)' = Replica(i) /\ Replica(i) \in kept
      OBVIOUS
    <3>1. i \in Ids /\ replicas'[i] # 0
      BY DEF Present
    <3>2. replicas'[i] = replicas[i] /\ Replica(i) \notin {Replica(k) : k \in Present} \ kept
      BY <2>1, <3>1
    <3> QED BY <3>1, <3>2 DEF Present, Replica
  <2>4. StoppedIsClosed'
    BY <2>1, <2>2, <2>3 DEF StoppedIsClosed, LockFree
  <2>5. ~launched' => Present' = {}
    BY <2>1, <2>3, <1>0 DEF PoolInv, Consistent
  <2>6. HoldersHold'
    BY <1>0, <2>2, WokenHolders
  <2>7. LeasesAreExclusive'
    BY <2>2 DEF PoolInv, LeasesAreExclusive
  <2> QED BY <1>a, <2>2, <2>4, <2>5, <2>6, <2>7 DEF PoolInv, Consistent, LockFree
<1>3. CASE Crash
  <2>1. Present' = {} /\ ~stopping' /\ retiring' = {}
    BY <1>3 DEF Crash, Volatile, Present
  <2>2. HoldersHold' /\ LeasesAreExclusive'
    BY <1>3 DEF Crash, Volatile, HoldersHold, LeasesAreExclusive
  <2> QED BY <1>a, <2>1, <2>2 DEF PoolInv, Consistent, StoppedIsClosed
<1>4. CASE \/ \E w \in Workers : Die(w)
           \/ \E i \in Ids : HealthFails(i)
  <2>1. UNCHANGED <<registry, clients, leased, stopping, scaling, quarantined>>
    BY <1>4 DEF Die, HealthFails
  <2> QED BY <1>a, <2>1, LeasesKept
          DEF PoolInv, Consistent, StoppedIsClosed, LockFree, Present, Replica, HoldersHold
<1>5. ASSUME NEW count \in Counts, EnsureReplicas(count) PROVE PoolInv'
  <2>1. /\ UNCHANGED <<registry, clients, leased, stopping>> /\ ~stopping /\ LockFree
        /\ retiring' \subseteq Present /\ (retiring' = {} \/ starting' = {})
    BY <1>5 DEF EnsureReplicas, LockFree
  <2> QED BY <1>a, <2>1, LeasesKept
          DEF PoolInv, Consistent, StoppedIsClosed, Present, HoldersHold
<1>6. ASSUME NEW i \in Ids, Retire(i) PROVE PoolInv'
  <2>1. /\ UNCHANGED <<launched, clients, leased, stopping, starting>> /\ ~stopping
        /\ starting = {}
    BY <1>6 DEF Retire, PoolInv, Consistent, StoppedIsClosed, LockFree
  <2>2. retiring' \subseteq Present' /\ Present' \subseteq Present
    <3>1. CASE replicas' = [replicas EXCEPT ![i] = 0] /\ retiring' = retiring \ {i}
      BY <1>0, <3>1 DEF Present, TypeOK
    <3>2. CASE retiring' = {} /\ UNCHANGED replicas
      BY <3>2 DEF Present
    <3> QED BY <1>6, <3>1, <3>2 DEF Retire
  <2> QED BY <1>a, <2>1, <2>2, LeasesKept
          DEF PoolInv, Consistent, StoppedIsClosed, HoldersHold
<1>7. ASSUME NEW i \in Ids, StartNext(i) PROVE PoolInv'
  <2>1. /\ UNCHANGED <<holds, leased, stopping, retiring>> /\ ~stopping /\ retiring = {}
        /\ Launch(i)
    BY <1>7 DEF StartNext, PoolInv, Consistent, StoppedIsClosed, LockFree
  <2>2. launched' /\ request' = Woken
    BY <1>0, <2>1, LaunchRegisters
  <2>3. HoldersHold'
    BY <1>0, <2>1, <2>2, WokenHolders
  <2> QED BY <1>a, <2>1, <2>2, <2>3, LeasesKept DEF PoolInv, Consistent, StoppedIsClosed
<1>8. ASSUME NEW i \in Ids, StartNextFails(i) PROVE PoolInv'
  <2>1. /\ UNCHANGED <<registry, clients, leased, stopping, retiring, quarantined>>
        /\ ~stopping /\ starting' = {}
    BY <1>8 DEF StartNextFails, PoolInv, Consistent, StoppedIsClosed, LockFree
  <2> QED BY <1>a, <2>1, LeasesKept
          DEF PoolInv, Consistent, StoppedIsClosed, Present, HoldersHold
<1> QED BY <1>1, <1>2, <1>3, <1>4, <1>5, <1>6, <1>7, <1>8 DEF ScaleStep

(* The pool is consistent in every reachable state.                            *)
LEMMA PoolInvariant == Spec => []PoolInv
<1>1. Init => PoolInv
  <2> SUFFICES ASSUME Init PROVE PoolInv
    OBVIOUS
  <2>1. TypeOK
    <3>1. replicas \in [Ids -> 0..MaxLaunches] /\ launches \in [Ids -> 0..MaxLaunches]
      BY WorkerPoolAssumption DEF Init
    <3>2. attempt \in [Workers -> 0..MaxAttempts] /\ crashes \in 0..MaxCrashes
      BY WorkerPoolAssumption DEF Init
    <3> QED BY <3>1, <3>2 DEF Init, TypeOK, WatchStates, RequestStates
  <2>2. HoldersHold /\ LeasesAreExclusive
    BY DEF Init, HoldersHold, LeasesAreExclusive
  <2>3. Present = {}
    BY DEF Init, Present
  <2> QED BY <2>1, <2>2, <2>3 DEF Init, PoolInv, Consistent, StoppedIsClosed
<1>2. PoolInv /\ [Next]_vars => PoolInv'
  <2> SUFFICES ASSUME PoolInv, [Next]_vars PROVE PoolInv'
    OBVIOUS
  <2>1. CASE UNCHANGED vars
    BY <2>1 DEF PoolInv, TypeOK, Consistent, HoldersHold, StoppedIsClosed, LeasesAreExclusive,
                Present, Replica, LockFree, vars, registry, scaling, objects, watching,
                clients, machine
  <2>2. CASE Next
    BY <2>2, WatchConsistent, LeaseConsistent, PoolConsistent DEF Next
  <2> QED BY <2>1, <2>2
<1> QED BY <1>1, <1>2, PTL DEF Spec

(* Every reachable state of the pool is well typed.                            *)
THEOREM PoolTypeCorrect == Spec => []TypeOK
<1>1. PoolInv => TypeOK
  BY DEF PoolInv
<1> QED BY <1>1, PoolInvariant, PTL

(* No replica ever serves two requests, across replacements, hard stops,       *)
(* scaling, stops and crashes.                                                 *)
THEOREM NoReplicaIsShared == Spec => []LeasesAreExclusive
<1>1. PoolInv => LeasesAreExclusive
  BY DEF PoolInv
<1> QED BY <1>1, PoolInvariant, PTL

(* Whatever process runs has an owner record on disk: every step that removes  *)
(* the record has ended the process.                                           *)
THEOREM EveryProcessIsOwned == Spec => []NoLostProcess
<1>1. Init => NoLostProcess
  BY DEF Init, NoLostProcess
<1>2. NoLostProcess /\ [Next]_vars => NoLostProcess'
  <2> SUFFICES ASSUME NoLostProcess, [Next]_vars PROVE NoLostProcess'
    OBVIOUS
  <2> USE DEF NoLostProcess, machine
  <2>1. CASE UNCHANGED vars
    BY <2>1 DEF vars
  <2>2. ASSUME NEW w \in Workers, WatchStep(w) PROVE NoLostProcess'
    BY <2>2 DEF WatchStep, Probe, ProbeSucceeds, ProbeFails, NoticeExit, Quarantine, CleanUp,
                Reaped, ReapFails, Overtaken, Replace, ReplaceFails, LaunchFails
  <2>3. ASSUME NEW q \in Requests, LeaseStep(q) PROVE NoLostProcess'
    BY <2>3 DEF LeaseStep, Wait, Refuse, Release, HardStop, HardStopEnds, Lease
  <2>4. CASE Start \/ StopAll \/ Crash
    BY <2>4 DEF Start, StopAll, Crash
  <2>5. ASSUME NEW i \in Ids, ScaleStep(i) \/ HealthFails(i) PROVE NoLostProcess'
    BY <2>5 DEF ScaleStep, HealthFails, Retire, Reaped, ReapFails, StartNext, StartNextFails,
                LaunchFails
  <2>6. ASSUME NEW w \in Workers, Die(w) PROVE NoLostProcess'
    BY <2>6 DEF Die
  <2>7. ASSUME NEW count \in Counts, EnsureReplicas(count) PROVE NoLostProcess'
    BY <2>7 DEF EnsureReplicas
  <2> QED BY <2>1, <2>2, <2>3, <2>4, <2>5, <2>6, <2>7 DEF Next
<1> QED BY <1>1, <1>2, PTL DEF Spec

(* No registered Worker is replaced or dropped while its process runs.         *)
THEOREM OnlyDeadWorkersAreReplaced == Spec => OnlyTheDeadAreReplaced
<1> DEFINE Step == \A i \in Ids :
                     replicas[i] # 0 /\ replicas'[i] # replicas[i] /\ crashes' = crashes
                       => Replica(i) \notin alive'
<1>1. PoolInv /\ [Next]_vars => [Step]_vars
  <2> SUFFICES ASSUME PoolInv, Next, NEW i \in Ids,
                      replicas[i] # 0, replicas'[i] # replicas[i], crashes' = crashes
               PROVE  Replica(i) \notin alive'
    OBVIOUS
  <2> USE DEF registry, machine
  <2>0. TypeOK /\ i \in Present
    BY DEF PoolInv, Present
  <2>1. ASSUME NEW w \in Workers, WatchStep(w) PROVE Replica(i) \notin alive'
    <3>0. w[1] \in Ids /\ w = <<w[1], w[2]>>
      BY WorkerParts
    <3>1. CASE CleanUp(w)
      BY <2>0, <3>0, <3>1 DEF CleanUp, Reaped, Registered, Replica, TypeOK
    <3>2. CASE Replace(w)
      BY <2>0, <3>0, <3>2, LaunchRegisters DEF Replace
    <3> QED BY <2>1, <3>1, <3>2
            DEF WatchStep, Probe, ProbeSucceeds, ProbeFails, NoticeExit, Quarantine, Overtaken,
                ReplaceFails
  <2>2. ASSUME NEW q \in Requests, LeaseStep(q) PROVE FALSE
    BY <2>2 DEF LeaseStep, Wait, Refuse, Release, HardStop, HardStopEnds, Lease
  <2>3. CASE Start
    <3>1. ~launched
      BY <2>3 DEF Start
    <3> QED BY <2>0, <3>1 DEF PoolInv, Consistent
  <2>4. CASE StopAll
    BY <2>0, <2>4 DEF StopAll
  <2>5. CASE Crash
    BY <2>0, <2>5 DEF Crash, TypeOK
  <2>6. ASSUME NEW k \in Ids, ScaleStep(k) \/ HealthFails(k) PROVE Replica(i) \notin alive'
    <3>1. CASE Retire(k)
      BY <2>0, <3>1 DEF Retire, Reaped, Replica, TypeOK
    <3>2. CASE StartNext(k)
      BY <2>0, <3>2, LaunchRegisters DEF StartNext, Occupied
    <3> QED BY <2>6, <3>1, <3>2 DEF ScaleStep, HealthFails, StartNextFails
  <2>7. ASSUME NEW w \in Workers, Die(w) PROVE FALSE
    BY <2>7 DEF Die
  <2>8. ASSUME NEW count \in Counts, EnsureReplicas(count) PROVE FALSE
    BY <2>8 DEF EnsureReplicas
  <2> QED BY <2>1, <2>2, <2>3, <2>4, <2>5, <2>6, <2>7, <2>8 DEF Next
<1> QED BY <1>1, PoolInvariant, PTL DEF Spec, OnlyTheDeadAreReplaced
=============================================================================
