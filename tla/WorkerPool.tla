----------------------------- MODULE WorkerPool -----------------------------
(***************************************************************************)
(* WorkerSupervisor and the leases it grants: the replicas of one engine,  *)
(* their processes and watch tasks, scaling, hard stop, planned stop, and  *)
(* the owner records that let a later Core find the processes of a crashed *)
(* one.                                                                    *)
(*                                                                         *)
(* A Worker is <<i, n>>, the n-th launch of replica i: the WorkerProcess   *)
(* object outlives its place in the registry, and a replacement is another *)
(* Worker.  Every change of the registry holds _lifecycle_lock.  A section *)
(* of the lock is one step, but for ensure_replicas, which awaits once for *)
(* each replica: LockFree is false in between.  Processes, watch tasks and *)
(* health calls do not wait for the lock.                                  *)
(***************************************************************************)
EXTENDS Naturals, FiniteSets, FiniteSetsExt

CONSTANTS
  Size,          \* replica ids are 0 .. Size - 1
  Requests,      \* operations that ask for a lease, one each
  NoWorker,      \* no Worker
  Counts,        \* the replica counts that ensure_replicas is asked for
  MaxAttempts,   \* _RESTART_MAX_ATTEMPTS, 3 in the code
  MaxLaunches,   \* bound on the launches of one replica
  MaxSpawns,     \* bound on the launches of all replicas
  MaxCrashes,    \* bound on crashes of Core
  CleanupFaults, \* whether ending a process, or removing its files, may fail
  HealthCalls    \* whether routes ask for health besides the watch tasks

Ids     == 0 .. Size - 1
Workers == Ids \X (1 .. MaxLaunches)

ASSUME WorkerPoolAssumption ==
  /\ Size \in 1 .. 8
  /\ NoWorker \notin Workers
  /\ Counts \subseteq 1 .. Size
  /\ MaxAttempts \in Nat \ {0}
  /\ MaxLaunches \in Nat \ {0} /\ MaxSpawns \in Nat
  /\ MaxCrashes \in Nat
  /\ CleanupFaults \in BOOLEAN /\ HealthCalls \in BOOLEAN

VARIABLES
  (* the supervisor *)
  replicas,     \* _replicas: launch registered for each id, 0 for none
  canonical,    \* _workers[engine]
  launched,     \* whether _launches has the engine
  blamed,       \* the Worker that a not-ready _replica_status of each id speaks of,
                \* NoWorker when the status is ready or missing
  diagnostic,   \* status in _startup_diagnostics[engine]
  stopping,     \* _stopping
  leased,       \* ids in _leased_engines
  retiring,     \* ids ensure_replicas has still to retire
  starting,     \* ids ensure_replicas has still to start
  (* the Workers *)
  quarantined,  \* Workers with quarantined = True
  terminated,   \* Workers with terminated = True
  watch,        \* where the watch task of each Worker is
  attempt,      \* consecutive_attempt of that task
  (* the requests *)
  request,      \* where each request is
  holds,        \* the Worker it holds
  (* the machine *)
  alive,        \* Workers whose process group runs
  owned,        \* Workers with an owner record below run/
  launches,     \* launches of each id so far
  crashes

registry == <<replicas, canonical, launched>>
scaling  == <<retiring, starting>>
objects  == <<quarantined, terminated>>
watching == <<watch, attempt>>
clients  == <<request, holds>>
machine  == <<alive, owned, launches, crashes>>
vars == <<registry, blamed, diagnostic, stopping, leased, scaling, objects,
          watching, clients, machine>>

WatchStates   == {"none", "watching", "probing", "noticed", "cleaning", "backoff"}
RequestStates == {"idle", "asleep", "woken", "holding", "stopping", "done"}

Registered(w) == replicas[w[1]] = w[2]
Present       == {i \in Ids : replicas[i] # 0}
Replica(i)    == <<i, replicas[i]>>
LockFree      == retiring = {} /\ starting = {}

\* The process comes up with nothing but what an earlier Core left on disk.
Volatile ==
  /\ replicas' = [i \in Ids |-> 0]
  /\ canonical' = NoWorker
  /\ launched' = FALSE
  /\ blamed' = [i \in Ids |-> NoWorker]
  /\ diagnostic' = "none"
  /\ stopping' = FALSE
  /\ leased' = {}
  /\ retiring' = {} /\ starting' = {}
  /\ quarantined' = {} /\ terminated' = {}
  /\ watch' = [w \in Workers |-> "none"]
  /\ attempt' = [w \in Workers |-> 0]
  /\ request' = [q \in Requests |-> "idle"]
  /\ holds' = [q \in Requests |-> NoWorker]

Init ==
  /\ replicas = [i \in Ids |-> 0]
  /\ canonical = NoWorker
  /\ launched = FALSE
  /\ blamed = [i \in Ids |-> NoWorker]
  /\ diagnostic = "none"
  /\ stopping = FALSE
  /\ leased = {}
  /\ retiring = {} /\ starting = {}
  /\ quarantined = {} /\ terminated = {}
  /\ watch = [w \in Workers |-> "none"]
  /\ attempt = [w \in Workers |-> 0]
  /\ request = [q \in Requests |-> "idle"]
  /\ holds = [q \in Requests |-> NoWorker]
  /\ alive = {} /\ owned = {}
  /\ launches = [i \in Ids |-> 0]
  /\ crashes = 0
-----------------------------------------------------------------------------
(* Admission. *)

Healthy == {i \in Present : Replica(i) \notin quarantined /\ blamed[i] = NoWorker}

\* Seeded fault: a replica that another request holds is admissible.
AdmissibleShared == Healthy

Admissible == Healthy \ leased

\* No healthy replica, and no replacement under way.
Unavailable ==
  /\ Healthy = {}
  /\ diagnostic # "restarting"
  /\ Present = {} \/ diagnostic = "failed"

\* Seeded fault: a change of capacity is not announced.
WokenNobody == request

\* _capacity_changed.notify_all
Woken == [q \in Requests |-> IF request[q] = "asleep" THEN "woken" ELSE request[q]]

\* Request q goes on at s, and every waiter looks again.
WakeAnd(q, s) == request' = [Woken EXCEPT ![q] = s]
-----------------------------------------------------------------------------
(* _start_locked. *)

MayLaunch(i) ==
  launches[i] < MaxLaunches /\ MapThenSumSet(LAMBDA k : launches[k], Ids) < MaxSpawns

Spawned(i) == <<i, launches[i] + 1>>

\* The supervisor's side of a launch; the caller starts the watch task.
Launch(i) ==
  /\ MayLaunch(i)
  /\ launches' = [launches EXCEPT ![i] = @ + 1]
  /\ replicas' = [replicas EXCEPT ![i] = launches[i] + 1]
  /\ canonical' = IF canonical = NoWorker THEN Spawned(i) ELSE canonical
  /\ launched' = TRUE
  /\ blamed' = [blamed EXCEPT ![i] = NoWorker]
  /\ diagnostic' = "ready"
  /\ request' = Woken

\* A failed launch ends what it spawned, or leaves it with its owner record.
LaunchFails(i) ==
  \/ UNCHANGED <<alive, owned, launches>>
  \/ /\ CleanupFaults
     /\ MayLaunch(i)
     /\ launches' = [launches EXCEPT ![i] = @ + 1]
     /\ alive' = alive \cup {Spawned(i)}
     /\ owned' = owned \cup {Spawned(i)}

\* Seeded fault: the exit of the process group is assumed, not verified.
ReapedUnverified(w) ==
  /\ alive' \in {alive, alive \ {w}} /\ owned' = owned \ {w}
  /\ quarantined' = quarantined \ {w} /\ terminated' = terminated \ {w}

\* What the end of a process and the removal of its files leave.  The Worker
\* leaves the registry with them, and its flags are read through the registry
\* alone, so they are forgotten.
Reaped(w) ==
  /\ alive' = alive \ {w} /\ owned' = owned \ {w}
  /\ quarantined' = quarantined \ {w} /\ terminated' = terminated \ {w}

ReapFails(w) ==
  /\ CleanupFaults
  /\ \/ UNCHANGED <<alive, owned, terminated>>
     \/ alive' = alive \ {w} /\ terminated' = terminated \cup {w} /\ UNCHANGED owned
  /\ UNCHANGED quarantined
-----------------------------------------------------------------------------
(* start, once in the life of a Core process: it ends the Workers an earlier  *)
(* Core left behind, as far as their owner records can be verified.           *)

Start ==
  /\ LockFree /\ ~launched /\ ~stopping /\ diagnostic = "none"
  /\ \E kept \in SUBSET owned :
       /\ kept # {} => CleanupFaults
       /\ \/ /\ Launch(0)
             /\ watch' = [watch EXCEPT ![Spawned(0)] = "watching"]
             /\ alive' = (alive \cap kept) \cup {Spawned(0)}
             /\ owned' = kept \cup {Spawned(0)}
          \/ /\ alive' = alive \cap kept
             /\ owned' = kept
             /\ diagnostic' = "failed"
             /\ UNCHANGED <<registry, blamed, watch, request, launches>>
  /\ UNCHANGED <<stopping, leased, scaling, objects, attempt, holds, crashes>>
-----------------------------------------------------------------------------
(* _watch_worker. *)

\* The process did not exit within the interval: the task asks for its health,
\* unless a status that is not ready answers already.
Probe(w) ==
  /\ watch[w] = "watching" /\ w \in alive
  /\ watch' = [watch EXCEPT ![w] = IF blamed[w[1]] = NoWorker THEN "probing" ELSE "noticed"]
  /\ UNCHANGED <<registry, blamed, diagnostic, stopping, leased, scaling, objects,
                 attempt, clients, machine>>

ProbeSucceeds(w) ==
  /\ LockFree /\ watch[w] = "probing" /\ w \in alive
  /\ IF Registered(w) /\ w \notin quarantined
     THEN /\ watch' = [watch EXCEPT ![w] = "watching"]
          /\ blamed' = [blamed EXCEPT ![w[1]] = NoWorker]
     ELSE /\ watch' = [watch EXCEPT ![w] = "noticed"]
          /\ UNCHANGED blamed
  /\ UNCHANGED <<registry, diagnostic, stopping, leased, scaling, objects,
                 attempt, clients, machine>>

\* The call raises: the result is stored under the replica id, whoever has it.
ProbeFails(w) ==
  /\ LockFree /\ watch[w] = "probing"
  /\ watch' = [watch EXCEPT ![w] = "noticed"]
  /\ blamed' = [blamed EXCEPT ![w[1]] = w]
  /\ UNCHANGED <<registry, diagnostic, stopping, leased, scaling, objects,
                 attempt, clients, machine>>

NoticeExit(w) ==
  /\ watch[w] = "watching" /\ w \notin alive
  /\ watch' = [watch EXCEPT ![w] = "noticed"]
  /\ UNCHANGED <<registry, blamed, diagnostic, stopping, leased, scaling, objects,
                 attempt, clients, machine>>

Quarantine(w) ==
  /\ LockFree /\ watch[w] = "noticed"
  /\ IF stopping \/ ~Registered(w)
     THEN /\ watch' = [watch EXCEPT ![w] = "none"]
          /\ UNCHANGED <<blamed, diagnostic, quarantined>>
     ELSE /\ watch' = [watch EXCEPT ![w] = "cleaning"]
          /\ blamed' = [blamed EXCEPT ![w[1]] = w]
          /\ diagnostic' = "restarting"
          /\ quarantined' = quarantined \cup {w}
  /\ UNCHANGED <<registry, stopping, leased, scaling, terminated, attempt,
                 clients, machine>>

\* The canonical Worker once those in gone have left the registry.
CanonicalWithout(gone) ==
  LET left == {Replica(i) : i \in Present} \ gone IN
  IF canonical \notin gone THEN canonical' = canonical
  ELSE canonical' \in (IF left = {} THEN {NoWorker} ELSE left)

CleanUp(w) ==
  /\ LockFree /\ watch[w] = "cleaning"
  /\ \/ /\ Reaped(w)
        /\ IF Registered(w)
           THEN /\ watch' = [watch EXCEPT ![w] = "backoff"]
                /\ attempt' = [attempt EXCEPT ![w] = 1]
                /\ replicas' = [replicas EXCEPT ![w[1]] = 0]
                /\ CanonicalWithout({w})
           ELSE /\ watch' = [watch EXCEPT ![w] = "none"]
                /\ UNCHANGED <<attempt, replicas, canonical>>
        /\ UNCHANGED <<diagnostic, request>>
     \/ /\ ReapFails(w)
        /\ watch' = [watch EXCEPT ![w] = "none"]
        /\ diagnostic' = "failed"
        /\ request' = Woken
        /\ UNCHANGED <<attempt, replicas, canonical>>
  /\ UNCHANGED <<launched, blamed, stopping, leased, scaling, holds, launches, crashes>>

\* Another start of the id, by ensure_replicas, ends the replacement.
Overtaken(w) ==
  /\ LockFree /\ watch[w] = "backoff"
  /\ stopping \/ replicas[w[1]] # 0
  /\ watch' = [watch EXCEPT ![w] = "none"]
  /\ attempt' = [attempt EXCEPT ![w] = 0]
  /\ UNCHANGED <<registry, blamed, diagnostic, stopping, leased, scaling, objects,
                 clients, machine>>

Replace(w) ==
  /\ LockFree /\ watch[w] = "backoff"
  /\ ~stopping /\ replicas[w[1]] = 0
  /\ Launch(w[1])
  /\ watch' = [watch EXCEPT ![w] = "none", ![Spawned(w[1])] = "watching"]
  /\ attempt' = [attempt EXCEPT ![w] = 0]
  /\ alive' = alive \cup {Spawned(w[1])}
  /\ owned' = owned \cup {Spawned(w[1])}
  /\ UNCHANGED <<stopping, leased, scaling, objects, holds, crashes>>

\* Seeded fault: one attempt too many.
LastAttemptLate(w) == attempt[w] > MaxAttempts

LastAttempt(w) == attempt[w] = MaxAttempts

NextDiagnostic(w) == IF LastAttempt(w) THEN "failed" ELSE "restarting"

ReplaceFails(w) ==
  /\ LockFree /\ watch[w] = "backoff"
  /\ ~stopping /\ replicas[w[1]] = 0
  /\ LaunchFails(w[1])
  /\ diagnostic' = NextDiagnostic(w)
  /\ watch' = [watch EXCEPT ![w] = IF LastAttempt(w) THEN "none" ELSE "backoff"]
  /\ attempt' = [attempt EXCEPT ![w] = IF LastAttempt(w) THEN 0 ELSE @ + 1]
  /\ request' = Woken
  /\ UNCHANGED <<registry, blamed, stopping, leased, scaling, objects, holds,
                 crashes>>
-----------------------------------------------------------------------------
(* ensure_replicas: retire the highest ids, or start ids from len(existing) on. *)

\* top holds the n highest ids.
Highest(top, n) == Cardinality(top) = n /\ \A i \in top, k \in Present \ top : i > k

\* Only the routes and the start of Core ask for it, and stop_all comes after
\* the last of them.
EnsureReplicas(count) ==
  /\ LockFree /\ launched /\ ~stopping
  /\ LET existing == Cardinality(Present) IN
     \/ /\ existing > count
        /\ \E top \in SUBSET Present :
             /\ Highest(top, existing - count)
             /\ top \cap leased = {}
             /\ retiring' = top
        /\ UNCHANGED starting
     \/ /\ existing < count
        /\ starting' = existing .. count - 1
        /\ UNCHANGED retiring
  /\ UNCHANGED <<registry, blamed, diagnostic, stopping, leased, objects,
                 watching, clients, machine>>

\* Closing the channel cancels a health call in flight, and its watch task
\* with it.  A failed retirement gives up the others.
Retire(i) ==
  /\ i \in retiring /\ \A k \in retiring : k <= i
  /\ LET w == Replica(i) IN
     /\ watch' \in {watch, [watch EXCEPT ![w] = IF @ = "probing" THEN "none" ELSE @]}
     /\ \/ /\ Reaped(w)
           /\ replicas' = [replicas EXCEPT ![i] = 0]
           /\ retiring' = retiring \ {i}
           /\ LET existing == {Replica(k) : k \in Present \ {i}} IN
              canonical' \in (IF retiring # {i} \/ canonical \in existing
                             THEN {canonical} ELSE existing)
        \/ /\ ReapFails(w)
           /\ retiring' = {}
           /\ UNCHANGED <<replicas, canonical>>
  /\ UNCHANGED <<launched, blamed, diagnostic, stopping, leased, starting, attempt,
                 clients, launches, crashes>>

Occupied(i) == replicas[i] # 0

StartNext(i) ==
  /\ i \in starting /\ \A k \in starting : i <= k
  /\ ~Occupied(i)
  /\ Launch(i)
  /\ watch' = [watch EXCEPT ![Spawned(i)] = "watching"]
  /\ alive' = alive \cup {Spawned(i)}
  /\ owned' = owned \cup {Spawned(i)}
  /\ starting' = starting \ {i}
  /\ UNCHANGED <<stopping, leased, retiring, objects, attempt, holds, crashes>>

\* The launch fails, or the id is taken: the ids after it are not started.
StartNextFails(i) ==
  /\ i \in starting /\ \A k \in starting : i <= k
  /\ \/ Occupied(i) /\ UNCHANGED <<alive, owned, launches>>
     \/ ~Occupied(i) /\ LaunchFails(i)
  /\ starting' = {}
  /\ diagnostic' = "failed"
  /\ UNCHANGED <<registry, blamed, stopping, leased, retiring, objects, watching,
                 clients, crashes>>
-----------------------------------------------------------------------------
(* acquire, and the life of a lease. *)

\* Requests that look for a replica: new ones, and waiters that were woken.
Looking(q) == request[q] \in {"idle", "woken"}

Lease(q, i) ==
  /\ LockFree /\ Looking(q)
  /\ i \in Admissible /\ canonical # NoWorker
  /\ leased' = leased \cup {i}
  /\ holds' = [holds EXCEPT ![q] = Replica(i)]
  /\ request' = [request EXCEPT ![q] = "holding"]
  /\ UNCHANGED <<registry, blamed, diagnostic, stopping, scaling, objects,
                 watching, machine>>

Wait(q) ==
  /\ LockFree /\ Looking(q)
  /\ Admissible = {} /\ ~stopping /\ ~Unavailable
  /\ request' = [request EXCEPT ![q] = "asleep"]
  /\ UNCHANGED <<registry, blamed, diagnostic, stopping, leased, scaling, objects,
                 watching, holds, machine>>

Refuse(q) ==
  /\ LockFree /\ Looking(q)
  /\ \/ Admissible = {} /\ (stopping \/ Unavailable)
     \/ Admissible # {} /\ canonical = NoWorker
  /\ request' = [request EXCEPT ![q] = "done"]
  /\ UNCHANGED <<registry, blamed, diagnostic, stopping, leased, scaling, objects,
                 watching, holds, machine>>

Release(q) ==
  /\ LockFree /\ request[q] = "holding"
  /\ leased' = leased \ {holds[q][1]}
  /\ holds' = [holds EXCEPT ![q] = NoWorker]
  /\ WakeAnd(q, "done")
  /\ UNCHANGED <<registry, blamed, diagnostic, stopping, scaling, objects,
                 watching, machine>>

\* To cancel a stream that does not drain, and when an unload is refused: a
\* holder may ask again after a hard stop that failed.
HardStop(q) ==
  LET w == holds[q] IN
  /\ LockFree /\ request[q] = "holding"
  /\ w \notin terminated /\ Registered(w)
  /\ WakeAnd(q, "stopping")
  /\ quarantined' = quarantined \cup {w}
  /\ blamed' = [blamed EXCEPT ![w[1]] = w]
  /\ watch' = [watch EXCEPT ![w] = "none"]
  /\ diagnostic' = "restarting"
  /\ UNCHANGED <<registry, stopping, leased, scaling, terminated, attempt, holds, machine>>

WatchAgain(w) == ~stopping /\ Registered(w)

HardStopEnds(q) ==
  LET w == holds[q] IN
  /\ LockFree /\ request[q] = "stopping"
  /\ WakeAnd(q, "holding")
  /\ \/ /\ IF w \in terminated \/ ~Registered(w) THEN UNCHANGED <<alive, owned, terminated>>
           ELSE alive' = alive \ {w} /\ terminated' = terminated \cup {w} /\ UNCHANGED owned
        /\ watch' = [watch EXCEPT ![w] = IF WatchAgain(w) THEN "watching" ELSE "none"]
        /\ diagnostic' = IF WatchAgain(w) THEN "restarting" ELSE diagnostic
     \/ /\ CleanupFaults /\ w \notin terminated
        /\ diagnostic' = IF Registered(w) THEN "failed" ELSE diagnostic
        /\ UNCHANGED <<alive, owned, terminated, watch>>
  /\ UNCHANGED <<registry, blamed, stopping, leased, scaling, quarantined, attempt, holds,
                 launches, crashes>>
-----------------------------------------------------------------------------
(* stop_all and the machine. *)

\* Every watch task is cancelled and every Worker ended at once; the leases of
\* the engine are dropped with the first Worker that is proved to have ended.
StopAll ==
  LET workers == {Replica(i) : i \in Present} IN
  /\ LockFree /\ (~stopping \/ workers # {})
  /\ stopping' = TRUE
  /\ watch' = [w \in Workers |-> "none"]
  /\ request' = Woken
  /\ \E kept \in SUBSET workers :
       LET ended == workers \ kept IN
       /\ kept # {} => CleanupFaults
       /\ alive' = alive \ ended
       /\ owned' = owned \ ended
       /\ terminated' = terminated \ ended
       /\ quarantined' = (quarantined \ ended) \cup kept
       /\ replicas' = [i \in Ids |-> IF Replica(i) \in ended THEN 0 ELSE replicas[i]]
       /\ leased' = IF ended = {} THEN leased ELSE {}
       /\ CanonicalWithout(ended)
       /\ launched' = (launched /\ (ended = {} \/ kept # {}))
  /\ blamed' = [i \in Ids |-> NoWorker]
  /\ UNCHANGED <<diagnostic, scaling, attempt, holds, launches, crashes>>

Die(w) ==
  /\ w \in alive
  /\ alive' = alive \ {w}
  /\ UNCHANGED <<registry, blamed, diagnostic, stopping, leased, scaling, objects,
                 watching, clients, owned, launches, crashes>>

\* health, asked for by a route: a failed call is stored like a watcher's, and an
\* answer like the one of a watcher.
HealthFails(i) ==
  /\ HealthCalls
  /\ LockFree /\ replicas[i] # 0 /\ blamed[i] = NoWorker
  /\ blamed' = [blamed EXCEPT ![i] = Replica(i)]
  /\ UNCHANGED <<registry, diagnostic, stopping, leased, scaling, objects, watching,
                 clients, machine>>

\* Core crashes, also while it launches, or exits: its Workers run on.
Crash ==
  /\ crashes < MaxCrashes
  /\ crashes' = crashes + 1
  /\ Volatile
  /\ \/ UNCHANGED <<alive, owned, launches>>
     \/ \E i \in Ids :
          /\ MayLaunch(i) /\ replicas[i] = 0
          /\ launches' = [launches EXCEPT ![i] = @ + 1]
          /\ alive' = alive \cup {Spawned(i)}
          /\ owned' = owned \cup {Spawned(i)}
-----------------------------------------------------------------------------
WatchStep(w) ==
  \/ Probe(w) \/ ProbeSucceeds(w) \/ ProbeFails(w) \/ NoticeExit(w)
  \/ Quarantine(w) \/ CleanUp(w) \/ Overtaken(w) \/ Replace(w) \/ ReplaceFails(w)

LeaseStep(q) ==
  \/ Wait(q) \/ Refuse(q) \/ Release(q) \/ HardStop(q) \/ HardStopEnds(q)
  \/ \E i \in Ids : Lease(q, i)

ScaleStep(i) == Retire(i) \/ StartNext(i) \/ StartNextFails(i)

Next ==
  \/ Start \/ StopAll \/ Crash
  \/ \E w \in Workers : WatchStep(w) \/ Die(w)
  \/ \E q \in Requests : LeaseStep(q)
  \/ \E count \in Counts : EnsureReplicas(count)
  \/ \E i \in Ids : ScaleStep(i) \/ HealthFails(i)

Spec == Init /\ [][Next]_vars

\* The lock is first come, first served, so a step that needs it again and again
\* gets it (SF).  A watch task is one sequential process; health calls and the
\* ends of processes have deadlines, a launch comes up or times out, and a
\* holder finishes what it does: it asks for at most two hard stops.
Fairness ==
  /\ SF_vars(Start)
  /\ \A w \in Workers : SF_vars(WatchStep(w))
  /\ \A q \in Requests :
       /\ SF_vars(request[q] = "woken" /\ LeaseStep(q))
       /\ SF_vars(HardStopEnds(q))
       /\ SF_vars(Release(q))
  /\ \A i \in Ids : WF_vars(ScaleStep(i))

FairSpec == Spec /\ Fairness
-----------------------------------------------------------------------------
TypeOK ==
  /\ replicas \in [Ids -> 0 .. MaxLaunches]
  /\ canonical \in Workers \cup {NoWorker}
  /\ launched \in BOOLEAN /\ stopping \in BOOLEAN
  /\ blamed \in [Ids -> Workers \cup {NoWorker}]
  /\ diagnostic \in {"none", "ready", "restarting", "failed"}
  /\ leased \subseteq Ids /\ retiring \subseteq Ids /\ starting \subseteq Ids
  /\ quarantined \subseteq Workers /\ terminated \subseteq Workers
  /\ watch \in [Workers -> WatchStates] /\ attempt \in [Workers -> 0 .. MaxAttempts]
  /\ request \in [Requests -> RequestStates]
  /\ holds \in [Requests -> Workers \cup {NoWorker}]
  /\ alive \subseteq Workers /\ owned \subseteq Workers
  /\ launches \in [Ids -> 0 .. MaxLaunches]
  /\ crashes \in 0 .. MaxCrashes

(* Two requests never use the same replica, not even across a replacement of   *)
(* its Worker, and a replica in use stays leased until its holder lets go or   *)
(* Core stops.                                                                 *)
LeasesAreExclusive ==
  \A q \in Requests : holds[q] # NoWorker =>
    /\ stopping \/ holds[q][1] \in leased
    /\ \A p \in Requests \ {q} : holds[p] # NoWorker => holds[p][1] # holds[q][1]

(* Every process Core started and has not seen end has an owner record on      *)
(* disk, through failed launches, failed cleanups and crashes.                 *)
NoLostProcess == alive \subseteq owned

(* A replica loses its Worker only once its process is proved to have ended,   *)
(* unless Core itself is gone.                                                 *)
OnlyTheDeadAreReplaced ==
  [][\A i \in Ids : replicas[i] # 0 /\ replicas'[i] # replicas[i] /\ crashes' = crashes
       => Replica(i) \notin alive']_vars

(* A replica is called unhealthy for what its own Worker did: the status that  *)
(* keeps it from admission, and makes its watch task end it, speaks of the     *)
(* Worker that has the id now.                                                 *)
StatusSpeaksOfTheReplica ==
  \A i \in Present : blamed[i] \in {NoWorker, Replica(i)}

(* A request that waits is answered: with a lease or with a refusal.           *)
WaiterIsAnswered == \A q \in Requests : request[q] = "asleep" ~> request[q] # "asleep"
=============================================================================
