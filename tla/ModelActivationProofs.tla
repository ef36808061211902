------------------------ MODULE ModelActivationProofs ------------------------
(***************************************************************************)
(* Theorems about ModelActivation, for every number of downloads,          *)
(* repositories, jobs and crashes, with storage faults.  Of the queue of   *)
(* the supervisor's lock they say only what may be in it: its order        *)
(* matters for liveness, which is left to TLC.                             *)
(***************************************************************************)
EXTENDS ModelActivation, TLAPS

Typed ==
  /\ dstate \in [Downloads -> {"absent"} \cup Active \cup Terminal]
  /\ dcancel \subseteq Downloads /\ installed \subseteq Downloads
  /\ modelDir \subseteq Downloads
  /\ repo \in [Downloads -> Repos \cup {NoRepo}]
  /\ core \in Stages
  /\ pc \in [Downloads -> Awaits \cup Sync]
  /\ remover \in [Downloads -> Awaits \cup Sync]
  /\ previous \in [Downloads -> Downloads \cup {NoModel}]
  /\ gen \in [Jobs -> {"absent", "asking", "live", "over"}]
  /\ pin \in [Jobs -> Downloads \cup {NoModel}]
  /\ holding \subseteq Jobs

(* While Core serves, a job in progress has a task and the reverse; before it  *)
(* serves there are no tasks and no leases.                                    *)
TasksMatchJobs ==
  /\ core = "up" => \A d \in Downloads :
       /\ dstate[d] \in Active <=> pc[d] \notin {"none", "discard"}
       /\ dstate[d] = "queued" => pc[d] = "start"
  /\ core # "up" =>
       /\ \A d \in Downloads : pc[d] = "none" /\ remover[d] = "none"
       /\ holding = {}

(* Each stage of recovery leaves behind what the next ones rely on.            *)
RecoveryInOrder ==
  /\ core \in {"sweeping", "pruning"} => \A d \in Downloads : dstate[d] \notin Active
  /\ core = "pruning" => staging \cup retired = {}

(* Whatever is listed, about to be removed or pinned has completed.            *)
ModelsAreCompleted ==
  \A d \in Downloads :
    /\ d \in installed => dstate[d] = "completed"
    /\ remover[d] # "none" => dstate[d] = "completed"
    /\ pc[d] = "discard" => dstate[d] = "completed"
    /\ \A j \in Jobs : pin[j] = d => dstate[d] = "completed"

(* The installation a download replaces has completed, and is of its           *)
(* repository; it is known once the activation has begun.                      *)
PreviousIsOld ==
  \A d \in Downloads :
    /\ pc[d] \in {"none", "start", "stream", "lock"} => previous[d] = NoModel
    /\ previous[d] # NoModel =>
         dstate[previous[d]] = "completed" /\ repo[previous[d]] = repo[d]

(* The files of a new model are in place before its row, and those of an old   *)
(* one go after its row.                                                       *)
FilesFollowRows ==
  /\ installed \subseteq modelDir \cup retired
  /\ \A d \in Downloads :
       /\ pc[d] = "commit" => d \in modelDir
       /\ pc[d] = "discard" => previous[d] \notin installed
       /\ remover[d] = "discard" => d \notin installed

(* A cancelled download does no more than unwind.                              *)
CancelledAreQuiet ==
  \A d \in dcancel : pc[d] \in {"none", "unwind"} /\ dstate[d] \notin {"absent", "completed"}

(* From the unload of a model to the end of its directory no lease is held.    *)
UnloadedAreUnleased ==
  \A d \in Downloads :
    \/ pc[d] \in (Sync \ {"unwind"}) \cup {"rpc"} /\ previous[d] # NoModel
    \/ remover[d] \in Sync \cup {"rpc"}
    => holding = {}

ModelInv ==
  /\ Typed /\ TasksMatchJobs /\ ModelsAreCompleted /\ PreviousIsOld
  /\ FilesFollowRows /\ CancelledAreQuiet /\ UnloadedAreUnleased /\ RecoveryInOrder

USE DEF Active, Terminal, Awaits, Sync, Stages
-----------------------------------------------------------------------------
(* No row, no directory, no task.                                              *)
THEOREM InitModelInv == Init => ModelInv
BY ModelAssumption
   DEF Init, ModelInv, Typed, TasksMatchJobs, ModelsAreCompleted, PreviousIsOld,
       FilesFollowRows, CancelledAreQuiet, UnloadedAreUnleased, RecoveryInOrder

(* A step of a download, a failing one included.                               *)
LEMMA DownloadInv ==
  ASSUME ModelInv, NEW d \in Downloads, DownloadStep(d) PROVE ModelInv'
<1> USE ModelAssumption
    DEF table, dirs, generate, lock, bounds, Goto, Ended, ModelInv, Typed,
        TasksMatchJobs, ModelsAreCompleted, PreviousIsOld, FilesFollowRows,
        CancelledAreQuiet, UnloadedAreUnleased, RecoveryInOrder
<1>1. CASE Begin(d)
  BY <1>1 DEF Begin
<1>2. CASE Verify(d)
  BY <1>2 DEF Verify
<1>3. CASE Activate(d)
  BY <1>3 DEF Activate, PreviousOf
<1>4. CASE CallUnload(d)
  BY <1>4 DEF CallUnload, Unleased
<1>5. CASE Unloaded(d)
  BY <1>5 DEF Unloaded
<1>6. CASE Promote(d)
  BY <1>6 DEF Promote
<1>7. CASE Rename(d)
  BY <1>7 DEF Rename
<1>8. CASE Commit(d)
  BY <1>8 DEF Commit, Replacing, PreviousOf
<1>9. CASE Discard(d)
  BY <1>9 DEF Discard
<1>10. CASE Unwind(d)
  BY <1>10 DEF Unwind
<1>11. CASE Fail(d)
  BY <1>11 DEF Fail
<1> QED BY <1>1, <1>2, <1>3, <1>4, <1>5, <1>6, <1>7, <1>8, <1>9, <1>10, <1>11
        DEF DownloadStep

(* A step of a removal.                                                        *)
LEMMA RemovalInv ==
  ASSUME ModelInv, NEW m \in Downloads, RemovalStep(m) PROVE ModelInv'
<1> USE ModelAssumption
    DEF table, dirs, generate, lock, bounds, Removal, ModelInv, Typed,
        TasksMatchJobs, ModelsAreCompleted, PreviousIsOld, FilesFollowRows,
        CancelledAreQuiet, UnloadedAreUnleased, RecoveryInOrder
<1>1. CASE CallRemoveUnload(m)
  BY <1>1 DEF CallRemoveUnload, Unleased
<1>2. CASE RemoveUnloaded(m)
  BY <1>2 DEF RemoveUnloaded
<1>3. CASE Retire(m)
  BY <1>3 DEF Retire
<1>4. CASE Forget(m)
  BY <1>4 DEF Forget
<1>5. CASE Restore(m)
  BY <1>5 DEF Restore
<1>6. CASE DiscardRetired(m)
  BY <1>6 DEF DiscardRetired
<1> QED BY <1>1, <1>2, <1>3, <1>4, <1>5, <1>6 DEF RemovalStep

(* The requests: a new download, a cancellation, a removal.                    *)
LEMMA RequestInv ==
  ASSUME ModelInv, NEW d \in Downloads,
         (\E r \in Repos : StartDownload(d, r)) \/ CancelDownload(d) \/ RemoveModel(d)
  PROVE  ModelInv'
<1> USE ModelAssumption
    DEF table, dirs, generate, lock, bounds, Goto, Removal, ModelInv, Typed,
        TasksMatchJobs, ModelsAreCompleted, PreviousIsOld, FilesFollowRows,
        CancelledAreQuiet, UnloadedAreUnleased, RecoveryInOrder
<1>1. ASSUME NEW r \in Repos, StartDownload(d, r) PROVE ModelInv'
  BY <1>1 DEF StartDownload, Serving
<1>2. CASE CancelDownload(d)
  BY <1>2 DEF CancelDownload, Thrown, Serving, Idle, LoopFree
<1>3. CASE RemoveModel(d)
  BY <1>3 DEF RemoveModel, Serving
<1> QED BY <1>1, <1>2, <1>3

(* A step of a Generation Job.                                                 *)
LEMMA JobInv ==
  ASSUME ModelInv, NEW j \in Jobs, (\E m \in Downloads : Ask(j, m)) \/ JobStep(j)
  PROVE  ModelInv'
<1> USE ModelAssumption
    DEF table, dirs, generate, lock, bounds, ModelInv, Typed,
        TasksMatchJobs, ModelsAreCompleted, PreviousIsOld, FilesFollowRows,
        CancelledAreQuiet, UnloadedAreUnleased, RecoveryInOrder
<1>1. ASSUME NEW m \in Downloads, Ask(j, m) PROVE ModelInv'
  BY <1>1 DEF Ask, Serving
<1>2. CASE TakeLease(j)
  BY <1>2 DEF TakeLease, Serving, Idle, LoopFree, SupervisorLockFree
<1>3. CASE GiveLease(j)
  BY <1>3 DEF GiveLease
<1>4. CASE LeaseGiven(j)
  BY <1>4 DEF LeaseGiven
<1>5. CASE GiveUp(j)
  BY <1>5 DEF GiveUp
<1> QED BY <1>1, <1>2, <1>3, <1>4, <1>5 DEF JobStep

(* The end of a Core process, by a crash or a shutdown.                        *)
LEMMA LostInv == ASSUME ModelInv, Crash \/ Shutdown PROVE ModelInv'
<1> USE ModelAssumption
    DEF table, dirs, Lost, ModelInv, Typed, TasksMatchJobs, ModelsAreCompleted,
        PreviousIsOld, FilesFollowRows, CancelledAreQuiet, UnloadedAreUnleased, RecoveryInOrder
<1>1. CASE Crash
  BY <1>1 DEF Crash
<1>2. CASE Shutdown
  <2>1. \A d \in Downloads : dstate'[d] # dstate[d] => dstate[d] \in Active
          /\ dstate'[d] = "cancelled"
    BY <1>2 DEF Shutdown, Serving, Idle, LoopFree
  <2> QED BY <1>2, <2>1 DEF Shutdown
<1> QED BY <1>1, <1>2

(* A step of recovery.                                                         *)
LEMMA RecoveryInv == ASSUME ModelInv, RecoveryStep PROVE ModelInv'
<1> USE ModelAssumption
    DEF table, dirs, generate, lock, bounds, Recovery, ModelInv, Typed,
        TasksMatchJobs, ModelsAreCompleted, PreviousIsOld, FilesFollowRows,
        CancelledAreQuiet, UnloadedAreUnleased, RecoveryInOrder
<1>1. CASE Boot
  BY <1>1 DEF Boot
<1>2. ASSUME NEW d \in Downloads, FailInterrupted(d) PROVE ModelInv'
  BY <1>2 DEF FailInterrupted, Interrupted
<1>3. CASE StartSweep
  BY <1>3 DEF StartSweep, Interrupted
<1>4. ASSUME NEW m \in Downloads, SweepEntry(m) PROVE ModelInv'
  BY <1>4 DEF SweepEntry, ComesBack
<1>5. CASE StartPrune
  BY <1>5 DEF StartPrune
<1>6. ASSUME NEW m \in Downloads, PruneEntry(m) PROVE ModelInv'
  BY <1>6 DEF PruneEntry, Unreferenced
<1>7. CASE Serve
  BY <1>7 DEF Serve
<1> QED BY <1>1, <1>2, <1>3, <1>4, <1>5, <1>6, <1>7 DEF RecoveryStep

(* Other work of the supervisor.                                               *)
LEMMA PoolInvariant == ASSUME ModelInv, PoolWorks \/ PoolRests PROVE ModelInv'
BY DEF table, dirs, generate, bounds, PoolWorks, PoolRests, ModelInv, Typed,
       TasksMatchJobs, ModelsAreCompleted, PreviousIsOld, FilesFollowRows,
       CancelledAreQuiet, UnloadedAreUnleased, RecoveryInOrder

(* Every step keeps the invariant.                                             *)
LEMMA NextModelInv == ModelInv /\ [Next]_vars => ModelInv'
<1> SUFFICES ASSUME ModelInv, [Next]_vars PROVE ModelInv'
  OBVIOUS
<1>1. CASE UNCHANGED vars
  BY <1>1 DEF vars, table, dirs, generate, lock, bounds, ModelInv, Typed,
       TasksMatchJobs, ModelsAreCompleted, PreviousIsOld, FilesFollowRows,
       CancelledAreQuiet, UnloadedAreUnleased, RecoveryInOrder
<1>2. CASE Next
  BY <1>2, DownloadInv, RemovalInv, RequestInv, JobInv, LostInv, RecoveryInv,
     PoolInvariant
     DEF Next
<1> QED BY <1>1, <1>2
-----------------------------------------------------------------------------
(* The invariant that carries the theorems below holds of every execution of   *)
(* ModelService.                                                               *)
THEOREM ModelInvariant == Spec => []ModelInv
BY InitModelInv, NextModelInv, PTL DEF Spec

(* Every model the registry lists has its files, under models/ or where        *)
(* recovery finds them, through failed updates, crashes and removals.          *)
THEOREM InstalledModelsHaveFiles == Spec => []InstalledHasFiles
<1>1. ModelInv => InstalledHasFiles
  BY DEF ModelInv, FilesFollowRows, InstalledHasFiles
<1> QED BY <1>1, ModelInvariant, PTL

(* A download has a task exactly while its job is in progress: crashes,        *)
(* shutdowns and cancellations strand none.                                    *)
THEOREM NoDownloadIsStranded == Spec => []NoStrandedDownload
<1>1. ModelInv => NoStrandedDownload
  BY DEF ModelInv, TasksMatchJobs, NoStrandedDownload
<1> QED BY <1>1, ModelInvariant, PTL

(* A download whose cancellation was accepted, at whatever await of its task,  *)
(* installs nothing.                                                           *)
THEOREM CancelledDownloadsInstallNothing == Spec => []CancelledNeverInstalls
<1>1. ModelInv => CancelledNeverInstalls
  BY DEF ModelInv, Typed, ModelsAreCompleted, CancelledAreQuiet, CancelledNeverInstalls
<1> QED BY <1>1, ModelInvariant, PTL
-----------------------------------------------------------------------------
(* Files of completed models that a step takes away: no lease is held.         *)
LEMMA FilesGoUnleased ==
  ASSUME ModelInv, Next, NEW m \in modelDir, m \notin modelDir', m \in Downloads,
         dstate[m] = "completed"
  PROVE  holding = {}
<1> USE ModelAssumption
    DEF ModelInv, Typed, TasksMatchJobs, UnloadedAreUnleased, dirs
<1>1. ASSUME NEW d \in Downloads, DownloadStep(d) PROVE holding = {}
  <2>1. Commit(d) \/ Discard(d)
    BY <1>1 DEF DownloadStep, Begin, Verify, Activate, CallUnload, Unloaded, Promote,
                Rename,
               Unwind, Fail
  <2>2. ~Commit(d)
    BY DEF Commit
  <2> QED BY <2>1, <2>2 DEF Discard
<1>2. ASSUME NEW d \in Downloads, RemovalStep(d) PROVE holding = {}
  <2>1. Retire(d)
    BY <1>2 DEF RemovalStep, CallRemoveUnload, RemoveUnloaded, Retire, Forget, Restore,
               DiscardRetired
  <2> QED BY <2>1 DEF Retire
<1>3. ASSUME NEW d \in Downloads, PruneEntry(d) PROVE holding = {}
  BY <1>3 DEF PruneEntry
<1> QED
  <2>1. \E d \in Downloads : DownloadStep(d) \/ RemovalStep(d) \/ PruneEntry(d)
    BY DEF Next, StartDownload, CancelDownload, RemoveModel, Ask, JobStep, TakeLease,
           GiveLease,
           LeaseGiven, GiveUp, PoolWorks, PoolRests, Shutdown, Crash, RecoveryStep, Boot,
           StartSweep, StartPrune, Serve, Recovery, FailInterrupted, SweepEntry
  <2> QED BY <2>1, <1>1, <1>2, <1>3

(* The files of a model stay while a job that holds a lease works with them:   *)
(* update and removal unload under the lock that grants leases, and keep it    *)
(* from everybody until the files are gone.                                    *)
THEOREM ModelsInWorkStay == Spec => ModelInWorkStays
<1> DEFINE Stays == \A j \in holding \cap holding' : pin[j] \in modelDir => pin[j] \in modelDir'
<1>1. ModelInv /\ [Next]_vars => Stays
  <2> SUFFICES ASSUME ModelInv, [Next]_vars, NEW j \in holding \cap holding',
                      pin[j] \in modelDir, pin[j] \notin modelDir'
               PROVE  FALSE
    OBVIOUS
  <2>1. Next
    BY DEF vars, dirs
  <2>2. pin[j] \in Downloads /\ dstate[pin[j]] = "completed"
    BY ModelAssumption DEF ModelInv, Typed, ModelsAreCompleted
  <2> QED BY <2>1, <2>2, FilesGoUnleased
<1>2. ModelInv /\ [Next]_vars => [Stays]_vars
  BY <1>1
<1> QED BY <1>2, ModelInvariant, PTL DEF Spec, ModelInWorkStays
-----------------------------------------------------------------------------
(* When Core serves again, rows and directories agree, nothing is left of what *)
(* failed, and no download is in progress: recovery may itself have been cut   *)
(* short any number of times.                                                  *)
THEOREM RecoveryIsComplete == Spec => RecoveryReconciles
<1> DEFINE Reconciled ==
      core # "up" /\ core' = "up" =>
        /\ modelDir' = installed' /\ staging' \cup promotion' \cup retired' = {}
        /\ \A d \in Downloads : dstate'[d] \notin Active
<1>1. ModelInv /\ [Next]_vars => Reconciled
  <2> SUFFICES ASSUME ModelInv, [Next]_vars, core # "up", core' = "up" PROVE Reconciled
    OBVIOUS
  <2>1. Serve
    BY DEF vars, Next, StartDownload, CancelDownload, DownloadStep, Begin, Verify,
           Activate,
           CallUnload, Unloaded, Promote, Rename, Commit, Discard, Unwind, Fail, RemoveModel,
           RemovalStep, CallRemoveUnload, RemoveUnloaded, Retire, Forget, Restore,
           DiscardRetired, Ask, JobStep, TakeLease, GiveLease, LeaseGiven, GiveUp, PoolWorks,
           PoolRests, Shutdown, Crash, Lost, RecoveryStep, Boot, StartSweep, StartPrune,
           Recovery, FailInterrupted, SweepEntry, PruneEntry
  <2> QED BY <2>1
          DEF Serve, Recovery, Unreferenced, table, dirs, ModelInv, FilesFollowRows,
              RecoveryInOrder
<1>2. ModelInv /\ [Next]_vars => [Reconciled]_vars
  BY <1>1
<1> QED BY <1>2, ModelInvariant, PTL DEF Spec, RecoveryReconciles
-----------------------------------------------------------------------------
(* The requests that wait for the supervisor's lock, and where they go.        *)
Waiting == ({"give"} \X Jobs) \cup ({"unload", "remove"} \X Downloads)

LEMMA RequestsWait ==
  /\ \A j \in Jobs : Give(j) \in Waiting
  /\ \A d \in Downloads : Unload(d) \in Waiting /\ Remove(d) \in Waiting
  BY DEF Waiting, Give, Unload, Remove

LEMMA WithoutKeepsItsType ==
  ASSUME queue \in Seq(Waiting), NEW request PROVE Without(request) \in Seq(Waiting)
<1> DEFINE places == {i \in DOMAIN queue : queue[i] = request}
           at     == CHOOSE i \in places : TRUE
<1>1. CASE places = {}
  BY <1>1 DEF Without
<1>2. CASE places # {}
  <2>1. at \in 1 .. Len(queue) /\ Len(queue) \in Nat
    BY <1>2
  <2>2. Without(request) = SubSeq(queue, 1, at - 1) \o SubSeq(queue, at + 1, Len(queue))
    BY <1>2 DEF Without, SeqExt!RemoveAt
  <2> HIDE DEF at
  <2>3. SubSeq(queue, 1, at - 1) \in Seq(Waiting)
          /\ SubSeq(queue, at + 1, Len(queue)) \in Seq(Waiting)
    BY <2>1
  <2> QED
    BY <2>2, <2>3
<1> QED
  BY <1>1, <1>2

(* TypeOK, with the requests that wait as a set of their own.                  *)
TypedAll ==
  /\ Typed /\ staging \subseteq Downloads /\ promotion \subseteq Downloads
  /\ retired \subseteq Downloads /\ queue \in Seq(Waiting) /\ busy \in BOOLEAN
  /\ crashes \in 0 .. MaxCrashes /\ tries \in 0 .. MaxTries

LEMMA QueueStep ==
  ASSUME TypedAll, [Next]_vars PROVE queue' \in Seq(Waiting)
<1>1. queue \in Seq(Waiting) /\ <<>> \in Seq(Waiting)
  BY DEF TypedAll
<1>2. ASSUME NEW r \in Waiting PROVE Append(queue, r) \in Seq(Waiting)
  BY <1>1
<1>3. queue # <<>> => Tail(queue) \in Seq(Waiting)
  BY <1>1
<1>4. ASSUME NEW r PROVE Without(r) \in Seq(Waiting)
  BY <1>1, WithoutKeepsItsType
<1>5. CASE UNCHANGED queue
  BY <1>1, <1>5
<1>6. CASE \E d \in Downloads : CancelDownload(d) /\ queue' = Withdrawn(d)
  BY <1>4, <1>6 DEF Withdrawn
<1>7. CASE \E r \in Waiting : queue' = Append(queue, r)
  BY <1>2, <1>7
<1>8. CASE queue # <<>> /\ queue' = Tail(queue)
  BY <1>3, <1>8
<1>9. CASE queue' = <<>>
  BY <1>1, <1>9
<1> HIDE DEF Active, Terminal, Awaits, Sync, Stages
<1>10. ASSUME Next, queue' # queue
       PROVE  \/ \E d \in Downloads : CancelDownload(d) /\ queue' = Withdrawn(d)
              \/ \E r \in Waiting : queue' = Append(queue, r)
              \/ queue # <<>> /\ queue' = Tail(queue)
              \/ queue' = <<>>
  <2>1. ASSUME NEW d \in Downloads, DownloadStep(d) \/ RemovalStep(d) \/ CancelDownload(d)
                  \/ RemoveModel(d) \/ \E r \in Repos : StartDownload(d, r)
        PROVE  \/ CancelDownload(d) /\ queue' = Withdrawn(d)
               \/ \E r \in Waiting : queue' = Append(queue, r)
               \/ queue # <<>> /\ queue' = Tail(queue)
    <3>1. CASE DownloadStep(d)
      BY <3>1, <1>10, RequestsWait
         DEF DownloadStep, Begin, Verify, Activate, CallUnload, Unloaded, Promote, Rename,
             Commit,
             Discard, Unwind, Fail, Turn, lock
    <3>2. CASE RemovalStep(d)
      BY <3>2, <1>10, RequestsWait
         DEF RemovalStep, CallRemoveUnload, RemoveUnloaded, Retire, Forget, Restore,
             DiscardRetired, Turn, lock
    <3>3. CASE CancelDownload(d)
      BY <3>3, <1>10 DEF CancelDownload
    <3>4. CASE RemoveModel(d)
      BY <3>4, RequestsWait DEF RemoveModel
    <3>5. CASE \E r \in Repos : StartDownload(d, r)
      BY <3>5, <1>10 DEF StartDownload, lock
    <3> QED
      BY <2>1, <3>1, <3>2, <3>3, <3>4, <3>5
  <2>2. ASSUME NEW j \in Jobs, JobStep(j) \/ \E m \in Downloads : Ask(j, m)
        PROVE  \/ \E r \in Waiting : queue' = Append(queue, r)
               \/ queue # <<>> /\ queue' = Tail(queue)
    BY <1>10, <2>2, RequestsWait
       DEF Ask, JobStep, TakeLease, GiveLease, LeaseGiven, GiveUp, Turn, lock
  <2>3. ASSUME Shutdown \/ Crash PROVE queue' = <<>>
    BY <2>3 DEF Shutdown, Crash, Lost
  <2>4. ~(PoolWorks \/ PoolRests)
    BY <1>10 DEF PoolWorks, PoolRests
  <2>5. ~RecoveryStep
    BY <1>10 DEF RecoveryStep, Boot, StartSweep, StartPrune, Serve, Recovery,
                 FailInterrupted,
                 SweepEntry, PruneEntry, lock
  <2> QED
    BY <1>10, <2>1, <2>2, <2>3, <2>4, <2>5 DEF Next
<1> QED
  BY <1>5, <1>6, <1>7, <1>8, <1>9, <1>10 DEF vars, lock

LEMMA DirectoriesStep ==
  ASSUME TypedAll, [Next]_vars
  PROVE  /\ staging' \subseteq Downloads /\ promotion' \subseteq Downloads
         /\ retired' \subseteq Downloads
<1> USE DEF TypedAll, dirs, table, Ended
<1>1. ASSUME NEW d \in Downloads, DownloadStep(d)
      PROVE  /\ staging' \subseteq Downloads /\ promotion' \subseteq Downloads
             /\ retired' \subseteq Downloads
  BY <1>1 DEF DownloadStep, Begin, Verify, Activate, CallUnload, Unloaded, Promote,
              Rename,
              Commit, Discard, Unwind, Fail
<1>2. ASSUME NEW d \in Downloads,
             RemovalStep(d) \/ CancelDownload(d) \/ RemoveModel(d)
             \/ \E r \in Repos : StartDownload(d, r)
      PROVE  /\ staging' \subseteq Downloads /\ promotion' \subseteq Downloads
             /\ retired' \subseteq Downloads
  BY <1>2 DEF RemovalStep, CallRemoveUnload, RemoveUnloaded, Retire, Forget, Restore,
              DiscardRetired, CancelDownload, RemoveModel, StartDownload
<1>3. ASSUME NEW j \in Jobs, JobStep(j) \/ \E m \in Downloads : Ask(j, m)
      PROVE  /\ staging' \subseteq Downloads /\ promotion' \subseteq Downloads
             /\ retired' \subseteq Downloads
  BY <1>3 DEF Ask, JobStep, TakeLease, GiveLease, LeaseGiven, GiveUp
<1>4. ASSUME Shutdown \/ Crash \/ RecoveryStep \/ PoolWorks \/ PoolRests
      PROVE  /\ staging' \subseteq Downloads /\ promotion' \subseteq Downloads
             /\ retired' \subseteq Downloads
  BY <1>4 DEF Shutdown, Crash, PoolWorks, PoolRests, RecoveryStep, Boot, StartSweep,
              StartPrune,
              Serve, Recovery, FailInterrupted, SweepEntry, PruneEntry
<1> QED
  BY <1>1, <1>2, <1>3, <1>4 DEF Next, vars

LEMMA BoundsStep ==
  ASSUME TypedAll, [Next]_vars
  PROVE  busy' \in BOOLEAN /\ crashes' \in 0 .. MaxCrashes /\ tries' \in 0 .. MaxTries
<1> HIDE DEF Active, Terminal, Awaits, Sync, Stages
<1>1. busy \in BOOLEAN /\ crashes \in 0 .. MaxCrashes /\ tries \in 0 .. MaxTries
  BY DEF TypedAll
<1>2. crashes < MaxCrashes => crashes + 1 \in 0 .. MaxCrashes
  BY <1>1, ModelAssumption
<1>3. tries < MaxTries => tries + 1 \in 0 .. MaxTries
  BY <1>1, ModelAssumption
<1>4. /\ busy' = busy \/ busy' = TRUE \/ busy' = FALSE
      /\ crashes' = crashes \/ (crashes < MaxCrashes /\ crashes' = crashes + 1)
      /\ tries' = tries \/ (tries < MaxTries /\ tries' = tries + 1)
  <2> USE DEF lock, bounds
  <2>1. ASSUME NEW d \in Downloads, DownloadStep(d)
        PROVE  busy' = busy /\ crashes' = crashes /\ tries' = tries
    BY <2>1 DEF DownloadStep, Begin, Verify, Activate, CallUnload, Unloaded, Promote,
                Rename,
                Commit, Discard, Unwind, Fail
  <2>2. ASSUME NEW d \in Downloads,
               RemovalStep(d) \/ CancelDownload(d) \/ \E r \in Repos : StartDownload(d, r)
        PROVE  busy' = busy /\ crashes' = crashes /\ tries' = tries
    BY <2>2 DEF RemovalStep, CallRemoveUnload, RemoveUnloaded, Retire, Forget, Restore,
                DiscardRetired, CancelDownload, StartDownload
  <2>3. ASSUME NEW d \in Downloads, RemoveModel(d)
        PROVE  busy' = busy /\ crashes' = crashes /\ tries < MaxTries /\ tries' = tries + 1
    BY <2>3 DEF RemoveModel
  <2>4. ASSUME NEW j \in Jobs, JobStep(j) \/ \E m \in Downloads : Ask(j, m)
        PROVE  busy' = busy /\ crashes' = crashes /\ tries' = tries
    BY <2>4 DEF Ask, JobStep, TakeLease, GiveLease, LeaseGiven, GiveUp
  <2>5. ASSUME Shutdown \/ Crash
        PROVE  busy' = FALSE /\ crashes < MaxCrashes /\ crashes' = crashes + 1 /\ tries' = tries
    BY <2>5 DEF Shutdown, Crash, Lost
  <2>6. ASSUME PoolWorks \/ PoolRests
        PROVE  (busy' = TRUE \/ busy' = FALSE) /\ crashes' = crashes /\ tries' = tries
    BY <2>6 DEF PoolWorks, PoolRests
  <2>7. ASSUME RecoveryStep PROVE busy' = busy /\ crashes' = crashes /\ tries' = tries
    BY <2>7 DEF RecoveryStep, Boot, StartSweep, StartPrune, Serve, Recovery,
                FailInterrupted,
                SweepEntry, PruneEntry
  <2>8. ASSUME UNCHANGED vars PROVE busy' = busy /\ crashes' = crashes /\ tries' = tries
    BY <2>8 DEF vars
  <2> QED
    BY <2>1, <2>2, <2>3, <2>4, <2>5, <2>6, <2>7, <2>8 DEF Next
<1> QED
  BY <1>1, <1>2, <1>3, <1>4

(* Every variable of ModelService has its type, the queue of the supervisor's  *)
(* lock included, from which a cancelled waiter is taken out of the middle.    *)
THEOREM ModelTypesHold == Spec => []TypeOK
<1>1. Init => TypedAll
  <2>1. Init => Typed
    BY InitModelInv DEF ModelInv
  <2>2. <<>> \in Seq(Waiting)
    OBVIOUS
  <2>3. 0 \in 0 .. MaxCrashes /\ 0 \in 0 .. MaxTries
    BY ModelAssumption
  <2> HIDE DEF Active, Terminal, Awaits, Sync, Stages
  <2> QED
    BY <2>1, <2>2, <2>3 DEF Init, TypedAll
<1>2. ModelInv /\ TypedAll /\ [Next]_vars => TypedAll'
  <2>1. ModelInv /\ [Next]_vars => Typed'
    BY NextModelInv DEF ModelInv
  <2> QED
    BY <2>1, QueueStep, DirectoriesStep, BoundsStep DEF TypedAll
<1>3. TypedAll => TypeOK
  BY DEF TypedAll, Typed, TypeOK, Waiting
<1> QED
  BY <1>1, <1>2, <1>3, ModelInvariant, PTL DEF Spec
=============================================================================
