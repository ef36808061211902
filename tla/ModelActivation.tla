-------------------------- MODULE ModelActivation --------------------------
(***************************************************************************)
(* Model downloads, their activation, the removal of Model Installations   *)
(* and the recovery of both: ModelService over ModelActivation (the        *)
(* directories below models/ and staging/) and ModelRegistry (one SQLite   *)
(* transaction per call), with the Generation Jobs that pin a model.       *)
(*                                                                         *)
(* A download that completes installs a model with a fresh id, so a model  *)
(* is named by its download.  Core runs on one event loop: what lies       *)
(* between two awaits is one step, unless it has several durable effects;  *)
(* those are steps of their own (Sync) that only a crash can separate.     *)
(***************************************************************************)
EXTENDS Naturals, Sequences, FiniteSets

SeqExt == INSTANCE SequencesExt

CONSTANTS
  Downloads,     \* Download Jobs, and the models they install
  Repos,         \* repositories models come from
  Jobs,          \* Generation Jobs
  NoModel,       \* no previous installation, no pinned model
  NoRepo,        \* the repository of a download that does not exist yet
  MaxCrashes,    \* bound on crashes and shutdowns of Core
  MaxTries,      \* bound on the removals asked for
  StorageFaults  \* whether a file operation or a transaction may fail

ASSUME ModelAssumption ==
  /\ NoModel \notin Downloads
  /\ NoRepo \notin Repos
  /\ MaxCrashes \in Nat /\ MaxTries \in Nat
  /\ StorageFaults \in BOOLEAN

VARIABLES
  (* the download_jobs and model_installations tables *)
  dstate,     \* state of each download, "absent" before its row exists
  dcancel,    \* downloads with cancellation_requested = 1
  repo,       \* repository of each download
  installed,  \* models with a row
  (* directories *)
  staging,    \* downloads with a directory below staging/
  promotion,  \* downloads with a promotion-- directory below models/
  modelDir,   \* models with a directory below models/
  retired,    \* models with a retired-- directory below staging/
  (* the running Core process *)
  core,       \* "down", the stages of recovery, or "up"
  pc,         \* where the task of each download is
  previous,   \* the installation a download is about to replace
  remover,    \* where the removal of each model is
  (* the Generation Jobs, and the lock of the Worker supervisor *)
  gen,        \* "absent", "asking" (create before its insert), "live", "over"
  pin,        \* model of each job
  holding,    \* jobs that hold a Worker lease
  queue,      \* who waits for the supervisor's lock to give a lease or unload
  busy,       \* other work of the supervisor holds its lock
  (* bounds *)
  crashes, tries

table     == <<dstate, dcancel, repo, installed>>
dirs      == <<staging, promotion, modelDir, retired>>
generate  == <<gen, pin, holding>>
lock      == <<queue, busy>>
bounds    == <<crashes, tries>>
vars      == <<table, dirs, core, pc, previous, remover, generate, lock, bounds>>

Active    == {"queued", "downloading", "verifying", "activating"}
Terminal  == {"completed", "cancelled", "failed"}
Awaits    == {"none", "start", "stream", "lock", "unload", "rpc"}
Sync      == {"unwind", "promote", "rename", "commit", "discard", "retire", "forget",
              "restore"}
Stages    == {"down", "failing", "sweeping", "pruning", "up"}

Init ==
  /\ dstate = [d \in Downloads |-> "absent"] /\ dcancel = {}
  /\ repo = [d \in Downloads |-> NoRepo]
  /\ installed = {}
  /\ staging = {} /\ promotion = {} /\ modelDir = {} /\ retired = {}
  /\ core = "up"
  /\ pc = [d \in Downloads |-> "none"]
  /\ previous = [d \in Downloads |-> NoModel]
  /\ remover = [m \in Downloads |-> "none"]
  /\ gen = [j \in Jobs |-> "absent"] /\ pin = [j \in Jobs |-> NoModel]
  /\ holding = {}
  /\ queue = <<>> /\ busy = FALSE
  /\ crashes = 0 /\ tries = 0
-----------------------------------------------------------------------------
(* The event loop and the two locks. *)

LoopFree == \A d \in Downloads : pc[d] \notin Sync /\ remover[d] \notin Sync

InLock(p) == p \in {"unload", "rpc"} \cup Sync

\* _activation_lock serializes activations and removals.
ActivationLockFree ==
  \A d \in Downloads :
    /\ ~InLock(remover[d])
    /\ ~InLock(pc[d])

\* The supervisor's lock is held through an UnloadModel call.
SupervisorLockFree ==
  /\ ~busy
  /\ \A d \in Downloads : pc[d] # "rpc" /\ remover[d] # "rpc"

\* A lock that is free goes to the first in the queue before anything else runs;
\* who asks for it then, with nobody in the queue, has it at once.
Idle    == LoopFree /\ (queue = <<>> \/ ~SupervisorLockFree)
Serving == core = "up" /\ Idle

\* Seeded fault: the unload is queued under a model that is not known yet.
UnloadPrevious(d) == <<"unload", previous[d]>>

Give(j)   == <<"give", j>>
Unload(d) == <<"unload", d>>
Remove(m) == <<"remove", m>>
Turn(request) == SupervisorLockFree /\ queue # <<>> /\ Head(queue) = request

\* _generation_model_is_in_use; alignments, which pin a model too, are left out.
InUse(m) == \E j \in Jobs : gen[j] = "live" /\ pin[j] = m

\* Seeded fault: a replica at work is asked to unload.
UnloadAnyway == TRUE

Unleased == holding = {}

\* Other work of the supervisor: a launch, a replacement, a scaling.
PoolWorks ==
  /\ core = "up" /\ SupervisorLockFree /\ queue = <<>>
  /\ busy' = TRUE
  /\ UNCHANGED <<table, dirs, core, pc, previous, remover, generate, queue, bounds>>

PoolRests ==
  /\ busy
  /\ busy' = FALSE
  /\ UNCHANGED <<table, dirs, core, pc, previous, remover, generate, queue, bounds>>
-----------------------------------------------------------------------------
(* Download Jobs. *)

Goto(d, l) == pc' = [pc EXCEPT ![d] = l]

StartDownload(d, r) ==
  /\ Serving
  /\ dstate[d] = "absent"
  /\ dstate' = [dstate EXCEPT ![d] = "queued"]
  /\ repo' = [repo EXCEPT ![d] = r]
  /\ Goto(d, "start")
  /\ UNCHANGED <<dcancel, installed, dirs, core, previous, remover, generate, lock, bounds>>

\* Seeded fault: the call that unloads the previous revision is shielded.
ThrownUnlessUnloading(d) == IF pc[d] = "rpc" THEN "rpc" ELSE "unwind"

Thrown(d) == "unwind"

Without(request) ==
  LET places == {i \in DOMAIN queue : queue[i] = request} IN
  IF places = {} THEN queue ELSE SeqExt!RemoveAt(queue, CHOOSE i \in places : TRUE)

\* Seeded fault: a cancelled waiter keeps its place.
StillQueued(d) == Without(Remove(d))

Withdrawn(d) == Without(Unload(d))

\* A queued job is cancelled at once and its task never runs; another task is
\* thrown out of the await it is in, and gives back the locks it holds.
CancelDownload(d) ==
  /\ Serving
  /\ dstate[d] \in Active /\ d \notin dcancel
  /\ dcancel' = dcancel \cup {d}
  /\ \/ /\ dstate[d] = "queued"
        /\ dstate' = [dstate EXCEPT ![d] = "cancelled"]
        /\ Goto(d, "none")
        /\ UNCHANGED queue
     \/ /\ dstate[d] # "queued"
        /\ Goto(d, Thrown(d))
        /\ queue' = Withdrawn(d)
        /\ UNCHANGED dstate
  /\ UNCHANGED <<repo, installed, dirs, core, previous, remover, generate, busy, bounds>>

\* The end of the task in state s: _cancel_job or _fail_job, then the staging
\* directory is removed, or left where that fails.
Ended(d, s) ==
  /\ dstate' = [dstate EXCEPT ![d] = s]
  /\ Goto(d, "none")
  /\ previous' = [previous EXCEPT ![d] = NoModel]
  /\ staging' = staging \ {d} \/ (StorageFaults /\ staging' = staging)

Unwind(d) ==
  /\ pc[d] = "unwind"
  /\ Ended(d, "cancelled")
  /\ UNCHANGED <<dcancel, repo, installed, promotion, modelDir, retired, core, remover,
                 generate, lock, bounds>>

\* Incompatible, refused, or an exception before anything was promoted.
Fail(d) ==
  /\ pc[d] \in {"start", "stream", "lock", "rpc"} /\ Idle
  /\ pc[d] = "lock" => ActivationLockFree
  /\ Ended(d, "failed")
  /\ UNCHANGED <<dcancel, repo, installed, promotion, modelDir, retired, core, remover,
                 generate, lock, bounds>>

\* VALIDATING, a staging directory, DOWNLOADING and the stream of the Worker.
Begin(d) ==
  /\ pc[d] = "start" /\ Idle
  /\ dstate' = [dstate EXCEPT ![d] = "downloading"]
  /\ staging' = staging \cup {d}
  /\ Goto(d, "stream")
  /\ UNCHANGED <<dcancel, repo, installed, promotion, modelDir, retired, core, previous,
                 remover, generate, lock, bounds>>

\* The stream ended with a manifest, and the files are those it names.
Verify(d) ==
  /\ pc[d] = "stream" /\ Idle
  /\ dstate' = [dstate EXCEPT ![d] = "verifying"]
  /\ Goto(d, "lock")
  /\ UNCHANGED <<dcancel, repo, installed, dirs, core, previous, remover, generate, lock, bounds>>

PreviousOf(d) == {m \in installed : repo[m] = repo[d]}

\* Under the activation lock: nothing to replace, a model in use, or a model to
\* unload first.
Activate(d) ==
  /\ pc[d] = "lock" /\ Idle /\ ActivationLockFree
  /\ \/ /\ PreviousOf(d) = {}
        /\ dstate' = [dstate EXCEPT ![d] = "activating"]
        /\ Goto(d, "promote")
        /\ UNCHANGED <<previous, staging, queue>>
     \/ /\ \E m \in PreviousOf(d) : InUse(m)
        /\ Ended(d, "failed")
        /\ UNCHANGED queue
     \/ \E m \in PreviousOf(d) :
          /\ ~InUse(m) /\ m \in modelDir
          /\ dstate' = [dstate EXCEPT ![d] = "activating"]
          /\ previous' = [previous EXCEPT ![d] = m]
          /\ Goto(d, "unload")
          /\ queue' = Append(queue, Unload(d))
          /\ UNCHANGED staging
  /\ UNCHANGED <<dcancel, repo, installed, promotion, modelDir, retired, core, remover,
                 generate, busy, bounds>>

\* WorkerSupervisor.unload_model refuses while a lease is held, and without a
\* running Worker.
CallUnload(d) ==
  /\ pc[d] = "unload" /\ LoopFree /\ Turn(Unload(d))
  /\ queue' = Tail(queue)
  /\ \/ Unleased /\ Goto(d, "rpc") /\ UNCHANGED <<dstate, previous, staging>>
     \/ Ended(d, "failed")
  /\ UNCHANGED <<dcancel, repo, installed, promotion, modelDir, retired, core, remover,
                 generate, busy, bounds>>

Unloaded(d) ==
  /\ pc[d] = "rpc" /\ LoopFree
  /\ Goto(d, "promote")
  /\ UNCHANGED <<table, dirs, core, previous, remover, generate, lock, bounds>>

\* activate: the verified files are copied into a promotion directory, which is
\* renamed to the new id.  A copy that fails removes its promotion directory.
Promote(d) ==
  /\ pc[d] = "promote"
  /\ \/ /\ promotion' = promotion \cup {d}
        /\ Goto(d, "rename")
        /\ UNCHANGED <<dstate, previous, staging>>
     \/ /\ StorageFaults
        /\ Ended(d, "failed")
        /\ promotion' = promotion \/ promotion' = promotion \cup {d}
  /\ UNCHANGED <<dcancel, repo, installed, modelDir, retired, core, remover, generate, lock,
                 bounds>>

\* The staging directory goes next; when it cannot, the activation is undone.
Rename(d) ==
  /\ pc[d] = "rename"
  /\ promotion' = promotion \ {d}
  /\ \/ /\ modelDir' = modelDir \cup {d}
        /\ staging' = staging \ {d}
        /\ Goto(d, "commit")
        /\ UNCHANGED <<dstate, previous>>
     \/ /\ StorageFaults
        /\ modelDir' = modelDir \/ modelDir' = modelDir \cup {d}
        /\ Ended(d, "failed")
  /\ UNCHANGED <<dcancel, repo, installed, retired, core, remover, generate, lock, bounds>>

\* activate_model: the previous row of the repository goes, the new one and the
\* completion of the job come, in one transaction.  When it fails the new directory
\* is rolled back.
Replacing(d) == (installed \ PreviousOf(d)) \cup {d}

Commit(d) ==
  /\ pc[d] = "commit"
  /\ \/ /\ installed' = Replacing(d)
        /\ dstate' = [dstate EXCEPT ![d] = "completed"]
        /\ Goto(d, IF previous[d] = NoModel THEN "none" ELSE "discard")
        /\ UNCHANGED <<modelDir, previous, staging>>
     \/ /\ StorageFaults
        /\ modelDir' = modelDir \ {d} \/ modelDir' = modelDir
        /\ Ended(d, "failed")
        /\ UNCHANGED installed
  /\ UNCHANGED <<dcancel, repo, promotion, retired, core, remover, generate, lock, bounds>>

\* discard_model removes the directory of the previous revision.
Discard(d) ==
  /\ pc[d] = "discard"
  /\ modelDir' = modelDir \ {previous[d]} \/ (StorageFaults /\ UNCHANGED modelDir)
  /\ previous' = [previous EXCEPT ![d] = NoModel]
  /\ Goto(d, "none")
  /\ UNCHANGED <<table, staging, promotion, retired, core, remover, generate, lock, bounds>>
-----------------------------------------------------------------------------
(* Removal of a model: remove_model. *)

Removal(m, l) == remover' = [remover EXCEPT ![m] = l]

RemoveModel(m) ==
  /\ Serving /\ ActivationLockFree /\ tries < MaxTries
  /\ m \in installed /\ m \in modelDir /\ ~InUse(m)
  /\ Removal(m, "unload")
  /\ queue' = Append(queue, Remove(m))
  /\ tries' = tries + 1
  /\ UNCHANGED <<table, dirs, core, pc, previous, generate, busy, crashes>>

CallRemoveUnload(m) ==
  /\ remover[m] = "unload" /\ LoopFree /\ Turn(Remove(m))
  /\ queue' = Tail(queue)
  /\ (Unleased /\ Removal(m, "rpc")) \/ Removal(m, "none")
  /\ UNCHANGED <<table, dirs, core, pc, previous, generate, busy, bounds>>

RemoveUnloaded(m) ==
  /\ remover[m] = "rpc" /\ LoopFree
  /\ Removal(m, "retire") \/ Removal(m, "none")
  /\ UNCHANGED <<table, dirs, core, pc, previous, generate, lock, bounds>>

Retire(m) ==
  /\ remover[m] = "retire"
  /\ \/ /\ modelDir' = modelDir \ {m} /\ retired' = retired \cup {m}
        /\ Removal(m, "forget")
     \/ StorageFaults /\ Removal(m, "none") /\ UNCHANGED <<modelDir, retired>>
  /\ UNCHANGED <<table, staging, promotion, core, pc, previous, generate, lock, bounds>>

\* The transaction that deletes the row; the files come back when it fails.
Forget(m) ==
  /\ remover[m] = "forget"
  /\ \/ installed' = installed \ {m} /\ Removal(m, "discard")
     \/ StorageFaults /\ Removal(m, "restore") /\ UNCHANGED installed
  /\ UNCHANGED <<dstate, dcancel, repo, dirs, core, pc, previous, generate, lock, bounds>>

Restore(m) ==
  /\ remover[m] = "restore"
  /\ \/ modelDir' = modelDir \cup {m} /\ retired' = retired \ {m}
     \/ StorageFaults /\ UNCHANGED <<modelDir, retired>>
  /\ Removal(m, "none")
  /\ UNCHANGED <<table, staging, promotion, core, pc, previous, generate, lock, bounds>>

DiscardRetired(m) ==
  /\ remover[m] = "discard"
  /\ retired' = retired \ {m} \/ (StorageFaults /\ UNCHANGED retired)
  /\ Removal(m, "none")
  /\ UNCHANGED <<table, staging, promotion, modelDir, core, pc, previous, generate, lock, bounds>>
-----------------------------------------------------------------------------
(* Generation Jobs, as far as they pin and use a model. *)

\* create reads the model, asks for a lease, and tries the model under it.
Ask(j, m) ==
  /\ Serving
  /\ gen[j] = "absent" /\ m \in installed
  /\ gen' = [gen EXCEPT ![j] = "asking"]
  /\ pin' = [pin EXCEPT ![j] = m]
  /\ UNCHANGED <<table, dirs, core, pc, previous, remover, holding, lock, bounds>>

\* A request for a lease that queued before a waiting unload takes its lease as
\* if it had come before the unload was asked for, so only the others wait.
TakeLease(j) ==
  /\ Serving /\ SupervisorLockFree /\ queue = <<>>
  /\ gen[j] \in {"asking", "live"} /\ j \notin holding
  /\ holding' = holding \cup {j}
  /\ UNCHANGED <<table, dirs, core, pc, previous, remover, gen, pin, lock, bounds>>

\* The work under the lease is done: the job is terminal, the request may be
\* inserted if its model could be loaded, or the request is refused.
GiveLease(j) ==
  /\ Serving
  /\ j \in holding /\ \A i \in DOMAIN queue : queue[i] # Give(j)
  /\ queue' = Append(queue, Give(j))
  /\ \/ gen[j] = "live" /\ gen' = [gen EXCEPT ![j] = "over"]
     \/ gen[j] = "asking" /\ gen' = [gen EXCEPT ![j] = "absent"]
     \/ gen[j] = "asking" /\ pin[j] \in modelDir /\ UNCHANGED gen
  /\ UNCHANGED <<table, dirs, core, pc, previous, remover, pin, holding, busy, bounds>>

\* The lease is back; create inserts its job without another look at the model.
LeaseGiven(j) ==
  /\ core = "up" /\ LoopFree /\ Turn(Give(j))
  /\ queue' = Tail(queue)
  /\ holding' = holding \ {j}
  /\ gen' = [gen EXCEPT ![j] = IF @ = "asking" THEN "live" ELSE @]
  /\ UNCHANGED <<table, dirs, core, pc, previous, remover, pin, busy, bounds>>

\* Cancelled, or without a Worker or a model: an end without a lease.
GiveUp(j) ==
  /\ Serving /\ j \notin holding
  /\ \/ gen[j] = "live" /\ gen' = [gen EXCEPT ![j] = "over"]
     \/ gen[j] = "asking" /\ gen' = [gen EXCEPT ![j] = "absent"]
  /\ UNCHANGED <<table, dirs, core, pc, previous, remover, pin, holding, lock, bounds>>
-----------------------------------------------------------------------------
(* The end of a Core process, and what the next one recovers. *)

\* Recovery of the Generation Jobs comes first: queued ones stay, others end.
Lost ==
  /\ core' = "down"
  /\ pc' = [d \in Downloads |-> "none"]
  /\ previous' = [d \in Downloads |-> NoModel]
  /\ remover' = [m \in Downloads |-> "none"]
  /\ holding' = {} /\ queue' = <<>> /\ busy' = FALSE
  /\ \E ended \in SUBSET {j \in Jobs : gen[j] = "live"} :
       gen' = [j \in Jobs |-> IF j \in ended THEN "over"
                             ELSE IF gen[j] = "asking" THEN "absent" ELSE gen[j]]
  /\ crashes' = crashes + 1
  /\ UNCHANGED <<pin, tries>>

Crash ==
  /\ core # "down" /\ crashes < MaxCrashes
  /\ Lost
  /\ UNCHANGED <<table, dirs>>

\* close cancels every task: those that began end cancelled, the others leave
\* their queued row to recovery.
Shutdown ==
  /\ Serving /\ crashes < MaxCrashes
  /\ \A m \in Downloads : remover[m] = "none"
  /\ LET begun == {d \in Downloads : pc[d] \notin {"none", "start"}}
     IN /\ dstate' = [d \in Downloads |-> IF d \in begun THEN "cancelled" ELSE dstate[d]]
        /\ staging' = staging \ begun
  /\ Lost
  /\ UNCHANGED <<dcancel, repo, installed, promotion, modelDir, retired>>

Recovery(next) ==
  /\ core' = next
  /\ UNCHANGED <<table, dirs, pc, previous, remover, generate, lock, bounds>>

\* Seeded fault: a job that never began is not an interrupted one.
InterruptedOnceBegun(d) == dstate[d] \in Active \ {"queued"}

Interrupted(d) == dstate[d] \in Active

\* Seeded fault: no retired directory comes back.
ComesBackNever(m) == m \in {}

ComesBack(m) == m \in installed \ modelDir

Boot == core = "down" /\ Recovery("failing")

FailInterrupted(d) ==
  /\ core = "failing" /\ Interrupted(d)
  /\ dstate' = [dstate EXCEPT ![d] = "failed"]
  /\ staging' = staging \ {d}
  /\ UNCHANGED <<dcancel, repo, installed, promotion, modelDir, retired, core, pc, previous,
                 remover, generate, lock, bounds>>

StartSweep ==
  /\ core = "failing" /\ \A d \in Downloads : ~Interrupted(d)
  /\ Recovery("sweeping")

\* An entry of staging/: a retired model that still has a row goes back, and
\* everything else goes.
SweepEntry(m) ==
  /\ core = "sweeping"
  /\ \/ /\ m \in retired
        /\ retired' = retired \ {m}
        /\ modelDir' = IF ComesBack(m) THEN modelDir \cup {m} ELSE modelDir
        /\ UNCHANGED staging
     \/ /\ m \in staging
        /\ staging' = staging \ {m}
        /\ UNCHANGED <<modelDir, retired>>
  /\ UNCHANGED <<table, promotion, core, pc, previous, remover, generate, lock, bounds>>

StartPrune == core = "sweeping" /\ staging \cup retired = {} /\ Recovery("pruning")

\* Seeded fault: directories of models are left alone.
UnreferencedPromotions == [models |-> {}, promotions |-> promotion]

Unreferenced == [models |-> modelDir \ installed, promotions |-> promotion]

\* An entry of models/ that no row refers to.
PruneEntry(m) ==
  /\ core = "pruning"
  /\ \/ m \in Unreferenced.models /\ modelDir' = modelDir \ {m} /\ UNCHANGED promotion
     \/ m \in Unreferenced.promotions /\ promotion' = promotion \ {m} /\ UNCHANGED modelDir
  /\ UNCHANGED <<table, staging, retired, core, pc, previous, remover, generate, lock, bounds>>

Serve ==
  /\ core = "pruning" /\ Unreferenced.models \cup Unreferenced.promotions = {}
  /\ Recovery("up")
-----------------------------------------------------------------------------
DownloadStep(d) ==
  \/ Begin(d) \/ Verify(d) \/ Activate(d) \/ CallUnload(d) \/ Unloaded(d)
  \/ Promote(d) \/ Rename(d) \/ Commit(d) \/ Discard(d) \/ Unwind(d) \/ Fail(d)

RemovalStep(m) ==
  \/ CallRemoveUnload(m) \/ RemoveUnloaded(m)
  \/ Retire(m) \/ Forget(m) \/ Restore(m) \/ DiscardRetired(m)

JobStep(j) == TakeLease(j) \/ GiveLease(j) \/ LeaseGiven(j) \/ GiveUp(j)

RecoveryStep ==
  \/ Boot \/ StartSweep \/ StartPrune \/ Serve
  \/ \E d \in Downloads : FailInterrupted(d) \/ SweepEntry(d) \/ PruneEntry(d)

Next ==
  \/ \E d \in Downloads :
       \/ \E r \in Repos : StartDownload(d, r)
       \/ CancelDownload(d) \/ DownloadStep(d)
       \/ RemoveModel(d) \/ RemovalStep(d)
  \/ \E j \in Jobs : (\E m \in Downloads : Ask(j, m)) \/ JobStep(j)
  \/ PoolWorks \/ PoolRests
  \/ Shutdown \/ Crash \/ RecoveryStep

Spec == Init /\ [][Next]_vars

\* Every call to a Worker has a deadline, asyncio locks are handed over in the
\* order of the requests, and Core is started again when it ends.
Fairness ==
  /\ \A d \in Downloads : SF_vars(DownloadStep(d)) /\ SF_vars(RemovalStep(d))
  /\ \A j \in Jobs : WF_vars(LeaseGiven(j))
  /\ WF_vars(PoolRests) /\ WF_vars(RecoveryStep)

FairSpec == Spec /\ Fairness
-----------------------------------------------------------------------------
TypeOK ==
  /\ dstate \in [Downloads -> {"absent"} \cup Active \cup Terminal]
  /\ dcancel \subseteq Downloads /\ installed \subseteq Downloads
  /\ repo \in [Downloads -> Repos \cup {NoRepo}]
  /\ staging \subseteq Downloads /\ promotion \subseteq Downloads
  /\ modelDir \subseteq Downloads /\ retired \subseteq Downloads
  /\ core \in Stages
  /\ pc \in [Downloads -> Awaits \cup Sync] /\ remover \in [Downloads -> Awaits \cup Sync]
  /\ previous \in [Downloads -> Downloads \cup {NoModel}]
  /\ gen \in [Jobs -> {"absent", "asking", "live", "over"}]
  /\ pin \in [Jobs -> Downloads \cup {NoModel}]
  /\ holding \subseteq Jobs
  /\ queue \in Seq(({"give"} \X Jobs) \cup ({"unload", "remove"} \X Downloads))
  /\ busy \in BOOLEAN
  /\ crashes \in 0 .. MaxCrashes /\ tries \in 0 .. MaxTries

(* Every model the registry lists has its files, under models/ or, in the      *)
(* middle of a removal or after one that failed, where recovery finds them:    *)
(* neither a failed update, a crash nor an interrupted removal loses the       *)
(* revision that was installed.                                                *)
InstalledHasFiles == installed \subseteq modelDir \cup retired

(* A download is worked on as long as its job says so: none is stranded by a   *)
(* crash, a shutdown or a cancellation, and none works on after its end.       *)
NoStrandedDownload ==
  core = "up" =>
    \A d \in Downloads : dstate[d] \in Active <=> pc[d] \notin {"none", "discard"}

(* A download whose cancellation was accepted installs nothing.                *)
CancelledNeverInstalls ==
  \A d \in dcancel : dstate[d] # "completed" /\ d \notin installed

(* The files of a model stay while a job works with them: update and removal   *)
(* look at the leases under the lock that grants them.                         *)
ModelInWorkStays ==
  [][\A j \in holding \cap holding' : pin[j] \in modelDir => pin[j] \in modelDir']_vars

(* When Core serves again after a crash or a shutdown at any point, recovery   *)
(* included, directories and rows agree and nothing is left of what failed.    *)
RecoveryReconciles ==
  [][core # "up" /\ core' = "up" =>
       /\ modelDir' = installed' /\ staging' \cup promotion' \cup retired' = {}
       /\ \A d \in Downloads : dstate'[d] \notin Active]_vars

(* A model that a Generation Job in progress pins is not taken from the        *)
(* registry: what operations.md says of removal.                               *)
PinnedModelStays ==
  [][\A j \in Jobs : gen[j] = "live" /\ pin[j] \in installed => pin[j] \in installed']_vars

(* Every download reaches a terminal state, and every activation and removal   *)
(* gives the activation lock back, which the others wait for.                  *)
EveryDownloadEnds ==
  /\ \A d \in Downloads : dstate[d] = "queued" ~> dstate[d] \in Terminal
  /\ []<>ActivationLockFree
=============================================================================
