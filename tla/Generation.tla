----------------------------- MODULE Generation -----------------------------
(***************************************************************************)
(* The Core's Generation Jobs: GenerationService, its GenerationRegistry   *)
(* (one SQLite transaction per call), the WavArtifactWriter, and the       *)
(* one-off Reference Recordings a job owns.                                *)
(*                                                                         *)
(* Core runs on one asyncio event loop.  A step below is what runs between *)
(* two durable effects: a task that awaits a Worker yields the loop, a     *)
(* task inside a synchronous section (Sync) keeps it, and only a crash of  *)
(* the process, or a deletion running in the thread pool, can come between *)
(* two steps of such a section.  A crash keeps the database and the        *)
(* managed files and loses everything else.                                *)
(***************************************************************************)
EXTENDS Naturals, FiniteSets

CONSTANTS
  Jobs,          \* identifiers of Generation Jobs
  Refs,          \* identifiers of uploaded and validated Reference Recordings
  NoJob, NoRef,  \* the SQL NULL of retry_of and of reference_id
  Replicas,      \* leases the Worker pool can grant at a time
  MaxRestarts,   \* bound on crashes and shutdowns of Core
  StorageFaults  \* whether a managed-file operation, or a transaction that
                 \* records, completes or forgets an artifact, may fail

ASSUME GenerationAssumption ==
  /\ NoJob \notin Jobs
  /\ NoRef \notin Refs
  /\ Replicas \in Nat \ {0}
  /\ MaxRestarts \in Nat
  /\ StorageFaults \in BOOLEAN

VARIABLES
  (* the generation_jobs and audio_artifacts tables *)
  state,      \* state of each job, "absent" before its row exists
  cancel,     \* jobs with cancellation_requested = 1
  retain,     \* jobs with retain_artifact = 1
  oneOff,     \* jobs created with a reference_id (voice_id is NULL)
  refOf,      \* reference_id of each job
  err,        \* error code of each job, "transient" for any retryable one
  retryOf,    \* retry_of of each job
  row,        \* jobs that own an audio_artifacts row, and so an artifact_id
  (* the reference_recordings table *)
  refRow,     \* state of each reference, "absent" once its row is deleted
  (* managed files *)
  wav,        \* jobs whose WAV is published below audio/
  pcm,        \* jobs with a private .pcm file below staging/
  refFile,    \* references with a file below staging/references/
  (* the running Core process *)
  core,       \* "down", "recovering", "up" or "closing"
  scan,       \* jobs that startup recovery has still to visit
  pc,         \* where the task of each job is, "none" without a task
  outcome,    \* how the task of each job left its main path
  handle,     \* _reference_handles
  lease,      \* jobs whose task holds a Worker replica
  deleting,   \* jobs whose artifact a deletion has unlinked but not unrecorded
  (* history and bound *)
  erased,     \* jobs whose artifact a client asked to delete
  restarts    \* crashes and shutdowns so far

table   == <<state, cancel, retain, oneOff, refOf, err, retryOf>>
refs    == <<refRow, refFile>>
files   == <<wav, pcm>>
task    == <<pc, outcome, handle, lease>>
process == <<core, scan, restarts>>
history == <<deleting, erased>>
vars    == <<table, row, refs, files, task, process, history>>

Terminal    == {"completed", "cancelled", "failed"}
Active      == {"loading", "generating", "finalizing"}
Cancellable == {"queued", "loading", "generating"}
States      == {"absent", "queued"} \cup Active \cup Terminal
Errors      == {"none", "cancelled", "fatal", "transient", "cleanup_failed",
                "recovery_required", "reference_recovery_required"}
RefStates   == {"validated", "consumed", "cleanup_failed", "absent"}

\* Places where a task awaits, and the synchronous sections in between.
Awaits == {"start", "acquire", "load", "stream", "cleanup", "exit"}
Sync   == {"publish", "record", "release", "drop", "clear", "commit",
           "discard", "unrecord", "settle"}
Outcomes == {"none", "cancel", "fatal", "transient", "cleanup", "closing",
             "recover", "lost"}

Init ==
  /\ state = [j \in Jobs |-> "absent"]
  /\ cancel = {}
  /\ retain = {}
  /\ oneOff = {}
  /\ refOf = [j \in Jobs |-> NoRef]
  /\ err = [j \in Jobs |-> "none"]
  /\ retryOf = [j \in Jobs |-> NoJob]
  /\ row = {}
  /\ refRow = [r \in Refs |-> "validated"]
  /\ refFile = Refs
  /\ wav = {}
  /\ pcm = {}
  /\ core = "up"
  /\ scan = {}
  /\ pc = [j \in Jobs |-> "none"]
  /\ outcome = [j \in Jobs |-> "none"]
  /\ handle = [j \in Jobs |-> NoRef]
  /\ lease = {}
  /\ deleting = {}
  /\ erased = {}
  /\ restarts = 0
-----------------------------------------------------------------------------
(* The registry's rules. *)

Moves == {<<"queued", "loading">>, <<"loading", "generating">>,
          <<"generating", "finalizing">>, <<"finalizing", "completed">>}
         \cup (Cancellable \X {"cancelled"})
         \cup (({"queued"} \cup Active) \X {"failed"})

\* Seeded fault: the transition does not look at cancellation_requested.
CanMoveIgnoringCancel(j, s) == <<state[j], s>> \in Moves

CanMove(j, s) ==
  /\ <<state[j], s>> \in Moves
  /\ j \in cancel => s \in {"cancelled", "failed"}

CanRetry(j) ==
  /\ state[j] = "failed"
  /\ err[j] \in {"transient", "recovery_required"}
  /\ j \in retain
  /\ j \notin row
  /\ refOf[j] = NoRef
  /\ j \notin oneOff

\* Seeded fault: a terminal row is taken for a finished task.
TerminalRowSeen(j) == state[j] \in Terminal

TaskOver(j) == pc[j] = "none"

LoopFree == \A j \in Jobs : pc[j] \notin Sync
NoTasks  == \A j \in Jobs : pc[j] = "none"
Goto(j, l) == pc' = [pc EXCEPT ![j] = l]

\* The task of j leaves its main path with outcome o.  Its cleanup awaits the
\* Worker ("cleanup") only when a model was loaded, else it starts at "discard".
Leave(j, l, o) ==
  /\ Goto(j, l)
  /\ outcome' = [outcome EXCEPT ![j] = o]

\* How an exception ends a task before FINALIZING: a typed Worker failure
\* always wins, any other exception yields to a pending cancellation.
Raised(j) == {"fatal", "transient"} \cup (IF j \in cancel THEN {"cancel"} ELSE {})
-----------------------------------------------------------------------------
(* Requests. *)

\* The row, the in-memory handle, the event and the task of a new job.
Enqueue(j, r, keep, original) ==
  /\ state' = [state EXCEPT ![j] = "queued"]
  /\ retain' = IF keep THEN retain \cup {j} ELSE retain
  /\ oneOff' = IF r # NoRef THEN oneOff \cup {j} ELSE oneOff
  /\ refOf' = [refOf EXCEPT ![j] = r]
  /\ retryOf' = [retryOf EXCEPT ![j] = original]
  /\ Goto(j, "start")
  /\ UNCHANGED <<cancel, err, row, refs, files, outcome, lease, process, history>>

Create(j, keep) ==
  /\ core = "up" /\ LoopFree
  /\ state[j] = "absent" /\ pc[j] = "none"
  /\ Enqueue(j, NoRef, keep, NoJob)
  /\ UNCHANGED handle

\* create claims the reference under a Worker lease and gives the lease back
\* before it inserts the job.  handle stands for create's local until then.
Claim(j, r) ==
  /\ core = "up" /\ LoopFree
  /\ state[j] = "absent" /\ pc[j] = "none"
  /\ refRow[r] = "validated"
  /\ refRow' = [refRow EXCEPT ![r] = "consumed"]
  /\ handle' = [handle EXCEPT ![j] = r]
  /\ Goto(j, "claimed")
  /\ UNCHANGED <<table, row, refFile, files, outcome, lease, process, history>>

\* After a restart the transcript of an uploaded reference is gone: the claim
\* consumes and removes the reference, and the request is refused.
ClaimWithoutTranscript(r) ==
  /\ core = "up" /\ LoopFree /\ restarts > 0
  /\ refRow[r] = "validated"
  /\ \/ /\ refRow' = [refRow EXCEPT ![r] = "absent"]
        /\ refFile' = refFile \ {r}
     \/ /\ StorageFaults
        /\ refRow' = [refRow EXCEPT ![r] = "cleanup_failed"]
        /\ UNCHANGED refFile
  /\ UNCHANGED <<table, row, files, task, process, history>>

CreateClaimed(j, keep) ==
  /\ pc[j] = "claimed" /\ LoopFree
  /\ Enqueue(j, handle[j], keep, NoJob)
  /\ UNCHANGED handle

\* create_job raises: the claimed reference is released before the error.
CreateFails(j) ==
  /\ pc[j] = "claimed" /\ LoopFree /\ StorageFaults
  /\ \/ /\ refRow' = [refRow EXCEPT ![handle[j]] = "absent"]
        /\ refFile' = refFile \ {handle[j]}
     \/ /\ refRow' = [refRow EXCEPT ![handle[j]] = "cleanup_failed"]
        /\ UNCHANGED refFile
  /\ handle' = [handle EXCEPT ![j] = NoRef]
  /\ Goto(j, "none")
  /\ UNCHANGED <<table, row, files, outcome, lease, process, history>>

\* retry waits for the original's task, and create_job checks again in the
\* transaction that inserts the successor.
Retry(j, s) ==
  /\ core = "up" /\ LoopFree
  /\ state[s] = "absent" /\ pc[s] = "none"
  /\ TaskOver(j)
  /\ CanRetry(j)
  /\ \A k \in Jobs : retryOf[k] # j
  /\ Enqueue(s, NoRef, TRUE, j)
  /\ UNCHANGED handle

Cancel(j) ==
  /\ core = "up" /\ LoopFree
  /\ state[j] \in Cancellable
  /\ j \notin cancel
  /\ cancel' = cancel \cup {j}
  /\ UNCHANGED <<state, retain, oneOff, refOf, err, retryOf, row, refs, files,
                 task, process, history>>

\* History deletion runs in the thread pool: it unlinks the file, then deletes
\* the row, and puts the file back when the database refuses.
DeleteUnlink(j) ==
  /\ core = "up"
  /\ state[j] = "completed" /\ j \in row /\ j \in wav
  /\ wav' = wav \ {j}
  /\ deleting' = deleting \cup {j}
  /\ erased' = erased \cup {j}
  /\ UNCHANGED <<table, row, refs, pcm, task, process>>

DeleteRow(j) ==
  /\ j \in deleting
  /\ deleting' = deleting \ {j}
  /\ \/ row' = row \ {j} /\ UNCHANGED <<wav, erased>>
     \/ StorageFaults /\ wav' = wav \cup {j} /\ erased' = erased \ {j} /\ UNCHANGED row
     \/ StorageFaults /\ UNCHANGED <<row, wav, erased>>
  /\ UNCHANGED <<table, refs, pcm, task, process>>
-----------------------------------------------------------------------------
(* A job's task: _run_job up to FINALIZING. *)

Start(j) ==
  /\ pc[j] = "start" /\ LoopFree
  /\ \/ j \in cancel /\ Leave(j, "discard", "cancel")
     \/ j \notin cancel /\ Goto(j, "acquire") /\ UNCHANGED outcome
  /\ UNCHANGED <<table, row, refs, files, handle, lease, process, history>>

\* The next transition of the main path, refused once cancellation is pending.
Advance(j, s, l, undo) ==
  IF CanMove(j, s)
  THEN state' = [state EXCEPT ![j] = s] /\ Goto(j, l) /\ UNCHANGED outcome
  ELSE UNCHANGED state /\ Leave(j, undo, "cancel")

ReplicaFree == Cardinality(lease) < Replicas

Acquire(j) ==
  /\ pc[j] = "acquire" /\ LoopFree
  /\ ReplicaFree
  /\ lease' = lease \cup {j}
  /\ Advance(j, "loading", "load", "discard")
  /\ UNCHANGED <<cancel, retain, oneOff, refOf, err, retryOf, row, refs, files,
                 handle, process, history>>

Load(j) ==
  /\ pc[j] = "load" /\ LoopFree
  /\ Advance(j, "generating", "stream", "cleanup")
  /\ pcm' = IF CanMove(j, "generating") THEN pcm \cup {j} ELSE pcm
  /\ UNCHANGED <<cancel, retain, oneOff, refOf, err, retryOf, row, refs, wav,
                 handle, lease, process, history>>

Stream(j) ==
  /\ pc[j] = "stream" /\ LoopFree
  /\ Advance(j, "finalizing", "publish", "cleanup")
  /\ UNCHANGED <<cancel, retain, oneOff, refOf, err, retryOf, row, refs, files,
                 handle, lease, process, history>>

\* No Worker to wait for.
NoWorker(j) ==
  /\ pc[j] = "acquire" /\ LoopFree
  /\ \E o \in Raised(j) : Leave(j, "discard", o)
  /\ UNCHANGED <<table, row, refs, files, handle, lease, process, history>>

\* A failed load, a malformed or interrupted stream, a cancelled call.
Raise(j) ==
  /\ pc[j] \in {"load", "stream"} /\ LoopFree
  /\ \E o \in Raised(j) : Leave(j, IF pc[j] = "stream" THEN "cleanup" ELSE "discard", o)
  /\ UNCHANGED <<table, row, refs, files, handle, lease, process, history>>
-----------------------------------------------------------------------------
(* _run_job from FINALIZING to COMPLETED, without an await. *)

ReleaseOr(j, l) == IF handle[j] # NoRef THEN "release" ELSE l

Publish(j) ==
  /\ pc[j] = "publish"
  /\ pcm' = pcm \ {j}
  /\ \/ /\ j \in retain
        /\ wav' = wav \cup {j}
        /\ Goto(j, "record")
        /\ UNCHANGED outcome
     \/ /\ j \notin retain
        /\ Goto(j, ReleaseOr(j, "commit"))
        /\ UNCHANGED <<wav, outcome>>
     \/ /\ StorageFaults
        /\ Leave(j, "cleanup", "fatal")
        /\ UNCHANGED wav
  /\ UNCHANGED <<table, row, refs, handle, lease, process, history>>

\* Seeded fault: the task completes although its artifact was not recorded.
RecordAnyway(j) ==
  /\ pc[j] = "record"
  /\ Goto(j, ReleaseOr(j, "commit"))
  /\ \/ row' = row \cup {j}
     \/ StorageFaults /\ UNCHANGED row
  /\ UNCHANGED <<table, refs, files, outcome, handle, lease, process, history>>

Record(j) ==
  /\ pc[j] = "record"
  /\ \/ /\ row' = row \cup {j}
        /\ Goto(j, ReleaseOr(j, "commit"))
        /\ UNCHANGED outcome
     \/ /\ StorageFaults
        /\ Leave(j, "cleanup", "fatal")
        /\ UNCHANGED row
  /\ UNCHANGED <<table, refs, files, handle, lease, process, history>>

Commit(j) ==
  /\ pc[j] = "commit"
  /\ \/ Advance(j, "completed", "exit", "cleanup")
     \/ StorageFaults /\ Leave(j, "cleanup", "fatal") /\ UNCHANGED state
  /\ UNCHANGED <<cancel, retain, oneOff, refOf, err, retryOf, row, refs, files,
                 handle, lease, process, history>>
-----------------------------------------------------------------------------
(* Releasing a job's reference: unlink the file, delete the row, clear        *)
(* reference_id.  The main path does it before COMPLETED, the cleanup before  *)
(* the terminal state, and recovery and shutdown ("lost") around it.          *)

Release(j) ==
  /\ pc[j] = "release"
  /\ \/ /\ refFile' = refFile \ {refOf[j]}
        /\ Goto(j, "drop")
        /\ UNCHANGED <<refRow, outcome, handle>>
     \/ /\ StorageFaults
        /\ refRow' = [refRow EXCEPT ![refOf[j]] = "cleanup_failed"]
        /\ handle' = [handle EXCEPT ![j] = NoRef]
        /\ outcome' = [outcome EXCEPT ![j] = "cleanup"]
        /\ Goto(j, IF outcome[j] = "none" THEN "cleanup" ELSE "settle")
        /\ UNCHANGED refFile
  /\ UNCHANGED <<table, row, files, lease, process, history>>

Drop(j) ==
  /\ pc[j] = "drop"
  /\ refRow' = [refRow EXCEPT ![refOf[j]] = "absent"]
  /\ handle' = [handle EXCEPT ![j] = NoRef]
  /\ Goto(j, IF outcome[j] = "lost" THEN "settle" ELSE "clear")
  /\ UNCHANGED <<table, row, refFile, files, outcome, lease, process, history>>

Clear(j) ==
  /\ pc[j] = "clear"
  /\ refOf' = [refOf EXCEPT ![j] = NoRef]
  /\ Goto(j, CASE outcome[j] = "none" -> "commit"
               [] outcome[j] = "lost" -> "none"
               [] OTHER               -> "settle")
  /\ outcome' = [outcome EXCEPT ![j] = IF @ = "lost" THEN "none" ELSE @]
  /\ UNCHANGED <<state, cancel, retain, oneOff, err, retryOf, row, refs, files,
                 handle, lease, process, history>>
-----------------------------------------------------------------------------
(* The finally block of _run_job. *)

\* Closing the stream and unloading the model await the Worker and may fail.
CloseWorkerCall(j) ==
  /\ pc[j] = "cleanup" /\ LoopFree
  /\ \E o \in {outcome[j], "cleanup"} : Leave(j, "discard", o)
  /\ UNCHANGED <<table, row, refs, files, handle, lease, process, history>>

\* Seeded fault: the cleanup forgets the reference.
AfterDiscardForgetful(j) == "settle"

\* A closing Core keeps the handle: GenerationService.close releases it.
AfterDiscard(j) == IF core = "up" THEN ReleaseOr(j, "settle") ELSE "settle"

\* Seeded fault: the published artifact keeps its row.
AfterUnlinkForgetful(j) == AfterDiscard(j)

AfterUnlink(j) == IF j \in row THEN "unrecord" ELSE AfterDiscard(j)

Discard(j) ==
  /\ pc[j] = "discard"
  /\ \/ /\ wav' = wav \ {j}
        /\ pcm' = pcm \ {j}
        /\ Goto(j, AfterUnlink(j))
        /\ UNCHANGED outcome
     \/ /\ StorageFaults /\ j \in wav \cup pcm
        /\ outcome' = [outcome EXCEPT ![j] = "cleanup"]
        /\ Goto(j, AfterDiscard(j))
        /\ UNCHANGED files
  /\ UNCHANGED <<table, row, refs, handle, lease, process, history>>

Unrecord(j) ==
  /\ pc[j] = "unrecord"
  /\ Goto(j, AfterDiscard(j))
  /\ \/ row' = row \ {j} /\ UNCHANGED outcome
     \/ StorageFaults /\ outcome' = [outcome EXCEPT ![j] = "cleanup"] /\ UNCHANGED row
  /\ UNCHANGED <<table, refs, files, handle, lease, process, history>>

\* Seeded fault: the reason inside the process is written to the row.
ErrorOfRaw(j) == outcome[j]

\* The durable error of a failure; _fail_job keeps the retryable fact only for
\* jobs that a retry could repeat.
ErrorOf(j) ==
  CASE outcome[j] = "cancel"    -> "cancelled"
    [] outcome[j] = "cleanup"   -> "cleanup_failed"
    [] outcome[j] = "recover"   -> "recovery_required"
    [] outcome[j] = "lost"      -> "reference_recovery_required"
    [] /\ outcome[j] = "transient" /\ j \in retain \ row
       /\ refOf[j] = NoRef /\ j \notin oneOff -> "transient"
    [] OTHER -> "fatal"

\* Seeded fault: a later failure overwrites a terminal row.
ResolvedOnlyByShutdown(j) == outcome[j] = "closing"

Resolved(j) == state[j] \in Terminal \/ outcome[j] = "closing"

\* _fail_job, _cancel_job and mark_recovery_failure: no-ops on terminal jobs,
\* and a task cancelled by shutdown leaves its job to the next recovery.
Settle(j) ==
  /\ pc[j] = "settle"
  /\ IF Resolved(j)
     THEN UNCHANGED <<state, err>>
     ELSE /\ state' = [state EXCEPT ![j] =
                         IF outcome[j] = "cancel" THEN "cancelled" ELSE "failed"]
          /\ err' = [err EXCEPT ![j] = ErrorOf(j)]
  /\ Goto(j, CASE outcome[j] = "lost" -> "clear"
               [] outcome[j] # "lost" /\ core = "up" -> "exit"
               [] OTHER -> "none")
  /\ outcome' = [outcome EXCEPT ![j] = IF @ = "lost" THEN @ ELSE "none"]
  /\ lease' = IF core = "up" THEN lease ELSE lease \ {j}
  /\ UNCHANGED <<cancel, retain, oneOff, refOf, retryOf, row, refs, files,
                 handle, process, history>>

\* Seeded fault: only a completed job gives its lease back.
ExitAfterSuccess(j) ==
  /\ pc[j] = "exit" /\ LoopFree
  /\ Goto(j, "none")
  /\ lease' = IF state[j] = "completed" THEN lease \ {j} ELSE lease
  /\ UNCHANGED <<table, row, refs, files, outcome, handle, process, history>>

\* The terminal state is visible before the task ends its subscribers, unloads
\* a completed job's model and gives its lease back.
Exit(j) ==
  /\ pc[j] = "exit" /\ LoopFree
  /\ Goto(j, "none")
  /\ lease' = lease \ {j}
  /\ UNCHANGED <<table, row, refs, files, outcome, handle, process, history>>
-----------------------------------------------------------------------------
(* The Core process: shutdown, crash, and recovery at the next start. *)

\* close cancels every task where it awaits.  Only a task with an open stream
\* then has something to close; a CancelledError inside the finally block
\* abandons the rest of that block.
Shutdown ==
  /\ core = "up" /\ LoopFree
  /\ restarts < MaxRestarts
  /\ \A j \in Jobs : pc[j] # "claimed"
  /\ restarts' = restarts + 1
  /\ core' = "closing"
  /\ pc' = [j \in Jobs |-> IF pc[j] = "stream" THEN "cleanup" ELSE "none"]
  /\ outcome' = [j \in Jobs |-> IF pc[j] = "stream" THEN "closing" ELSE "none"]
  /\ lease' = {j \in lease : pc[j] = "stream"}
  /\ UNCHANGED <<table, row, refs, files, handle, scan, history>>

CloseReference(j) ==
  /\ core = "closing" /\ NoTasks
  /\ handle[j] # NoRef
  /\ \/ /\ state[j] \in Terminal
        /\ handle' = [handle EXCEPT ![j] = NoRef]
        /\ UNCHANGED <<pc, outcome>>
     \/ /\ state[j] \notin Terminal
        /\ Goto(j, "release")
        /\ outcome' = [outcome EXCEPT ![j] = "lost"]
        /\ UNCHANGED handle
  /\ UNCHANGED <<table, row, refs, files, lease, process, history>>

Lost ==
  /\ core' = "down"
  /\ scan' = {}
  /\ pc' = [j \in Jobs |-> "none"]
  /\ outcome' = [j \in Jobs |-> "none"]
  /\ handle' = [j \in Jobs |-> NoRef]
  /\ lease' = {}
  /\ deleting' = {}
  /\ UNCHANGED <<table, row, refs, files, erased>>

Stop ==
  /\ core = "closing" /\ NoTasks
  /\ \A j \in Jobs : handle[j] = NoRef
  /\ deleting = {}
  /\ Lost
  /\ UNCHANGED restarts

Crash ==
  /\ core # "down"
  /\ restarts < MaxRestarts
  /\ restarts' = restarts + 1
  /\ Lost

Boot ==
  /\ core = "down"
  /\ core' = "recovering"
  /\ pcm' = {}
  /\ scan' = {j \in Jobs : state[j] # "absent"}
  /\ UNCHANGED <<table, row, refs, wav, task, restarts, history>>

Visit(j) ==
  /\ core = "recovering" /\ LoopFree
  /\ j \in scan
  /\ scan' = scan \ {j}
  /\ UNCHANGED <<core, restarts>>

OwnsReference(j) == refOf[j] # NoRef /\ state[j] \notin Terminal

\* Seeded faults: completed jobs are cleaned up too; finalizing ones are not.
InterruptedOrDone(j) == state[j] \in Active \cup {"completed"}
InterruptedEarly(j)  == state[j] \in {"loading", "generating"} \/ err[j] = "cleanup_failed"

Interrupted(j) == state[j] \in Active \/ err[j] = "cleanup_failed"

RecoverReference(j) ==
  /\ OwnsReference(j)
  /\ refRow[refOf[j]] # "absent"
  /\ Visit(j)
  /\ Goto(j, "release")
  /\ outcome' = [outcome EXCEPT ![j] = "lost"]
  /\ UNCHANGED <<table, row, refs, files, handle, lease, history>>

\* The lookup of a reference whose row is gone raises out of recover, and the
\* start of Core fails.
RecoveryAborts(j) ==
  /\ core = "recovering" /\ LoopFree
  /\ j \in scan
  /\ OwnsReference(j)
  /\ refRow[refOf[j]] = "absent"
  /\ Lost
  /\ UNCHANGED restarts

\* _remove_job_artifact removes a recorded WAV and its row, and refuses to
\* remove a WAV that no row identifies.
RecoverArtifact(j) ==
  /\ ~OwnsReference(j) /\ Interrupted(j)
  /\ Visit(j)
  /\ \/ /\ j \in row
        /\ wav' = wav \ {j}
        /\ Goto(j, "unrecord")
        /\ outcome' = [outcome EXCEPT ![j] = "recover"]
     \/ /\ j \notin row /\ j \notin wav
        /\ Goto(j, "settle")
        /\ outcome' = [outcome EXCEPT ![j] = "recover"]
        /\ UNCHANGED wav
     \/ /\ j \in wav /\ (j \notin row \/ StorageFaults)
        /\ Goto(j, "settle")
        /\ outcome' = [outcome EXCEPT ![j] = "cleanup"]
        /\ UNCHANGED wav
  /\ UNCHANGED <<table, row, refs, pcm, handle, lease, history>>

RecoverOther(j) ==
  /\ ~OwnsReference(j) /\ ~Interrupted(j)
  /\ Visit(j)
  /\ UNCHANGED <<table, row, refs, files, task, history>>

Resumes(j) == state[j] = "queued"

\* ModelActivation.recover removes every entry of staging/ that is no retired
\* model, and so all of staging/references/.  A sweep that fails ends the start
\* of Core, as a crash does.
SweptReferences == {}

\* The end of startup: ReferenceService.recover clears what no job owns any
\* more, model recovery sweeps staging/, and every queued job gets a task.
StartServing ==
  /\ core = "recovering" /\ LoopFree
  /\ scan = {}
  /\ core' = "up"
  /\ LET stale == {r \in Refs : refRow[r] \in {"consumed", "cleanup_failed"}}
     IN \E bad \in SUBSET stale :
          /\ bad # {} => StorageFaults
          /\ refRow' = [r \in Refs |-> CASE r \in bad -> "cleanup_failed"
                                         [] r \in stale \ bad -> "absent"
                                         [] OTHER -> refRow[r]]
  /\ refFile' = SweptReferences
  /\ pc' = [j \in Jobs |-> IF Resumes(j) THEN "start" ELSE "none"]
  /\ UNCHANGED <<table, row, files, outcome, handle, lease, scan, restarts, history>>
-----------------------------------------------------------------------------
Request(j) ==
  \/ \E keep \in BOOLEAN : Create(j, keep) \/ CreateClaimed(j, keep)
  \/ \E r \in Refs : Claim(j, r)
  \/ \E s \in Jobs : Retry(j, s)
  \/ CreateFails(j)
  \/ Cancel(j)
  \/ DeleteUnlink(j)
  \/ DeleteRow(j)

RunStep(j) ==
  \/ Start(j) \/ Acquire(j) \/ Load(j) \/ Stream(j) \/ Raise(j)
  \/ Publish(j) \/ Record(j) \/ Commit(j)
  \/ Release(j) \/ Drop(j) \/ Clear(j)
  \/ CloseWorkerCall(j) \/ Discard(j) \/ Unrecord(j) \/ Settle(j) \/ Exit(j)

RecoveryStep(j) ==
  \/ RecoverReference(j) \/ RecoveryAborts(j) \/ RecoverArtifact(j) \/ RecoverOther(j)

ProcessStep == Shutdown \/ Stop \/ Crash \/ Boot \/ StartServing

Next ==
  \/ \E j \in Jobs : Request(j) \/ RunStep(j) \/ NoWorker(j) \/ RecoveryStep(j) \/ CloseReference(j)
  \/ \E r \in Refs : ClaimWithoutTranscript(r)
  \/ ProcessStep

Spec == Init /\ [][Next]_vars

\* A task is scheduled again after every await, each Worker call has a deadline
\* that ends it one way or the other, and Core is started again when it stops.
\* NoWorker is not fair: a waiting task may only count on a replica coming free.
Fairness ==
  /\ \A j \in Jobs : WF_vars(RunStep(j)) /\ WF_vars(RecoveryStep(j) \/ CloseReference(j))
  /\ WF_vars(\E j \in Jobs : DeleteRow(j))
  /\ WF_vars(Boot) /\ WF_vars(StartServing) /\ WF_vars(Stop)

FairSpec == Spec /\ Fairness
-----------------------------------------------------------------------------
TypeOK ==
  /\ state \in [Jobs -> States]
  /\ cancel \subseteq Jobs /\ retain \subseteq Jobs /\ oneOff \subseteq Jobs
  /\ refOf \in [Jobs -> Refs \cup {NoRef}]
  /\ err \in [Jobs -> Errors]
  /\ retryOf \in [Jobs -> Jobs \cup {NoJob}]
  /\ row \subseteq Jobs /\ wav \subseteq Jobs /\ pcm \subseteq Jobs
  /\ refRow \in [Refs -> RefStates] /\ refFile \subseteq Refs
  /\ pc \in [Jobs -> {"none", "claimed"} \cup Awaits \cup Sync]
  /\ outcome \in [Jobs -> Outcomes]
  /\ handle \in [Jobs -> Refs \cup {NoRef}]
  /\ lease \subseteq Jobs
  /\ core \in {"down", "recovering", "up", "closing"}
  /\ scan \subseteq Jobs
  /\ deleting \subseteq Jobs /\ erased \subseteq Jobs
  /\ restarts \in 0 .. MaxRestarts

(* A completed job whose recording was to be kept, and that no client deleted, *)
(* has both its history row and its WAV file, across crashes and restarts:     *)
(* neither the task's own cleanup nor recovery takes published audio away.     *)
AudioDurable ==
  \A j \in retain : state[j] = "completed" /\ j \notin erased => j \in row /\ j \in wav

(* Whenever Core serves, a Preset Voice job that failed or was cancelled left  *)
(* no row, no WAV and no private PCM, unless it says that its cleanup failed.  *)
NoPartialArtifactForVoices ==
  core = "up" =>
    \A j \in Jobs \ oneOff :
      state[j] \in {"failed", "cancelled"} /\ err[j] # "cleanup_failed"
        => j \notin row \cup wav \cup pcm

(* While Core serves, every job that is not terminal has a task working on it, *)
(* and one that is loading, generating or finalizing holds a replica until its *)
(* terminal state is durable.                                                  *)
NoStrandedJob ==
  core = "up" =>
    \A j \in Jobs :
      /\ state[j] \in {"queued"} \cup Active => pc[j] # "none"
      /\ state[j] \in Active => j \in lease

(* A cancellation accepted before finalizing is never overtaken by completion. *)
CancelledNeverCompletes ==
  \A j \in cancel : state[j] \notin {"finalizing", "completed"}

(* While Core serves, a consumed reference belongs to exactly one live task,   *)
(* and a recording on disk always has its metadata row.  A task that may still *)
(* read its recording owns it, and finds it on disk unless a restart took it   *)
(* before the job was created (ValidatedIsOnDisk).                             *)
OwnedByOne(r) ==
  \E j \in Jobs : /\ handle[j] = r
                  /\ pc[j] # "none" /\ state[j] \notin Terminal
                  /\ \A k \in Jobs : handle[k] = r => k = j
ReadsItsRecording(j) ==
  pc[j] \in {"start", "acquire", "load", "stream"} /\ refOf[j] # NoRef
    => /\ refRow[refOf[j]] = "consumed"
       /\ restarts = 0 => refOf[j] \in refFile
EveryRecordingIsOwned ==
  /\ core = "up" => \A r \in Refs : refRow[r] = "consumed" => OwnedByOne(r)
  /\ \A r \in refFile : refRow[r] # "absent"
  /\ \A j \in Jobs : ReadsItsRecording(j)

(* A reference that may still be claimed has its recording: recovery of models *)
(* leaves alone what recovery of references has kept.                          *)
ValidatedIsOnDisk ==
  core = "up" => \A r \in Refs : refRow[r] = "validated" => r \in refFile

(* An attempt is repeated only after its own task is over and nothing of it is *)
(* left, and it stays failed ever after.                                       *)
AttemptsNeverOverlap ==
  \A s \in Jobs : retryOf[s] # NoJob =>
    LET j == retryOf[s] IN
    /\ state[j] = "failed" /\ pc[j] = "none"
    /\ j \notin row \cup wav

(* A terminal state and its error are final, whatever recovery does later.     *)
TerminalIsFinal ==
  [][\A j \in Jobs : state[j] \in Terminal => state'[j] = state[j] /\ err'[j] = err[j]]_vars

(* The history shows a recording from the step that completes its job to the   *)
(* deletion a client asked for: the jobs implement JobLifecycle.               *)
Lifecycle == INSTANCE JobLifecycle WITH
  status  <- [j \in Jobs |-> IF state[j] \in {"queued"} \cup Active THEN "pending" ELSE state[j]],
  kept    <- retain,
  offered <- {j \in row : state[j] = "completed"}
LifecycleHolds == Lifecycle!LifecycleSpec

(* Every accepted job reaches a terminal state, and no job that has ended, or  *)
(* failed to clean up, keeps its replica from the others.                      *)
EveryJobEnds ==
  \A j \in Jobs : state[j] = "queued" ~> state[j] \in Terminal /\ j \notin lease

(* Once Core runs its recovery it comes to serve, or stops for another reason  *)
(* than recovery itself giving up.                                             *)
RecoveryFinishes == core = "recovering" ~> core = "up"
=============================================================================
