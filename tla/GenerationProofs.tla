-------------------------- MODULE GenerationProofs --------------------------
(***************************************************************************)
(* Theorems about Generation, for every set of jobs and references, every  *)
(* number of replicas and of restarts, with or without storage faults.     *)
(***************************************************************************)
EXTENDS Generation, TLAPS

(* One request of a client keeps the types.                                *)
LEMMA RequestType ==
  ASSUME TypeOK, NEW j \in Jobs, Request(j) PROVE TypeOK'
<1> USE GenerationAssumption
<1>1. ASSUME NEW keep \in BOOLEAN, Create(j, keep) PROVE TypeOK'
  BY <1>1 DEF TypeOK, Create, Enqueue, Goto, States, Awaits, refs, files, process, history
<1>2. ASSUME NEW keep \in BOOLEAN, CreateClaimed(j, keep) PROVE TypeOK'
  BY <1>2 DEF TypeOK, CreateClaimed, Enqueue, Goto, States, Awaits, refs, files, process, history
<1>3. ASSUME NEW r \in Refs, Claim(j, r) PROVE TypeOK'
  BY <1>3 DEF TypeOK, Claim, Goto, RefStates, table, files, process, history
<1>4. ASSUME NEW s \in Jobs, Retry(j, s) PROVE TypeOK'
  BY <1>4 DEF TypeOK, Retry, Enqueue, Goto, States, Awaits, refs, files, process, history
<1>5. CASE CreateFails(j)
  BY <1>5 DEF TypeOK, CreateFails, Goto, RefStates, table, files, process, history
<1>6. CASE Cancel(j)
  BY <1>6 DEF TypeOK, Cancel, refs, files, task, process, history
<1>7. CASE DeleteUnlink(j)
  BY <1>7 DEF TypeOK, DeleteUnlink, table, refs, task, process
<1>8. CASE DeleteRow(j)
  BY <1>8 DEF TypeOK, DeleteRow, table, refs, task, process
<1> QED BY <1>1, <1>2, <1>3, <1>4, <1>5, <1>6, <1>7, <1>8 DEF Request

(* One step of a job's task keeps the types.                               *)
LEMMA RunStepType ==
  ASSUME TypeOK, NEW j \in Jobs, RunStep(j) \/ NoWorker(j) PROVE TypeOK'
<1>1. CASE Start(j)
  BY <1>1
    DEF TypeOK, Start, Awaits, Sync, Outcomes, Goto, Leave, Advance, table, refs, files,
        task, process, history
<1>2. CASE Acquire(j)
  BY <1>2
    DEF TypeOK, Acquire, States, Active, Awaits, Sync, Outcomes, Goto, Leave, Advance,
        table, refs, files, task, process, history
<1>3. CASE Load(j)
  BY <1>3
    DEF TypeOK, Load, States, Active, Awaits, Sync, Outcomes, Goto, Leave, Advance, table,
        refs, files, task, process, history
<1>4. CASE Stream(j)
  BY <1>4
    DEF TypeOK, Stream, States, Active, Awaits, Sync, Outcomes, Goto, Leave, Advance, table,
        refs, files, task, process, history
<1>5. CASE NoWorker(j)
  BY <1>5
    DEF TypeOK, NoWorker, Raised, Awaits, Sync, Outcomes, Goto, Leave, Advance, table, refs,
        files, task, process, history
<1>6. CASE Raise(j)
  BY <1>6
    DEF TypeOK, Raise, Raised, Awaits, Sync, Outcomes, Goto, Leave, Advance, table, refs,
        files, task, process, history
<1>7. CASE Publish(j)
  BY <1>7
    DEF TypeOK, Publish, ReleaseOr, Awaits, Sync, Outcomes, Goto, Leave, Advance, table,
        refs, files, task, process, history
<1>8. CASE Record(j)
  BY <1>8
    DEF TypeOK, Record, ReleaseOr, Awaits, Sync, Outcomes, Goto, Leave, Advance, table,
        refs, files, task, process, history
<1>9. CASE Commit(j)
  BY <1>9
    DEF TypeOK, Commit, States, Active, Terminal, Awaits, Sync, Outcomes, Goto, Leave,
        Advance, table, refs, files, task, process, history
<1>10. CASE Release(j)
  BY <1>10
    DEF TypeOK, Release, RefStates, ReleaseOr, Awaits, Sync, Outcomes, Goto, Leave, Advance,
        table, refs, files, task, process, history
<1>11. CASE Drop(j)
  BY <1>11
    DEF TypeOK, Drop, RefStates, Awaits, Sync, Outcomes, Goto, Leave, Advance, table, refs,
        files, task, process, history
<1>12. CASE Clear(j)
  BY <1>12
    DEF TypeOK, Clear, Awaits, Sync, Outcomes, Goto, Leave, Advance, table, refs, files,
        task, process, history
<1>13. CASE CloseWorkerCall(j)
  BY <1>13
    DEF TypeOK, CloseWorkerCall, Awaits, Sync, Outcomes, Goto, Leave, Advance, table, refs,
        files, task, process, history
<1>14. CASE Discard(j)
  BY <1>14
    DEF TypeOK, Discard, AfterUnlink, AfterDiscard, ReleaseOr, Awaits, Sync, Outcomes, Goto,
        Leave, Advance, table, refs, files, task, process, history
<1>15. CASE Unrecord(j)
  BY <1>15
    DEF TypeOK, Unrecord, AfterDiscard, ReleaseOr, Awaits, Sync, Outcomes, Goto, Leave,
        Advance, table, refs, files, task, process, history
<1>16. CASE Settle(j)
  BY <1>16
    DEF TypeOK, Settle, ErrorOf, Errors, States, Terminal, Resolved, Awaits, Sync, Outcomes,
        Goto, Leave, Advance, table, refs, files, task, process, history
<1>17. CASE Exit(j)
  BY <1>17
    DEF TypeOK, Exit, Awaits, Sync, Outcomes, Goto, Leave, Advance, table, refs, files,
        task, process, history
<1> QED BY <1>1, <1>2, <1>3, <1>4, <1>5, <1>6, <1>7, <1>8, <1>9, <1>10, <1>11, <1>12, <1>13, <1>14, <1>15, <1>16, <1>17 DEF RunStep

(* Recovery and shutdown keep the types.                                   *)
LEMMA ProcessType ==
  ASSUME TypeOK,
         \/ \E j \in Jobs : RecoveryStep(j) \/ CloseReference(j)
         \/ \E r \in Refs : ClaimWithoutTranscript(r)
         \/ ProcessStep
  PROVE  TypeOK'
<1> USE GenerationAssumption
<1>1. ASSUME NEW j \in Jobs, RecoverReference(j) PROVE TypeOK'
  BY <1>1
    DEF TypeOK, RecoverReference, Visit, Lost, Sync, Outcomes, Goto, table, refs, files,
        task, process, history
<1>2. ASSUME NEW j \in Jobs, RecoveryAborts(j) PROVE TypeOK'
  BY <1>2
    DEF TypeOK, RecoveryAborts, Visit, Lost, Sync, Outcomes, Goto, table, refs, files, task,
        process, history
<1>3. ASSUME NEW j \in Jobs, RecoverArtifact(j) PROVE TypeOK'
  BY <1>3
    DEF TypeOK, RecoverArtifact, Visit, Lost, Sync, Outcomes, Goto, table, refs, files,
        task, process, history
<1>4. ASSUME NEW j \in Jobs, RecoverOther(j) PROVE TypeOK'
  BY <1>4
    DEF TypeOK, RecoverOther, Visit, Lost, Sync, Outcomes, Goto, table, refs, files, task,
        process, history
<1>5. ASSUME NEW j \in Jobs, CloseReference(j) PROVE TypeOK'
  BY <1>5
    DEF TypeOK, CloseReference, Visit, Lost, Sync, Outcomes, Goto, table, refs, files, task,
        process, history
<1>6. ASSUME NEW r \in Refs, ClaimWithoutTranscript(r) PROVE TypeOK'
  BY <1>6 DEF TypeOK, ClaimWithoutTranscript, RefStates, table, files, task, process, history
<1>7. CASE Shutdown
  BY <1>7
    DEF TypeOK, Shutdown, Lost, Awaits, Outcomes, RefStates, table, refs, files, task,
        process, history
<1>8. CASE Stop
  BY <1>8
    DEF TypeOK, Stop, Lost, Awaits, Outcomes, RefStates, table, refs, files, task, process,
        history
<1>9. CASE Crash
  BY <1>9
    DEF TypeOK, Crash, Lost, Awaits, Outcomes, RefStates, table, refs, files, task, process,
        history
<1>10. CASE Boot
  BY <1>10
    DEF TypeOK, Boot, Lost, Awaits, Outcomes, RefStates, table, refs, files, task, process,
        history
<1>11. CASE StartServing
  BY <1>11
    DEF TypeOK, StartServing, SweptReferences, Lost, Awaits, Outcomes, RefStates, table, refs, files, task,
        process, history
<1> QED BY <1>1, <1>2, <1>3, <1>4, <1>5, <1>6, <1>7, <1>8, <1>9, <1>10, <1>11 DEF RecoveryStep, ProcessStep

(* Every reachable state is well typed.                                    *)
THEOREM TypeCorrect == Spec => []TypeOK
<1>1. Init => TypeOK
  BY GenerationAssumption DEF Init, TypeOK, States, Errors, RefStates, Outcomes
<1>2. TypeOK /\ [Next]_vars => TypeOK'
  <2>1. ASSUME TypeOK, UNCHANGED vars PROVE TypeOK'
    BY <2>1 DEF TypeOK, vars, table, refs, files, task, process, history
  <2>2. ASSUME TypeOK, Next PROVE TypeOK'
    BY <2>2, RequestType, RunStepType, ProcessType DEF Next
  <2> QED BY <2>1, <2>2
<1> QED BY <1>1, <1>2, PTL DEF Spec

(* Where a job's task is agrees with its row and its files: no task works on a *)
(* completed job, a task on its way to COMPLETED has stored exactly what was   *)
(* to be kept, and a deletion holds a completed, recorded job.                 *)
TaskAgreesWithRow(j) ==
  /\ pc[j] \notin {"none", "exit"} => state[j] # "completed"
  /\ pc[j] = "claimed" => state[j] = "absent" /\ core = "up"
  /\ pc[j] \notin {"none", "claimed"} => state[j] # "absent"
  /\ j \in scan \/ (handle[j] # NoRef /\ pc[j] # "claimed") => state[j] # "absent"
  /\ pc[j] \in {"cleanup", "discard", "unrecord"} => outcome[j] # "none"
StoredAsAsked(j) ==
  /\ j \in row => j \in retain
  /\ pc[j] = "record" => j \in wav \cap retain
  /\ pc[j] = "commit" \/ (pc[j] \in {"release", "drop", "clear"} /\ outcome[j] = "none")
       => (j \in retain <=> j \in row) /\ (j \in retain => j \in wav)
ErrorMeansEnded(j) == err[j] # "none" => state[j] \in {"failed", "cancelled"}
DeletionHoldsCompleted(j) ==
  j \in deleting => j \in row \cap erased /\ state[j] = "completed"
Bookkeeping ==
  \A j \in Jobs :
    TaskAgreesWithRow(j) /\ StoredAsAsked(j) /\ ErrorMeansEnded(j) /\ DeletionHoldsCompleted(j)

(* The bookkeeping of tasks and rows, with the audio it protects.  It is       *)
(* stronger than AudioDurable because recovery and cleanup decide what to      *)
(* remove from the state and the error of a job, not from its audio.           *)
Durable == Bookkeeping /\ AudioDurable

LEMMA RunStepDurable ==
  ASSUME TypeOK, TypeOK', Durable, NEW j \in Jobs, RunStep(j) \/ NoWorker(j) PROVE Durable'
<1> USE DEF TypeOK
<1>1. CASE Start(j)
  BY <1>1
    DEF Durable, Bookkeeping, TaskAgreesWithRow, StoredAsAsked, ErrorMeansEnded,
        DeletionHoldsCompleted, AudioDurable, Start, Leave, Goto, table, refs, files, task,
        process, history
<1>2. CASE Acquire(j)
  BY <1>2
    DEF Durable, Bookkeeping, TaskAgreesWithRow, StoredAsAsked, ErrorMeansEnded,
        DeletionHoldsCompleted, AudioDurable, Acquire, Leave, Advance, Moves, CanMove,
        Active, Terminal, Cancellable, Goto, table, refs, files, task, process, history
<1>3. CASE Load(j)
  BY <1>3
    DEF Durable, Bookkeeping, TaskAgreesWithRow, StoredAsAsked, ErrorMeansEnded,
        DeletionHoldsCompleted, AudioDurable, Load, Leave, Advance, Moves, CanMove, Active,
        Terminal, Cancellable, Goto, table, refs, files, task, process, history
<1>4. CASE Stream(j)
  BY <1>4
    DEF Durable, Bookkeeping, TaskAgreesWithRow, StoredAsAsked, ErrorMeansEnded,
        DeletionHoldsCompleted, AudioDurable, Stream, Leave, Advance, Moves, CanMove,
        Active, Terminal, Cancellable, Goto, table, refs, files, task, process, history
<1>5. CASE NoWorker(j)
  BY <1>5
    DEF Durable, Bookkeeping, TaskAgreesWithRow, StoredAsAsked, ErrorMeansEnded,
        DeletionHoldsCompleted, AudioDurable, NoWorker, Leave, Raised, Goto, table, refs,
        files, task, process, history
<1>6. CASE Raise(j)
  BY <1>6
    DEF Durable, Bookkeeping, TaskAgreesWithRow, StoredAsAsked, ErrorMeansEnded,
        DeletionHoldsCompleted, AudioDurable, Raise, Leave, Raised, Goto, table, refs,
        files, task, process, history
<1>7. CASE Publish(j)
  BY <1>7
    DEF Durable, Bookkeeping, TaskAgreesWithRow, StoredAsAsked, ErrorMeansEnded,
        DeletionHoldsCompleted, AudioDurable, Publish, Leave, ReleaseOr, Goto, table, refs,
        files, task, process, history
<1>8. CASE Record(j)
  BY <1>8
    DEF Durable, Bookkeeping, TaskAgreesWithRow, StoredAsAsked, ErrorMeansEnded,
        DeletionHoldsCompleted, AudioDurable, Record, Leave, ReleaseOr, Goto, table, refs,
        files, task, process, history
<1>9. CASE Commit(j)
  BY <1>9
    DEF Durable, Bookkeeping, TaskAgreesWithRow, StoredAsAsked, ErrorMeansEnded,
        DeletionHoldsCompleted, AudioDurable, Commit, Leave, Advance, Moves, CanMove,
        Active, Terminal, Cancellable, Goto, table, refs, files, task, process, history
<1>10. CASE Release(j)
  BY <1>10
    DEF Durable, Bookkeeping, TaskAgreesWithRow, StoredAsAsked, ErrorMeansEnded,
        DeletionHoldsCompleted, AudioDurable, Release, Goto, table, refs, files, task,
        process, history
<1>11. CASE Drop(j)
  BY <1>11
    DEF Durable, Bookkeeping, TaskAgreesWithRow, StoredAsAsked, ErrorMeansEnded,
        DeletionHoldsCompleted, AudioDurable, Drop, Goto, table, refs, files, task, process,
        history
<1>12. CASE Clear(j)
  BY <1>12
    DEF Durable, Bookkeeping, TaskAgreesWithRow, StoredAsAsked, ErrorMeansEnded,
        DeletionHoldsCompleted, AudioDurable, Clear, Goto, table, refs, files, task,
        process, history
<1>13. CASE CloseWorkerCall(j)
  BY <1>13
    DEF Durable, Bookkeeping, TaskAgreesWithRow, StoredAsAsked, ErrorMeansEnded,
        DeletionHoldsCompleted, AudioDurable, CloseWorkerCall, Leave, Goto, table, refs,
        files, task, process, history
<1>14. CASE Discard(j)
  BY <1>14
    DEF Durable, Bookkeeping, TaskAgreesWithRow, StoredAsAsked, ErrorMeansEnded,
        DeletionHoldsCompleted, AudioDurable, Discard, AfterUnlink, AfterDiscard, ReleaseOr,
        Goto, table, refs, files, task, process, history
<1>15. CASE Unrecord(j)
  BY <1>15
    DEF Durable, Bookkeeping, TaskAgreesWithRow, StoredAsAsked, ErrorMeansEnded,
        DeletionHoldsCompleted, AudioDurable, Unrecord, AfterDiscard, ReleaseOr, Goto,
        table, refs, files, task, process, history
<1>16. CASE Settle(j)
  BY <1>16
    DEF Durable, Bookkeeping, TaskAgreesWithRow, StoredAsAsked, ErrorMeansEnded,
        DeletionHoldsCompleted, AudioDurable, Settle, ErrorOf, Resolved, Terminal, Goto,
        table, refs, files, task, process, history
<1>17. CASE Exit(j)
  BY <1>17
    DEF Durable, Bookkeeping, TaskAgreesWithRow, StoredAsAsked, ErrorMeansEnded,
        DeletionHoldsCompleted, AudioDurable, Exit, Goto, table, refs, files, task, process,
        history
<1> QED BY <1>1, <1>2, <1>3, <1>4, <1>5, <1>6, <1>7, <1>8, <1>9, <1>10, <1>11, <1>12, <1>13, <1>14, <1>15, <1>16, <1>17 DEF RunStep

LEMMA RequestDurable ==
  ASSUME TypeOK, TypeOK', Durable, NEW j \in Jobs, Request(j) PROVE Durable'
<1> USE DEF TypeOK
<1>1. ASSUME NEW keep \in BOOLEAN, Create(j, keep) PROVE Durable'
  BY <1>1
    DEF Durable, Bookkeeping, TaskAgreesWithRow, StoredAsAsked, ErrorMeansEnded,
        DeletionHoldsCompleted, AudioDurable, Create, Enqueue, Goto, table, refs, files,
        task, process, history
<1>2. ASSUME NEW keep \in BOOLEAN, CreateClaimed(j, keep) PROVE Durable'
  BY <1>2
    DEF Durable, Bookkeeping, TaskAgreesWithRow, StoredAsAsked, ErrorMeansEnded,
        DeletionHoldsCompleted, AudioDurable, CreateClaimed, Enqueue, Goto, table, refs,
        files, task, process, history
<1>3. ASSUME NEW r \in Refs, Claim(j, r) PROVE Durable'
  BY <1>3
    DEF Durable, Bookkeeping, TaskAgreesWithRow, StoredAsAsked, ErrorMeansEnded,
        DeletionHoldsCompleted, AudioDurable, Claim, Goto, table, refs, files, task,
        process, history
<1>4. ASSUME NEW s \in Jobs, Retry(j, s) PROVE Durable'
  BY <1>4
    DEF Durable, Bookkeeping, TaskAgreesWithRow, StoredAsAsked, ErrorMeansEnded,
        DeletionHoldsCompleted, AudioDurable, Retry, Enqueue, Goto, table, refs, files,
        task, process, history
<1>5. CASE CreateFails(j)
  BY <1>5
    DEF Durable, Bookkeeping, TaskAgreesWithRow, StoredAsAsked, ErrorMeansEnded,
        DeletionHoldsCompleted, AudioDurable, CreateFails, Goto, table, refs, files, task,
        process, history
<1>6. CASE Cancel(j)
  BY <1>6
    DEF Durable, Bookkeeping, TaskAgreesWithRow, StoredAsAsked, ErrorMeansEnded,
        DeletionHoldsCompleted, AudioDurable, Cancel, Cancellable, Goto, table, refs, files,
        task, process, history
<1>7. CASE DeleteUnlink(j)
  BY <1>7
    DEF Durable, Bookkeeping, TaskAgreesWithRow, StoredAsAsked, ErrorMeansEnded,
        DeletionHoldsCompleted, AudioDurable, DeleteUnlink, Goto, table, refs, files, task,
        process, history
<1>8. CASE DeleteRow(j)
  BY <1>8
    DEF Durable, Bookkeeping, TaskAgreesWithRow, StoredAsAsked, ErrorMeansEnded,
        DeletionHoldsCompleted, AudioDurable, DeleteRow, Goto, table, refs, files, task,
        process, history
<1> QED BY <1>1, <1>2, <1>3, <1>4, <1>5, <1>6, <1>7, <1>8 DEF Request

LEMMA ProcessDurable ==
  ASSUME TypeOK, TypeOK', Durable,
         \/ \E j \in Jobs : RecoveryStep(j) \/ CloseReference(j)
         \/ \E r \in Refs : ClaimWithoutTranscript(r)
         \/ ProcessStep
  PROVE  Durable'
<1> USE DEF TypeOK
<1>1. ASSUME NEW j \in Jobs, RecoverReference(j) PROVE Durable'
  BY <1>1
    DEF Durable, Bookkeeping, TaskAgreesWithRow, StoredAsAsked, ErrorMeansEnded,
        DeletionHoldsCompleted, AudioDurable, RecoverReference, NoTasks, OwnsReference,
        Interrupted, Terminal, Active, Visit, Lost, Goto, table, refs, files, task, process,
        history
<1>2. ASSUME NEW j \in Jobs, RecoveryAborts(j) PROVE Durable'
  BY <1>2
    DEF Durable, Bookkeeping, TaskAgreesWithRow, StoredAsAsked, ErrorMeansEnded,
        DeletionHoldsCompleted, AudioDurable, RecoveryAborts, NoTasks, OwnsReference,
        Interrupted, Terminal, Active, Visit, Lost, Goto, table, refs, files, task, process,
        history
<1>3. ASSUME NEW j \in Jobs, RecoverArtifact(j) PROVE Durable'
  BY <1>3
    DEF Durable, Bookkeeping, TaskAgreesWithRow, StoredAsAsked, ErrorMeansEnded,
        DeletionHoldsCompleted, AudioDurable, RecoverArtifact, NoTasks, OwnsReference,
        Interrupted, Terminal, Active, Visit, Lost, Goto, table, refs, files, task, process,
        history
<1>4. ASSUME NEW j \in Jobs, RecoverOther(j) PROVE Durable'
  BY <1>4
    DEF Durable, Bookkeeping, TaskAgreesWithRow, StoredAsAsked, ErrorMeansEnded,
        DeletionHoldsCompleted, AudioDurable, RecoverOther, NoTasks, OwnsReference,
        Interrupted, Terminal, Active, Visit, Lost, Goto, table, refs, files, task, process,
        history
<1>5. ASSUME NEW j \in Jobs, CloseReference(j) PROVE Durable'
  BY <1>5
    DEF Durable, Bookkeeping, TaskAgreesWithRow, StoredAsAsked, ErrorMeansEnded,
        DeletionHoldsCompleted, AudioDurable, CloseReference, NoTasks, OwnsReference,
        Interrupted, Terminal, Active, Visit, Lost, Goto, table, refs, files, task, process,
        history
<1>6. ASSUME NEW r \in Refs, ClaimWithoutTranscript(r) PROVE Durable'
  BY <1>6
    DEF Durable, Bookkeeping, TaskAgreesWithRow, StoredAsAsked, ErrorMeansEnded,
        DeletionHoldsCompleted, AudioDurable, ClaimWithoutTranscript, Goto, table, refs,
        files, task, process, history
<1>7. CASE Shutdown
  BY <1>7
    DEF Durable, Bookkeeping, TaskAgreesWithRow, StoredAsAsked, ErrorMeansEnded,
        DeletionHoldsCompleted, AudioDurable, Shutdown, Lost, Resumes, NoTasks, Goto, table,
        refs, files, task, process, history
<1>8. CASE Stop
  BY <1>8
    DEF Durable, Bookkeeping, TaskAgreesWithRow, StoredAsAsked, ErrorMeansEnded,
        DeletionHoldsCompleted, AudioDurable, Stop, Lost, Resumes, NoTasks, Goto, table,
        refs, files, task, process, history
<1>9. CASE Crash
  BY <1>9
    DEF Durable, Bookkeeping, TaskAgreesWithRow, StoredAsAsked, ErrorMeansEnded,
        DeletionHoldsCompleted, AudioDurable, Crash, Lost, Resumes, NoTasks, Goto, table,
        refs, files, task, process, history
<1>10. CASE Boot
  BY <1>10
    DEF Durable, Bookkeeping, TaskAgreesWithRow, StoredAsAsked, ErrorMeansEnded,
        DeletionHoldsCompleted, AudioDurable, Boot, Lost, Resumes, NoTasks, Goto, table,
        refs, files, task, process, history
<1>11. CASE StartServing
  BY <1>11
    DEF Durable, Bookkeeping, TaskAgreesWithRow, StoredAsAsked, ErrorMeansEnded,
        DeletionHoldsCompleted, AudioDurable, StartServing, Lost, Resumes, NoTasks, Goto,
        table, refs, files, task, process, history
<1> QED BY <1>1, <1>2, <1>3, <1>4, <1>5, <1>6, <1>7, <1>8, <1>9, <1>10, <1>11 DEF RecoveryStep, ProcessStep

(* Every reachable state has the bookkeeping, and the audio it protects.       *)
LEMMA DurableInvariant == Spec => []Durable
<1>1. Init => Durable
  BY GenerationAssumption
    DEF Init, Durable, Bookkeeping, TaskAgreesWithRow, StoredAsAsked, ErrorMeansEnded,
        DeletionHoldsCompleted, AudioDurable
<1>2. TypeOK /\ TypeOK' /\ Durable /\ [Next]_vars => Durable'
  <2>1. ASSUME Durable, UNCHANGED vars PROVE Durable'
    BY <2>1
      DEF Durable, Bookkeeping, TaskAgreesWithRow, StoredAsAsked, ErrorMeansEnded,
          DeletionHoldsCompleted, AudioDurable, vars, table, refs, files, task, process,
          history
  <2>2. ASSUME TypeOK, TypeOK', Durable, Next PROVE Durable'
    BY <2>2, RequestDurable, RunStepDurable, ProcessDurable DEF Next
  <2> QED BY <2>1, <2>2
<1> QED BY <1>1, <1>2, TypeCorrect, PTL DEF Spec

(* A completed recording stays on disk and in the history until a client       *)
(* deletes it, whatever crashes, faults, cleanups and recoveries happen.       *)
THEOREM CompletedAudioIsDurable == Spec => []AudioDurable
<1>1. Durable => AudioDurable
  BY DEF Durable
<1> QED BY <1>1, DurableInvariant, PTL
-----------------------------------------------------------------------------
(* The steps that write the state or the error of a job.  A request writes     *)
(* only the row it inserts, a task advances its own job by a legal move, and   *)
(* settling leaves a terminal row alone.                                       *)
Writes(j) == \/ \E keep \in BOOLEAN : Create(j, keep) \/ CreateClaimed(j, keep)
             \/ \E i \in Jobs : Retry(i, j)
             \/ Acquire(j) \/ Load(j) \/ Stream(j) \/ Commit(j) \/ Settle(j)

LEMMA OnlyWritersWrite ==
  ASSUME Next PROVE (\E j \in Jobs : Writes(j)) \/ UNCHANGED <<state, err>>
<1> USE DEF Writes, table, refs, files, task, process, history
<1>1. ASSUME NEW j \in Jobs, Request(j) PROVE (\E k \in Jobs : Writes(k)) \/ UNCHANGED <<state, err>>
  BY <1>1 DEF Request, Claim, CreateFails, Cancel, DeleteUnlink, DeleteRow
<1>2. ASSUME NEW j \in Jobs, RunStep(j) \/ NoWorker(j) PROVE Writes(j) \/ UNCHANGED <<state, err>>
  BY <1>2 DEF RunStep, Start, NoWorker, Raise, Publish, Record, Release, Drop, Clear,
              CloseWorkerCall, Discard, Unrecord, Exit
<1>3. ASSUME NEW j \in Jobs, RecoveryStep(j) \/ CloseReference(j) PROVE UNCHANGED <<state, err>>
  BY <1>3 DEF RecoveryStep, RecoverReference, RecoveryAborts, RecoverArtifact, RecoverOther,
              CloseReference, Lost
<1>4. ASSUME NEW r \in Refs, ClaimWithoutTranscript(r) PROVE UNCHANGED <<state, err>>
  BY <1>4 DEF ClaimWithoutTranscript
<1>5. ASSUME ProcessStep PROVE UNCHANGED <<state, err>>
  BY <1>5 DEF ProcessStep, Shutdown, Stop, Crash, Boot, StartServing, Lost
<1> QED BY <1>1, <1>2, <1>3, <1>4, <1>5 DEF Next

(* No step changes a terminal state or the error that came with it.            *)
THEOREM TerminalStatesAreFinal == Spec => TerminalIsFinal
<1> DEFINE Final == \A j \in Jobs : state[j] \in Terminal => state'[j] = state[j] /\ err'[j] = err[j]
<1>1. ASSUME TypeOK, Durable, Next PROVE Final
  <2>1. ASSUME NEW j \in Jobs, Writes(j) PROVE Final
    <3> USE DEF TypeOK, Terminal
    <3>1. ASSUME NEW keep \in BOOLEAN, Create(j, keep) \/ CreateClaimed(j, keep) PROVE Final
      BY <1>1, <3>1 DEF Create, CreateClaimed, Enqueue, Durable, Bookkeeping, TaskAgreesWithRow
    <3>2. ASSUME NEW i \in Jobs, Retry(i, j) PROVE Final
      BY <1>1, <3>2 DEF Retry, Enqueue
    <3>3. CASE Acquire(j) \/ Load(j) \/ Stream(j) \/ Commit(j)
      BY <1>1, <3>3 DEF Acquire, Load, Stream, Commit, Advance, CanMove, Moves, Cancellable, Active
    <3>4. CASE Settle(j)
      BY <1>1, <3>4 DEF Settle, Resolved
    <3> QED BY <2>1, <3>1, <3>2, <3>3, <3>4 DEF Writes
  <2>2. ASSUME UNCHANGED <<state, err>> PROVE Final
    BY <2>2
  <2> QED BY <1>1, <2>1, <2>2, OnlyWritersWrite
<1>2. TypeOK /\ Durable /\ [Next]_vars => [Final]_vars
  BY <1>1
<1> QED BY <1>2, TypeCorrect, DurableInvariant, PTL DEF Spec, TerminalIsFinal

(* No cancellation is overtaken: only Cancel sets the flag, before finalizing, *)
(* and every later transition of the job looks at it.                          *)
THEOREM CancellationWins == Spec => []CancelledNeverCompletes
<1>1. Init => CancelledNeverCompletes
  BY DEF Init, CancelledNeverCompletes
<1>2. ASSUME TypeOK, CancelledNeverCompletes, Next PROVE CancelledNeverCompletes'
  <2> USE DEF TypeOK, CancelledNeverCompletes
  <2>1. UNCHANGED cancel \/ \E j \in Jobs : Cancel(j)
    <3> USE DEF table, refs, files, task, process, history
    <3>1. ASSUME NEW j \in Jobs, Request(j) PROVE UNCHANGED cancel \/ Cancel(j)
      BY <3>1
        DEF Request, Create, CreateClaimed, Enqueue, Retry, Claim, CreateFails,
            DeleteUnlink, DeleteRow
    <3>2. ASSUME NEW j \in Jobs, RunStep(j) \/ NoWorker(j) PROVE UNCHANGED cancel
      BY <3>2 DEF RunStep, Start, Acquire, Load, Stream, NoWorker, Raise, Publish, Record, Commit,
                  Release, Drop, Clear, CloseWorkerCall, Discard, Unrecord, Settle, Exit
    <3>3. ASSUME NEW j \in Jobs, RecoveryStep(j) \/ CloseReference(j) PROVE UNCHANGED cancel
      BY <3>3 DEF RecoveryStep, RecoverReference, RecoveryAborts, RecoverArtifact, RecoverOther,
                  CloseReference, Lost
    <3>4. ASSUME NEW r \in Refs, ClaimWithoutTranscript(r) PROVE UNCHANGED cancel
      BY <3>4 DEF ClaimWithoutTranscript
    <3>5. ASSUME ProcessStep PROVE UNCHANGED cancel
      BY <3>5 DEF ProcessStep, Shutdown, Stop, Crash, Boot, StartServing, Lost
    <3> QED BY <1>2, <3>1, <3>2, <3>3, <3>4, <3>5 DEF Next
  <2>2. ASSUME NEW j \in Jobs, Cancel(j) PROVE CancelledNeverCompletes'
    BY <1>2, <2>2 DEF Cancel, Cancellable
  <2>3. ASSUME NEW j \in Jobs, Writes(j), UNCHANGED cancel PROVE CancelledNeverCompletes'
    <3>1. ASSUME NEW keep \in BOOLEAN, Create(j, keep) \/ CreateClaimed(j, keep) PROVE CancelledNeverCompletes'
      BY <1>2, <2>3, <3>1 DEF Create, CreateClaimed, Enqueue
    <3>2. ASSUME NEW i \in Jobs, Retry(i, j) PROVE CancelledNeverCompletes'
      BY <1>2, <2>3, <3>2 DEF Retry, Enqueue
    <3>3. CASE Acquire(j) \/ Load(j) \/ Stream(j) \/ Commit(j)
      BY <1>2, <2>3, <3>3 DEF Acquire, Load, Stream, Commit, Advance, CanMove
    <3>4. CASE Settle(j)
      BY <1>2, <2>3, <3>4 DEF Settle
    <3> QED BY <2>3, <3>1, <3>2, <3>3, <3>4 DEF Writes
  <2>4. ASSUME UNCHANGED <<state, err>>, UNCHANGED cancel PROVE CancelledNeverCompletes'
    BY <1>2, <2>4
  <2> QED BY <1>2, <2>1, <2>2, <2>3, <2>4, OnlyWritersWrite
<1>3. ASSUME CancelledNeverCompletes, UNCHANGED vars PROVE CancelledNeverCompletes'
  BY <1>3 DEF CancelledNeverCompletes, vars, table
<1>4. TypeOK /\ CancelledNeverCompletes /\ [Next]_vars => CancelledNeverCompletes'
  BY <1>2, <1>3
<1> QED BY <1>1, <1>4, TypeCorrect, PTL DEF Spec
-----------------------------------------------------------------------------
(* Every step of a job, its cleanup, a crash or a recovery is one step of      *)
(* JobLifecycle or none at all.                                                *)
LEMMA EnqueueSubmits ==
  ASSUME TypeOK, NEW j \in Jobs, state[j] = "absent",
         NEW r \in Refs \cup {NoRef}, NEW keep \in BOOLEAN, NEW original, Enqueue(j, r, keep, original)
  PROVE  Lifecycle!Submit(j)
BY DEF Lifecycle!Submit, TypeOK, Enqueue, Active

THEOREM JobsImplementLifecycle == Spec => LifecycleHolds
<1>1. Init => Lifecycle!LifecycleInit
  BY DEF Init, Lifecycle!LifecycleInit, Active
<1>2. ASSUME TypeOK, Durable, Next PROVE [Lifecycle!LifecycleNext]_(Lifecycle!abstract)
  <2> USE DEF TypeOK, Lifecycle!abstract, Lifecycle!LifecycleNext, table, refs, files, task, process, history
  <2>1. ASSUME NEW j \in Jobs, Request(j) PROVE [Lifecycle!LifecycleNext]_(Lifecycle!abstract)
    <3>1. ASSUME NEW keep \in BOOLEAN, Create(j, keep) PROVE Lifecycle!Submit(j)
      BY <1>2, <3>1, EnqueueSubmits DEF Create
    <3>2. ASSUME NEW keep \in BOOLEAN, CreateClaimed(j, keep) PROVE Lifecycle!Submit(j)
      BY <1>2, <3>2, EnqueueSubmits DEF CreateClaimed, Durable, Bookkeeping, TaskAgreesWithRow
    <3>3. ASSUME NEW s \in Jobs, Retry(j, s) PROVE Lifecycle!Submit(s)
      BY <1>2, <3>3, EnqueueSubmits DEF Retry
    <3>4. CASE DeleteRow(j)
      BY <1>2, <3>4 DEF DeleteRow, Lifecycle!Erase, Durable, Bookkeeping, DeletionHoldsCompleted
    <3>5. CASE CreateFails(j) \/ Cancel(j) \/ DeleteUnlink(j) \/ \E r \in Refs : Claim(j, r)
      BY <3>5 DEF CreateFails, Cancel, DeleteUnlink, Claim
    <3> QED BY <2>1, <3>1, <3>2, <3>3, <3>4, <3>5 DEF Request
  <2>2. ASSUME NEW j \in Jobs, RunStep(j) \/ NoWorker(j) PROVE [Lifecycle!LifecycleNext]_(Lifecycle!abstract)
    <3>1. CASE Acquire(j) \/ Load(j) \/ Stream(j)
      BY <1>2, <3>1 DEF Acquire, Load, Stream, Advance, CanMove, Moves, Active, Cancellable
    <3>2. CASE Commit(j)
      <4>1. \/ UNCHANGED <<state, row, retain>>
            \/ /\ state[j] = "finalizing" /\ state' = [state EXCEPT ![j] = "completed"]
               /\ UNCHANGED <<row, retain>>
        BY <1>2, <3>2 DEF Commit, Advance, Leave, CanMove, Moves, Active, Cancellable
      <4>2. j \in retain <=> j \in row
        BY <1>2, <3>2 DEF Commit, Durable, Bookkeeping, StoredAsAsked
      <4>3. CASE state[j] = "finalizing" /\ state' = [state EXCEPT ![j] = "completed"]
                 /\ UNCHANGED <<row, retain>>
        <5>1. {k \in row : state[k] = "completed"}' =
                {k \in row : state[k] = "completed"} \cup (retain \cap {j})
          BY <1>2, <4>2, <4>3
        <5>2. Lifecycle!Complete(j)
          BY <1>2, <4>3, <5>1 DEF Lifecycle!Complete, Active
        <5> QED BY <5>2
      <4> QED BY <4>1, <4>3
    <3>3. CASE Record(j) \/ Unrecord(j)
      BY <1>2, <3>3 DEF Record, Unrecord, Durable, Bookkeeping, TaskAgreesWithRow
    <3>4. CASE Settle(j)
      <4>1. \/ UNCHANGED <<state, row, retain>>
            \/ /\ state[j] \notin Terminal
               /\ \E s \in {"cancelled", "failed"} : state' = [state EXCEPT ![j] = s]
               /\ UNCHANGED <<row, retain>>
        BY <1>2, <3>4 DEF Settle, Resolved
      <4>2. state[j] # "absent"
        BY <1>2, <3>4 DEF Settle, Durable, Bookkeeping, TaskAgreesWithRow
      <4>3. ASSUME state[j] \notin Terminal, NEW s \in {"cancelled", "failed"},
                   state' = [state EXCEPT ![j] = s], UNCHANGED <<row, retain>>
            PROVE  Lifecycle!End(j)
        BY <1>2, <4>2, <4>3 DEF Lifecycle!End, Terminal, Active, States
      <4> QED BY <4>1, <4>3
    <3>5. CASE \/ Start(j) \/ NoWorker(j) \/ Raise(j) \/ Publish(j) \/ Release(j) \/ Drop(j)
               \/ Clear(j) \/ CloseWorkerCall(j) \/ Discard(j) \/ Exit(j)
      BY <3>5
        DEF Start, NoWorker, Raise, Publish, Release, Drop, Clear, CloseWorkerCall, Discard,
            Exit
    <3> QED BY <2>2, <3>1, <3>2, <3>3, <3>4, <3>5 DEF RunStep
  <2>3. ASSUME NEW j \in Jobs, RecoveryStep(j) \/ CloseReference(j) PROVE UNCHANGED Lifecycle!abstract
    BY <2>3 DEF RecoveryStep, RecoverReference, RecoveryAborts, RecoverArtifact, RecoverOther,
                CloseReference, Lost
  <2>4. ASSUME NEW r \in Refs, ClaimWithoutTranscript(r) PROVE UNCHANGED Lifecycle!abstract
    BY <2>4 DEF ClaimWithoutTranscript
  <2>5. ASSUME ProcessStep PROVE UNCHANGED Lifecycle!abstract
    BY <2>5 DEF ProcessStep, Shutdown, Stop, Crash, Boot, StartServing, Lost
  <2> QED BY <1>2, <2>1, <2>2, <2>3, <2>4, <2>5 DEF Next
<1>3. ASSUME UNCHANGED vars PROVE UNCHANGED Lifecycle!abstract
  BY <1>3 DEF vars, Lifecycle!abstract, table
<1>4. TypeOK /\ Durable /\ [Next]_vars => [Lifecycle!LifecycleNext]_(Lifecycle!abstract)
  BY <1>2, <1>3
<1> QED BY <1>1, <1>4, TypeCorrect, DurableInvariant, PTL DEF Spec, LifecycleHolds, Lifecycle!LifecycleSpec
-----------------------------------------------------------------------------
\* Who looks after a job, in each state of Core.  While it serves: the task, which holds a
\* replica from LOADING on.  During recovery: the jobs that are still to be visited, or the
\* section that is about to fail them.
Attended(j) ==
  /\ core = "down" => pc[j] = "none" /\ outcome[j] = "none"
  /\ core = "recovering" =>
       /\ pc[j] \in {"none", "release", "drop", "clear", "settle", "unrecord"}
       /\ pc[j] = "none" => outcome[j] = "none"
       /\ pc[j] \in {"release", "drop", "clear"} => outcome[j] = "lost"
       /\ outcome[j] # "closing"
       /\ state[j] \in Active /\ j \notin scan => pc[j] \in {"release", "drop", "settle", "unrecord"}
  /\ core = "up" =>
       /\ outcome[j] \notin {"closing", "lost"}
       /\ pc[j] \in {"none", "exit", "claimed"} => state[j] \notin {"queued"} \cup Active
       /\ state[j] \in Active => j \in lease

AllAttended == \A j \in Jobs : Attended(j)

(* The steps of a task: it keeps its replica until its terminal state is       *)
(* durable.                                                                    *)
LEMMA RunStepAttended ==
  ASSUME TypeOK, Durable, AllAttended, NEW j \in Jobs, RunStep(j) \/ NoWorker(j)
  PROVE  AllAttended'
<1> USE DEF TypeOK, AllAttended, Attended, Active, Terminal, Cancellable, Sync, Goto,
            table, refs, files, task, process, history
<1>1. CASE Start(j)
  BY <1>1 DEF Start, Leave
<1>2. CASE Acquire(j)
  BY <1>2 DEF Acquire, Advance, Leave, CanMove, Moves
<1>3. CASE Load(j)
  BY <1>3 DEF Load, Advance, Leave, CanMove, Moves
<1>4. CASE Stream(j)
  BY <1>4 DEF Stream, Advance, Leave, CanMove, Moves
<1>5. CASE NoWorker(j)
  BY <1>5 DEF NoWorker, Leave, Raised
<1>6. CASE Raise(j)
  BY <1>6 DEF Raise, Leave, Raised
<1>7. CASE Publish(j)
  BY <1>7 DEF Publish, Leave, ReleaseOr
<1>8. CASE Record(j)
  BY <1>8 DEF Record, Leave, ReleaseOr
<1>9. CASE Commit(j)
  BY <1>9 DEF Commit, Advance, Leave, CanMove, Moves
<1>10. CASE Release(j)
  BY <1>10 DEF Release
<1>11. CASE Drop(j)
  BY <1>11 DEF Drop
<1>12. CASE Clear(j)
  BY <1>12 DEF Clear
<1>13. CASE CloseWorkerCall(j)
  BY <1>13 DEF CloseWorkerCall, Leave
<1>14. CASE Discard(j)
  BY <1>14 DEF Discard, AfterUnlink, AfterDiscard, ReleaseOr
<1>15. CASE Unrecord(j)
  BY <1>15 DEF Unrecord, AfterDiscard, ReleaseOr
<1>16. CASE Settle(j)
  BY <1>16 DEF Settle, Resolved
<1>17. CASE Exit(j)
  BY <1>17 DEF Exit
<1> QED
  BY <1>1, <1>2, <1>3, <1>4, <1>5, <1>6, <1>7, <1>8, <1>9, <1>10, <1>11, <1>12, <1>13, <1>14, <1>15, <1>16, <1>17 DEF RunStep

(* Requests: a job is inserted together with its task.                         *)
LEMMA RequestAttended ==
  ASSUME TypeOK, Durable, AllAttended, NEW j \in Jobs, Request(j)
  PROVE  AllAttended'
<1> USE DEF TypeOK, AllAttended, Attended, Active, Terminal, Cancellable, Sync, Goto,
            table, refs, files, task, process, history
<1>1. ASSUME NEW keep \in BOOLEAN, Create(j, keep) PROVE AllAttended'
  BY <1>1 DEF Create, Enqueue
<1>2. ASSUME NEW keep \in BOOLEAN, CreateClaimed(j, keep) PROVE AllAttended'
  BY <1>2 DEF CreateClaimed, Enqueue, Durable, Bookkeeping, TaskAgreesWithRow
<1>3. ASSUME NEW r \in Refs, Claim(j, r) PROVE AllAttended'
  BY <1>3 DEF Claim
<1>4. ASSUME NEW s \in Jobs, Retry(j, s) PROVE AllAttended'
  BY <1>4 DEF Retry, Enqueue
<1>5. CASE CreateFails(j)
  BY <1>5 DEF CreateFails, Durable, Bookkeeping, TaskAgreesWithRow
<1>6. CASE Cancel(j) \/ DeleteUnlink(j) \/ DeleteRow(j)
  BY <1>6 DEF Cancel, DeleteUnlink, DeleteRow
<1> QED
  BY <1>1, <1>2, <1>3, <1>4, <1>5, <1>6 DEF Request

(* The process: recovery visits every job that has a row, and leaves each      *)
(* interrupted one to a section that ends it.                                  *)
LEMMA ProcessAttended ==
  ASSUME TypeOK, Durable, AllAttended,
         \/ \E j \in Jobs : RecoveryStep(j) \/ CloseReference(j)
         \/ \E r \in Refs : ClaimWithoutTranscript(r)
         \/ ProcessStep
  PROVE  AllAttended'
<1> USE DEF TypeOK, AllAttended, Attended, Active, Terminal, Cancellable, Sync, Goto, Visit, LoopFree,
            Lost, table, refs, files, task, process, history
<1>1. ASSUME NEW j \in Jobs, RecoverReference(j) PROVE AllAttended'
  BY <1>1 DEF RecoverReference
<1>2. ASSUME NEW j \in Jobs, RecoveryAborts(j) PROVE AllAttended'
  BY <1>2 DEF RecoveryAborts
<1>3. ASSUME NEW j \in Jobs, RecoverArtifact(j) PROVE AllAttended'
  BY <1>3 DEF RecoverArtifact
<1>4. ASSUME NEW j \in Jobs, RecoverOther(j) PROVE AllAttended'
  BY <1>4 DEF RecoverOther, Interrupted
<1>5. ASSUME NEW j \in Jobs, CloseReference(j) PROVE AllAttended'
  BY <1>5 DEF CloseReference
<1>6. ASSUME NEW r \in Refs, ClaimWithoutTranscript(r) PROVE AllAttended'
  BY <1>6 DEF ClaimWithoutTranscript
<1>7. CASE Shutdown
  BY <1>7 DEF Shutdown
<1>8. CASE Stop \/ Crash
  BY <1>8 DEF Stop, Crash
<1>9. CASE Boot
  BY <1>9 DEF Boot
<1>10. CASE StartServing
  BY <1>10 DEF StartServing, Resumes
<1> QED
  BY <1>1, <1>2, <1>3, <1>4, <1>5, <1>6, <1>7, <1>8, <1>9, <1>10 DEF RecoveryStep, ProcessStep

LEMMA AttendedInvariant == Spec => []AllAttended
<1>1. Init => AllAttended
  BY DEF Init, AllAttended, Attended, Active
<1>2. TypeOK /\ Durable /\ AllAttended /\ [Next]_vars => AllAttended'
  <2>1. ASSUME AllAttended, UNCHANGED vars PROVE AllAttended'
    BY <2>1 DEF AllAttended, Attended, vars, table, refs, files, task, process, history
  <2>2. ASSUME TypeOK, Durable, AllAttended, Next PROVE AllAttended'
    BY <2>2, RequestAttended, RunStepAttended, ProcessAttended DEF Next
  <2> QED BY <2>1, <2>2
<1> QED BY <1>1, <1>2, TypeCorrect, DurableInvariant, PTL DEF Spec

(* While Core serves, no job waits without a task or works without a replica,  *)
(* whatever crashed, was shut down, failed or was recovered before.            *)
THEOREM NoJobIsStranded == Spec => []NoStrandedJob
<1>1. AllAttended => NoStrandedJob
  BY DEF AllAttended, Attended, NoStrandedJob
<1> QED BY <1>1, AttendedInvariant, PTL
-----------------------------------------------------------------------------
\* What the cleanup of a job has removed, step by step, before the job has ended.  Only
\* one-off jobs have a reference to release in between; the repetition of an attempt relies
\* on its error.
WorksOnOpenJob(j) ==
  /\ pc[j] \in {"start", "acquire", "load", "stream", "publish", "record", "commit"}
       => state[j] \notin Terminal
  /\ pc[j] \in {"release", "drop", "clear"} /\ outcome[j] = "none" => state[j] \notin Terminal
OnlyOneOffsRelease(j) ==
  refOf[j] # NoRef \/ outcome[j] = "lost" \/ (handle[j] # NoRef /\ pc[j] # "claimed") \/ pc[j] \in {"release", "drop", "clear"}
    => j \in oneOff
CleanedSoFar(j) ==
  j \notin oneOff =>
    /\ state[j] \in {"failed", "cancelled"} /\ err[j] # "cleanup_failed" => j \notin row \cup wav \cup pcm
    /\ pc[j] = "settle" /\ outcome[j] \notin {"cleanup", "closing"} => j \notin row \cup wav \cup pcm
    /\ pc[j] = "unrecord" /\ outcome[j] \notin {"cleanup", "closing"} => j \notin wav \cup pcm
Repeatable(s) ==
  retryOf[s] # NoJob =>
    LET j == retryOf[s] IN
    state[j] = "failed" /\ pc[j] = "none" /\ j \notin oneOff /\ err[j] \in {"transient", "recovery_required"}

Clean ==
  /\ core = "recovering" => pcm = {}
  /\ \A j \in Jobs : WorksOnOpenJob(j) /\ OnlyOneOffsRelease(j) /\ CleanedSoFar(j) /\ Repeatable(j)

(* The steps of a task remove the files and the row before the job ends.       *)
LEMMA RunStepClean ==
  ASSUME TypeOK, Durable, AllAttended, Clean, NEW j \in Jobs, RunStep(j) \/ NoWorker(j)
  PROVE  Clean'
<1> USE DEF TypeOK, Clean, WorksOnOpenJob, OnlyOneOffsRelease, CleanedSoFar, Repeatable, Active, Terminal,
            Cancellable, Sync, Goto, table, refs, files, task, process, history
<1>1. CASE Start(j)
  BY <1>1, GenerationAssumption DEF Start, Leave
<1>2. CASE Acquire(j)
  BY <1>2, GenerationAssumption DEF Acquire, Advance, Leave, CanMove, Moves
<1>3. CASE Load(j)
  BY <1>3, GenerationAssumption DEF Load, Advance, Leave, CanMove, Moves, AllAttended, Attended
<1>4. CASE Stream(j)
  BY <1>4, GenerationAssumption DEF Stream, Advance, Leave, CanMove, Moves
<1>5. CASE NoWorker(j)
  BY <1>5, GenerationAssumption DEF NoWorker, Leave, Raised
<1>6. CASE Raise(j)
  BY <1>6, GenerationAssumption DEF Raise, Leave, Raised
<1>7. CASE Publish(j)
  BY <1>7, GenerationAssumption DEF Publish, Leave, ReleaseOr
<1>8. CASE Record(j)
  BY <1>8, GenerationAssumption DEF Record, Leave, ReleaseOr
<1>9. CASE Commit(j)
  BY <1>9, GenerationAssumption DEF Commit, Advance, Leave, CanMove, Moves
<1>10. CASE Release(j)
  BY <1>10, GenerationAssumption DEF Release
<1>11. CASE Drop(j)
  BY <1>11, GenerationAssumption DEF Drop
<1>12. CASE Clear(j)
  <2>1. outcome[j] = "none" \/ pc'[j] \in {"none", "settle"}
    BY <1>12 DEF Clear
  <2>2. j \in oneOff
    BY <1>12 DEF Clear
  <2> QED BY <1>12, <2>1, <2>2, GenerationAssumption DEF Clear
<1>13. CASE CloseWorkerCall(j)
  BY <1>13, GenerationAssumption DEF CloseWorkerCall, Leave, Durable, Bookkeeping, TaskAgreesWithRow
<1>14. CASE Discard(j)
  BY <1>14, GenerationAssumption DEF Discard, AfterUnlink, AfterDiscard, ReleaseOr, Durable, Bookkeeping, TaskAgreesWithRow
<1>15. CASE Unrecord(j)
  BY <1>15, GenerationAssumption DEF Unrecord, AfterDiscard, ReleaseOr, Durable, Bookkeeping, TaskAgreesWithRow
<1>16. CASE Settle(j)
  <2>1. \/ state'[j] = state[j] /\ err'[j] = err[j]
        \/ err'[j] = "cleanup_failed" \/ outcome[j] \notin {"cleanup", "closing"}
    BY <1>16 DEF Settle, Resolved, ErrorOf
  <2>2. (state'[j] = state[j] /\ err'[j] = err[j]) \/ state[j] \notin Terminal
    BY <1>16 DEF Settle, Resolved
  <2>3. pc'[j] = "clear" => j \in oneOff
    BY <1>16 DEF Settle
  <2>4. UNCHANGED <<retryOf, refOf, oneOff, row, wav, pcm, handle, core>>
    BY <1>16 DEF Settle
  <2>5. /\ pc[j] = "settle" /\ pc'[j] \in {"clear", "exit", "none"}
        /\ outcome'[j] = "none" \/ (outcome'[j] = "lost" /\ outcome[j] = "lost")
        /\ pc'[j] = "clear" => outcome'[j] = "lost"
    <3>1. pc[j] = "settle" /\ pc'[j] = CASE outcome[j] = "lost" -> "clear"
                                          [] outcome[j] # "lost" /\ core = "up" -> "exit"
                                          [] OTHER -> "none"
      BY <1>16 DEF Settle
    <3>2. outcome'[j] = IF outcome[j] = "lost" THEN outcome[j] ELSE "none"
      BY <1>16 DEF Settle
    <3>3. pc'[j] \in {"clear", "exit", "none"} /\ (pc'[j] = "clear" => outcome[j] = "lost")
      BY <3>1
    <3>4. outcome'[j] = "none" \/ (outcome'[j] = "lost" /\ outcome[j] = "lost")
      BY <3>2
    <3>5. pc'[j] = "clear" => outcome'[j] = "lost"
      BY <3>2, <3>3
    <3> QED BY <3>1, <3>3, <3>4, <3>5
  <2>6. \A k \in Jobs \ {j} : /\ state'[k] = state[k] /\ err'[k] = err[k]
                             /\ pc'[k] = pc[k] /\ outcome'[k] = outcome[k]
    BY <1>16 DEF Settle
  <2>7. WorksOnOpenJob(j)' /\ OnlyOneOffsRelease(j)'
    BY <2>3, <2>4, <2>5
  <2>8. CleanedSoFar(j)'
    BY <2>1, <2>2, <2>4, <2>5
  <2>9. ASSUME NEW k \in Jobs \ {j} PROVE WorksOnOpenJob(k)' /\ OnlyOneOffsRelease(k)' /\ CleanedSoFar(k)'
    BY <2>4, <2>6, <2>9
  <2>10. ASSUME NEW s \in Jobs PROVE Repeatable(s)'
    BY <2>4, <2>5, <2>6, <2>10
  <2> QED BY <2>4, <2>7, <2>8, <2>9, <2>10
<1>17. CASE Exit(j)
  BY <1>17, GenerationAssumption DEF Exit
<1> QED
  BY <1>1, <1>2, <1>3, <1>4, <1>5, <1>6, <1>7, <1>8, <1>9, <1>10, <1>11, <1>12, <1>13, <1>14, <1>15, <1>16, <1>17 DEF RunStep

(* Requests: a retry finds an attempt that ended with a retryable error.       *)
LEMMA RequestClean ==
  ASSUME TypeOK, Durable, AllAttended, Clean, NEW j \in Jobs, Request(j)
  PROVE  Clean'
<1> USE GenerationAssumption
    DEF TypeOK, Clean, WorksOnOpenJob, OnlyOneOffsRelease, CleanedSoFar, Repeatable, Active, Terminal,
        Cancellable, Sync, Goto, table, refs, files, task, process, history
<1>1. ASSUME NEW keep \in BOOLEAN, Create(j, keep) PROVE Clean'
  BY <1>1 DEF Create, Enqueue
<1>2. ASSUME NEW keep \in BOOLEAN, CreateClaimed(j, keep) PROVE Clean'
  BY <1>2 DEF CreateClaimed, Enqueue, Durable, Bookkeeping, TaskAgreesWithRow
<1>3. ASSUME NEW r \in Refs, Claim(j, r) PROVE Clean'
  BY <1>3 DEF Claim
<1>4. ASSUME NEW s \in Jobs, Retry(j, s) PROVE Clean'
  BY <1>4 DEF Retry, Enqueue, CanRetry, TaskOver
<1>5. CASE CreateFails(j)
  BY <1>5 DEF CreateFails, Durable, Bookkeeping, TaskAgreesWithRow
<1>6. CASE Cancel(j) \/ DeleteUnlink(j)
  BY <1>6 DEF Cancel, DeleteUnlink
<1>7. CASE DeleteRow(j)
  <2>1. state[j] = "completed"
    BY <1>7 DEF DeleteRow, Durable, Bookkeeping, DeletionHoldsCompleted
  <2>2. pc[j] \notin {"settle", "unrecord"}
    BY <2>1 DEF Durable, Bookkeeping, TaskAgreesWithRow
  <2>3. UNCHANGED <<state, err, retryOf, refOf, oneOff, pcm, pc, outcome, handle, core>>
    BY <1>7 DEF DeleteRow
  <2>4. (row' \cup wav') \ {j} \subseteq row \cup wav
    BY <1>7 DEF DeleteRow
  <2>5. wav' \ {j} \subseteq wav
    BY <1>7 DEF DeleteRow
  <2> QED BY <2>1, <2>2, <2>3, <2>4, <2>5
<1> QED
  BY <1>1, <1>2, <1>3, <1>4, <1>5, <1>6, <1>7 DEF Request

(* Recovery: a job ends as recoverable only when nothing of it is left.        *)
LEMMA ProcessClean ==
  ASSUME TypeOK, Durable, AllAttended, Clean,
         \/ \E j \in Jobs : RecoveryStep(j) \/ CloseReference(j)
         \/ \E r \in Refs : ClaimWithoutTranscript(r)
         \/ ProcessStep
  PROVE  Clean'
<1> USE GenerationAssumption
    DEF TypeOK, Clean, WorksOnOpenJob, OnlyOneOffsRelease, CleanedSoFar, Repeatable, Active, Terminal,
        Cancellable, Sync, Goto, Visit, LoopFree, Lost, table, refs, files, task, process, history
<1>1. ASSUME NEW j \in Jobs, RecoverReference(j) PROVE Clean'
  BY <1>1 DEF RecoverReference, OwnsReference
<1>2. ASSUME NEW j \in Jobs, RecoveryAborts(j) PROVE Clean'
  BY <1>2 DEF RecoveryAborts
<1>3. ASSUME NEW j \in Jobs, RecoverArtifact(j) PROVE Clean'
  <2>1. core = "recovering" /\ pcm = {} /\ pc[j] \notin Sync \cup {"claimed"}
    BY <1>3 DEF RecoverArtifact, Durable, Bookkeeping, TaskAgreesWithRow
  <2>2. UNCHANGED <<state, err, retryOf, refOf, oneOff, row, pcm, handle, core>> /\ wav' \subseteq wav
    BY <1>3 DEF RecoverArtifact
  <2>3. \A s \in Jobs : retryOf[s] # j
    BY <1>3 DEF RecoverArtifact, Interrupted
  <2>4. \A k \in Jobs \ {j} : pc'[k] = pc[k] /\ outcome'[k] = outcome[k]
    BY <1>3 DEF RecoverArtifact
  <2>5. /\ outcome'[j] \in {"recover", "cleanup"} /\ pc'[j] \in {"unrecord", "settle"}
        /\ pc'[j] = "unrecord" => j \notin wav'
        /\ pc'[j] = "settle" /\ outcome'[j] = "recover" => j \notin row \cup wav'
    BY <1>3 DEF RecoverArtifact
  <2>6. WorksOnOpenJob(j)' /\ OnlyOneOffsRelease(j)' /\ CleanedSoFar(j)'
    BY <2>1, <2>2, <2>5
  <2>7. ASSUME NEW k \in Jobs \ {j} PROVE WorksOnOpenJob(k)' /\ OnlyOneOffsRelease(k)' /\ CleanedSoFar(k)'
    BY <2>2, <2>4, <2>7
  <2>8. ASSUME NEW s \in Jobs PROVE Repeatable(s)'
    BY <2>2, <2>3, <2>4, <2>8
  <2> QED BY <2>1, <2>2, <2>6, <2>7, <2>8
<1>4. ASSUME NEW j \in Jobs, RecoverOther(j) PROVE Clean'
  BY <1>4 DEF RecoverOther
<1>5. ASSUME NEW j \in Jobs, CloseReference(j) PROVE Clean'
  BY <1>5 DEF CloseReference, NoTasks
<1>6. ASSUME NEW r \in Refs, ClaimWithoutTranscript(r) PROVE Clean'
  BY <1>6 DEF ClaimWithoutTranscript
<1>7. CASE Shutdown
  BY <1>7 DEF Shutdown
<1>8. CASE Stop \/ Crash
  BY <1>8 DEF Stop, Crash
<1>9. CASE Boot
  BY <1>9 DEF Boot
<1>10. CASE StartServing
  <2>1. core = "recovering" /\ core' = "up"
    BY <1>10 DEF StartServing
  <2>2. UNCHANGED <<state, err, retryOf, refOf, oneOff, row, wav, pcm, handle, outcome>>
    BY <1>10 DEF StartServing
  <2>3. \A k \in Jobs : pc'[k] = IF state[k] = "queued" THEN "start" ELSE "none"
    BY <1>10 DEF StartServing, Resumes
  <2>4. \A k \in Jobs : pc[k] # "claimed"
    BY <2>1 DEF Durable, Bookkeeping, TaskAgreesWithRow
  <2>5. ASSUME NEW k \in Jobs PROVE WorksOnOpenJob(k)' /\ OnlyOneOffsRelease(k)' /\ CleanedSoFar(k)'
    BY <2>2, <2>3, <2>4, <2>5
  <2>6. ASSUME NEW s \in Jobs PROVE Repeatable(s)'
    BY <2>2, <2>3, <2>6
  <2> QED BY <2>1, <2>5, <2>6
<1> QED
  BY <1>1, <1>2, <1>3, <1>4, <1>5, <1>6, <1>7, <1>8, <1>9, <1>10 DEF RecoveryStep, ProcessStep

LEMMA CleanInvariant == Spec => []Clean
<1>1. Init => Clean
  BY DEF Init, Clean, WorksOnOpenJob, OnlyOneOffsRelease, CleanedSoFar, Repeatable
<1>2. TypeOK /\ Durable /\ AllAttended /\ Clean /\ [Next]_vars => Clean'
  <2>1. ASSUME Clean, UNCHANGED vars PROVE Clean'
    BY <2>1 DEF Clean, WorksOnOpenJob, OnlyOneOffsRelease, CleanedSoFar, Repeatable, vars, table, refs, files,
                task, process, history
  <2>2. ASSUME TypeOK, Durable, AllAttended, Clean, Next PROVE Clean'
    BY <2>2, RequestClean, RunStepClean, ProcessClean DEF Next
  <2> QED BY <2>1, <2>2
<1> QED BY <1>1, <1>2, TypeCorrect, DurableInvariant, AttendedInvariant, PTL DEF Spec

(* A Preset Voice job that failed or was cancelled has left nothing, unless it *)
(* says that its cleanup failed.                                               *)
THEOREM NoArtifactOfEndedVoiceJobs == Spec => []NoPartialArtifactForVoices
<1>1. Clean => NoPartialArtifactForVoices
  BY DEF Clean, CleanedSoFar, NoPartialArtifactForVoices
<1> QED BY <1>1, CleanInvariant, PTL

(* An attempt that was repeated is over, has left nothing and stays failed.    *)
THEOREM AttemptsAreSeparate == Spec => []AttemptsNeverOverlap
<1>1. TypeOK /\ Clean => AttemptsNeverOverlap
  BY DEF TypeOK, Clean, CleanedSoFar, Repeatable, AttemptsNeverOverlap
<1> QED BY <1>1, TypeCorrect, CleanInvariant, PTL
-----------------------------------------------------------------------------
\* Who has a recording in custody.  A handle is the claim of one job to one consumed
\* recording, which no other job names; a job gives it up before its task ends or is over.
Held(j) ==
  handle[j] # NoRef =>
    /\ core \in {"up", "closing"}
    /\ refRow[handle[j]] = "consumed"
    /\ pc[j] # "claimed" => refOf[j] = handle[j]
    /\ pc[j] # "clear" /\ (outcome[j] = "lost" => pc[j] \in {"release", "drop"})
    /\ core = "up" => /\ pc[j] \notin {"none", "exit", "settle", "clear", "commit"}
                      /\ state[j] \notin Terminal
    /\ restarts = 0 /\ pc[j] # "drop" => handle[j] \in refFile
Traced(j) ==
  /\ pc[j] = "claimed" => handle[j] # NoRef
  /\ pc[j] \in {"start", "acquire", "load", "stream"} /\ refOf[j] # NoRef => handle[j] = refOf[j]
  /\ pc[j] = "drop" => refOf[j] \notin refFile
  /\ state[j] = "absent" => refOf[j] = NoRef
  /\ core = "recovering" /\ j \notin scan /\ state[j] \notin Terminal /\ refOf[j] # NoRef
       => pc[j] \in {"release", "drop", "settle"}
Apart(j, k) ==
  j # k => {refOf[j], handle[j]} \cap {refOf[k], handle[k]} \subseteq {NoRef}
Stored(r) ==
  /\ refRow[r] = "validated" => /\ \A j \in Jobs : refOf[j] # r /\ handle[j] # r
                                /\ restarts = 0 => r \in refFile
  /\ refRow[r] = "consumed" /\ core = "up" => \E j \in Jobs : handle[j] = r
  /\ refRow[r] = "absent" => r \notin refFile

Custody ==
  /\ restarts = 0 => core = "up"
  /\ \A j \in Jobs : Held(j) /\ Traced(j)
  /\ \A j, k \in Jobs : Apart(j, k)
  /\ \A r \in Refs : Stored(r)

LEMMA OthersHoldOthers ==
  ASSUME Custody, NEW j \in Jobs, NEW k \in Jobs \ {j}, handle[k] # NoRef
  PROVE  handle[k] # refOf[j] /\ handle[k] # handle[j]
<1>1. Apart(k, j) /\ k # j
  BY DEF Custody
<1> QED BY <1>1 DEF Apart

(* The steps of a task: a job that has its handle goes by way of its release.  *)
LEMMA RunStepCustody ==
  ASSUME TypeOK, Durable, AllAttended, Custody, NEW j \in Jobs, RunStep(j) \/ NoWorker(j)
  PROVE  Custody'
<1> USE GenerationAssumption
    DEF TypeOK, Custody, Held, Traced, Apart, Stored, Active, Terminal, Sync, Goto, table, refs, files, task, process, history
<1>1. CASE Start(j)
  BY <1>1 DEF Start, Leave
<1>2. CASE Acquire(j)
  BY <1>2 DEF Acquire, Advance, Leave
<1>3. CASE Load(j)
  BY <1>3 DEF Load, Advance, Leave
<1>4. CASE Stream(j)
  BY <1>4 DEF Stream, Advance, Leave
<1>5. CASE NoWorker(j)
  BY <1>5 DEF NoWorker, Leave, Raised, AllAttended, Attended
<1>6. CASE Raise(j)
  BY <1>6 DEF Raise, Leave, Raised, AllAttended, Attended
<1>7. CASE Publish(j)
  BY <1>7 DEF Publish, Leave, ReleaseOr
<1>8. CASE Record(j)
  BY <1>8 DEF Record, Leave, ReleaseOr
<1>9. CASE Commit(j)
  BY <1>9 DEF Commit, Advance, Leave
<1>10. CASE Release(j)
  <2>1. pc[j] = "release" /\ UNCHANGED <<state, refOf, core, scan, restarts>>
    BY <1>10 DEF Release
  <2>2. \A k \in Jobs \ {j} : pc'[k] = pc[k] /\ outcome'[k] = outcome[k]
    BY <1>10 DEF Release
  <2>3. \/ /\ refFile' = refFile \ {refOf[j]} /\ UNCHANGED <<refRow, outcome, handle>>
           /\ pc'[j] = "drop"
        \/ /\ refRow' = [refRow EXCEPT ![refOf[j]] = "cleanup_failed"] /\ UNCHANGED refFile
           /\ handle' = [handle EXCEPT ![j] = NoRef]
           /\ pc'[j] = IF outcome[j] = "none" THEN "cleanup" ELSE "settle"
    BY <1>10 DEF Release
  <2>4. core = "recovering" => outcome[j] # "none"
    BY <2>1 DEF AllAttended, Attended
  <2>5. ASSUME NEW k \in Jobs \ {j} PROVE Held(k)' /\ Traced(k)'
    <3>1. handle[k] # NoRef => handle[k] # refOf[j]
      BY <2>5, OthersHoldOthers
    <3>2. handle'[k] = handle[k]
      BY <2>3, <2>5
    <3>3. handle[k] # NoRef => refRow'[handle[k]] = refRow[handle[k]]
      BY <2>3, <2>5, <3>1
    <3>4. handle[k] # NoRef /\ handle[k] \in refFile => handle[k] \in refFile'
      BY <2>3, <3>1
    <3>5. refFile' \subseteq refFile
      BY <2>3
    <3> QED BY <2>1, <2>2, <2>5, <3>2, <3>3, <3>4, <3>5
  <2>6. Held(j)' /\ Traced(j)'
    <3>1. CASE pc'[j] = "drop"
      BY <2>1, <2>3, <3>1
    <3>2. CASE pc'[j] # "drop"
      BY <2>1, <2>3, <2>4, <3>2
    <3> QED BY <3>1, <3>2
  <2>7. ASSUME NEW k \in Jobs, NEW l \in Jobs PROVE Apart(k, l)'
    BY <2>1, <2>3, <2>7
  <2>8. ASSUME NEW r \in Refs PROVE Stored(r)'
    BY <2>1, <2>3, <2>8
  <2> QED BY <2>1, <2>5, <2>6, <2>7, <2>8
<1>11. CASE Drop(j)
  <2>1. /\ handle' = [handle EXCEPT ![j] = NoRef]
        /\ refRow' = [refRow EXCEPT ![refOf[j]] = "absent"]
        /\ UNCHANGED <<state, refOf, refFile, outcome, core, scan, restarts>>
        /\ \A k \in Jobs \ {j} : pc'[k] = pc[k]
    BY <1>11 DEF Drop
  <2>2. pc'[j] = IF outcome[j] = "lost" THEN "settle" ELSE "clear"
    BY <1>11 DEF Drop
  <2>3. core = "recovering" => outcome[j] = "lost"
    BY <1>11 DEF Drop, AllAttended, Attended
  <2>4. pc[j] = "drop" /\ pc[j] # "claimed"
    BY <1>11 DEF Drop
  <2>5. ASSUME NEW k \in Jobs \ {j} PROVE Held(k)' /\ Traced(k)'
    <3>1. handle[k] # NoRef => handle[k] # refOf[j]
      BY <2>5, OthersHoldOthers
    <3>2. handle'[k] = handle[k] /\ (handle[k] # NoRef => refRow'[handle[k]] = refRow[handle[k]])
      BY <2>1, <2>5, <3>1
    <3> QED BY <2>1, <2>5, <3>1, <3>2
  <2>6. Held(j)' /\ Traced(j)'
    BY <2>1, <2>2, <2>3, <2>4
  <2>7. ASSUME NEW k \in Jobs, NEW l \in Jobs PROVE Apart(k, l)'
    BY <2>1, <2>7
  <2>8. ASSUME NEW r \in Refs PROVE Stored(r)'
    BY <2>1, <2>4, <2>8
  <2> QED BY <2>1, <2>5, <2>6, <2>7, <2>8
<1>12. CASE Clear(j)
  <2>1. /\ refOf' = [refOf EXCEPT ![j] = NoRef]
        /\ UNCHANGED <<state, handle, refRow, refFile, core, scan, restarts>>
        /\ \A k \in Jobs \ {j} : pc'[k] = pc[k] /\ outcome'[k] = outcome[k]
        /\ pc[j] = "clear"
    BY <1>12 DEF Clear
  <2>2. handle[j] = NoRef /\ pc'[j] \in {"commit", "none", "settle"}
    BY <1>12 DEF Clear
  <2>3. ASSUME NEW k \in Jobs PROVE Held(k)' /\ Traced(k)'
    BY <2>1, <2>2, <2>3
  <2>4. ASSUME NEW k \in Jobs, NEW l \in Jobs PROVE Apart(k, l)'
    BY <2>1, <2>4
  <2>5. ASSUME NEW r \in Refs PROVE Stored(r)'
    BY <2>1, <2>5
  <2> QED BY <2>1, <2>3, <2>4, <2>5
<1>13. CASE CloseWorkerCall(j)
  BY <1>13 DEF CloseWorkerCall, Leave
<1>14. CASE Discard(j)
  BY <1>14 DEF Discard, AfterUnlink, AfterDiscard, ReleaseOr
<1>15. CASE Unrecord(j)
  BY <1>15 DEF Unrecord, AfterDiscard, ReleaseOr
<1>16. CASE Settle(j)
  <2>1. /\ UNCHANGED <<refOf, handle, refRow, refFile, core, scan, restarts>>
        /\ \A k \in Jobs \ {j} : state'[k] = state[k] /\ pc'[k] = pc[k] /\ outcome'[k] = outcome[k]
        /\ pc[j] = "settle"
    BY <1>16 DEF Settle
  <2>2. pc'[j] = CASE outcome[j] = "lost" -> "clear"
                   [] outcome[j] # "lost" /\ core = "up" -> "exit"
                   [] OTHER -> "none"
    BY <1>16 DEF Settle
  <2>3. outcome'[j] = IF outcome[j] = "lost" THEN "lost" ELSE "none"
    BY <1>16 DEF Settle
  <2>4. core = "recovering" => state'[j] \in Terminal
    BY <1>16 DEF Settle, Resolved, AllAttended, Attended
  <2>5. state'[j] # "absent"
    BY <1>16 DEF Settle, Resolved, Durable, Bookkeeping, TaskAgreesWithRow
  <2>6. Held(j)' /\ Traced(j)'
    BY <2>1, <2>2, <2>3, <2>4, <2>5
  <2>7. ASSUME NEW k \in Jobs \ {j} PROVE Held(k)' /\ Traced(k)'
    BY <2>1, <2>7
  <2>8. (\A k, l \in Jobs : Apart(k, l)') /\ \A r \in Refs : Stored(r)'
    BY <2>1
  <2> QED BY <2>1, <2>6, <2>7, <2>8
<1>17. CASE Exit(j)
  BY <1>17 DEF Exit
<1> QED
  BY <1>1, <1>2, <1>3, <1>4, <1>5, <1>6, <1>7, <1>8, <1>9, <1>10, <1>11, <1>12, <1>13, <1>14, <1>15, <1>16, <1>17 DEF RunStep

(* Requests: a claim finds a recording that no job names.                      *)
LEMMA RequestCustody ==
  ASSUME TypeOK, Durable, AllAttended, Custody, NEW j \in Jobs, Request(j)
  PROVE  Custody'
<1> USE GenerationAssumption
    DEF TypeOK, Custody, Held, Traced, Apart, Stored, Active, Terminal, Sync, Goto, table, refs, files, task, process, history
<1>1. ASSUME NEW keep \in BOOLEAN, Create(j, keep) PROVE Custody'
  BY <1>1 DEF Create, Enqueue
<1>2. ASSUME NEW keep \in BOOLEAN, CreateClaimed(j, keep) PROVE Custody'
  BY <1>2 DEF CreateClaimed, Enqueue, Durable, Bookkeeping, TaskAgreesWithRow
<1>3. ASSUME NEW r \in Refs, Claim(j, r) PROVE Custody'
  BY <1>3 DEF Claim, AllAttended, Attended
<1>4. ASSUME NEW s \in Jobs, Retry(j, s) PROVE Custody'
  BY <1>4 DEF Retry, Enqueue
<1>5. CASE CreateFails(j)
  <2>1. handle[j] \in Refs /\ refOf[j] = NoRef /\ pc[j] = "claimed"
    BY <1>5 DEF CreateFails, Durable, Bookkeeping, TaskAgreesWithRow
  <2>2. core = "up"
    BY <1>5 DEF CreateFails, Durable, Bookkeeping, TaskAgreesWithRow
  <2>3. /\ handle' = [handle EXCEPT ![j] = NoRef] /\ pc' = [pc EXCEPT ![j] = "none"]
        /\ \/ refRow' = [refRow EXCEPT ![handle[j]] = "absent"] /\ refFile' = refFile \ {handle[j]}
           \/ refRow' = [refRow EXCEPT ![handle[j]] = "cleanup_failed"] /\ UNCHANGED refFile
        /\ UNCHANGED <<state, refOf, outcome, core, scan, restarts>>
    BY <1>5 DEF CreateFails
  <2>4. ASSUME NEW k \in Jobs \ {j} PROVE Held(k)' /\ Traced(k)'
    <3>1. handle[k] # NoRef => handle[k] # handle[j]
      BY <2>4, OthersHoldOthers
    <3>2. handle'[k] = handle[k] /\ pc'[k] = pc[k] /\ refFile' \subseteq refFile
      BY <2>3, <2>4
    <3>3. handle[k] # NoRef => refRow'[handle[k]] = refRow[handle[k]]
      BY <2>3, <3>1
    <3>4. handle[k] # NoRef /\ handle[k] \in refFile => handle[k] \in refFile'
      BY <2>3, <3>1
    <3> QED BY <2>3, <2>4, <3>2, <3>3, <3>4
  <2>5. Held(j)' /\ Traced(j)'
    BY <2>1, <2>2, <2>3
  <2>6. ASSUME NEW k \in Jobs, NEW l \in Jobs PROVE Apart(k, l)'
    BY <2>3, <2>6
  <2>7. ASSUME NEW r \in Refs PROVE Stored(r)'
    BY <2>1, <2>3, <2>7
  <2> QED BY <2>3, <2>4, <2>5, <2>6, <2>7
<1>6. CASE Cancel(j) \/ DeleteUnlink(j) \/ DeleteRow(j)
  BY <1>6 DEF Cancel, DeleteUnlink, DeleteRow
<1> QED
  BY <1>1, <1>2, <1>3, <1>4, <1>5, <1>6 DEF Request

(* The process: nobody holds a recording after a crash, and the end of startup *)
(* removes what was consumed.                                                  *)
LEMMA ProcessCustody ==
  ASSUME TypeOK, Durable, AllAttended, Custody,
         \/ \E j \in Jobs : RecoveryStep(j) \/ CloseReference(j)
         \/ \E r \in Refs : ClaimWithoutTranscript(r)
         \/ ProcessStep
  PROVE  Custody'
<1> USE GenerationAssumption
    DEF TypeOK, Custody, Held, Traced, Apart, Stored, Active, Terminal, Sync, Goto, Visit, LoopFree, Lost, OwnsReference, table, refs, files, task, process, history
<1>1. ASSUME NEW j \in Jobs, RecoverReference(j) PROVE Custody'
  BY <1>1 DEF RecoverReference
<1>2. ASSUME NEW j \in Jobs, RecoveryAborts(j) PROVE Custody'
  BY <1>2 DEF RecoveryAborts
<1>3. ASSUME NEW j \in Jobs, RecoverArtifact(j) PROVE Custody'
  BY <1>3 DEF RecoverArtifact
<1>4. ASSUME NEW j \in Jobs, RecoverOther(j) PROVE Custody'
  BY <1>4 DEF RecoverOther
<1>5. ASSUME NEW j \in Jobs, CloseReference(j) PROVE Custody'
  BY <1>5 DEF CloseReference, NoTasks
<1>6. ASSUME NEW r \in Refs, ClaimWithoutTranscript(r) PROVE Custody'
  BY <1>6 DEF ClaimWithoutTranscript
<1>7. CASE Shutdown
  BY <1>7 DEF Shutdown
<1>8. CASE Stop \/ Crash
  BY <1>8 DEF Stop, Crash
<1>9. CASE Boot
  BY <1>9 DEF Boot
<1>10. CASE StartServing
  BY <1>10 DEF StartServing, Resumes, SweptReferences
<1> QED
  BY <1>1, <1>2, <1>3, <1>4, <1>5, <1>6, <1>7, <1>8, <1>9, <1>10 DEF RecoveryStep, ProcessStep

LEMMA CustodyInvariant == Spec => []Custody
<1>1. Init => Custody
  BY GenerationAssumption DEF Init, Custody, Held, Traced, Apart, Stored
<1>2. TypeOK /\ Durable /\ AllAttended /\ Custody /\ [Next]_vars => Custody'
  <2>1. ASSUME Custody, UNCHANGED vars PROVE Custody'
    BY <2>1 DEF Custody, Held, Traced, Apart, Stored, vars, table, refs, files, task, process, history
  <2>2. ASSUME TypeOK, Durable, AllAttended, Custody, Next PROVE Custody'
    BY <2>2, RequestCustody, RunStepCustody, ProcessCustody DEF Next
  <2> QED BY <2>1, <2>2
<1> QED BY <1>1, <1>2, TypeCorrect, DurableInvariant, AttendedInvariant, PTL DEF Spec

(* A consumed recording has exactly one live task, a recording on disk has its *)
(* row, and a task that may still read its recording owns it.                  *)
THEOREM RecordingsAreOwned == Spec => []EveryRecordingIsOwned
<1>1. TypeOK /\ Custody => EveryRecordingIsOwned
  <2> SUFFICES ASSUME TypeOK, Custody PROVE EveryRecordingIsOwned
    OBVIOUS
  <2> USE GenerationAssumption DEF TypeOK
  <2>1. ASSUME core = "up", NEW r \in Refs, refRow[r] = "consumed" PROVE OwnedByOne(r)
    <3>1. PICK j \in Jobs : handle[j] = r
      BY <2>1 DEF Custody, Stored
    <3>2. pc[j] # "none" /\ state[j] \notin Terminal
      BY <2>1, <3>1 DEF Custody, Held
    <3>3. \A k \in Jobs : handle[k] = r => k = j
      BY <3>1 DEF Custody, Apart
    <3> QED BY <3>1, <3>2, <3>3 DEF OwnedByOne
  <2>2. \A r \in refFile : refRow[r] # "absent"
    BY DEF Custody, Stored
  <2>3. ASSUME NEW j \in Jobs PROVE ReadsItsRecording(j)
    BY <2>3 DEF Custody, Held, Traced, ReadsItsRecording
  <2> QED BY <2>1, <2>2, <2>3 DEF EveryRecordingIsOwned
<1> QED BY <1>1, TypeCorrect, CustodyInvariant, PTL
=============================================================================
