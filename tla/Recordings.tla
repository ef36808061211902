------------------------------ MODULE Recordings ------------------------------
(***************************************************************************)
(* Uploaded reference recordings and the Saved Voices made from them: a    *)
(* row and a file below staging/references for each recording, a row and   *)
(* a directory below voices for each voice.                                *)
(*                                                                         *)
(* Both services are synchronous code on the event loop, so one operation  *)
(* runs at a time, one write to disk or database per step, and Core can be *)
(* killed between two of them.  Only an upload awaits something: the       *)
(* Worker that validates it, while other requests are served.              *)
(***************************************************************************)
EXTENDS Naturals, FiniteSets

CONSTANTS
  References, \* recordings that are uploaded
  Voices,     \* voices that are created
  Nothing,    \* no recording and no voice
  MaxKills    \* bound on the kills of Core

ASSUME RecordingsAssumption ==
  Nothing \notin References \cup Voices /\ MaxKills \in Nat

VARIABLES
  refRow,    \* state of each row of reference_recordings, "none" without one
  refFile,   \* recordings that are in staging/references
  expired,   \* recordings whose expires_at has passed
  uploading, \* recordings that a request waits for the Worker to validate
  spent,     \* uploads that were begun
  voiceRow,  \* the recording each row of saved_voices was made from
  voiceDir,  \* the directory of each voice: "none", "empty" or "file"
  tried,     \* voices whose creation was begun
  operation, \* the operation that runs
  phase,     \* "down", "booting" or "up"
  bound,     \* whether the platform has funlinkat
  kills,     \* kills so far
  cut,       \* history: voices whose deletion was cut short
  unswept    \* history: a file resisted the last recovery

refVars     == <<refRow, refFile, expired, uploading, spent>>
voiceVars   == <<voiceRow, voiceDir, tried, cut>>
hostVars    == <<phase, bound, kills, unswept>>
recordVars  == <<refVars, voiceVars, operation, hostVars>>

NoOperation == [op |-> "none", ref |-> Nothing, voice |-> Nothing, step |-> "none", left |-> {}]

Idle == phase = "up" /\ operation = NoOperation

BeginOperation(name, r, v, step) ==
  operation' = [op |-> name, ref |-> r, voice |-> v, step |-> step, left |-> {}]
At(name, step) == operation.op = name /\ operation.step = step
Next(step) == operation' = [operation EXCEPT !.step = step]

RecordInit ==
  /\ refRow = [r \in References |-> "none"] /\ refFile = {} /\ expired = {} /\ uploading = {}
  /\ spent = {}
  /\ voiceRow = [v \in Voices |-> Nothing] /\ voiceDir = [v \in Voices |-> "none"]
  /\ tried = {} /\ cut = {}
  /\ operation = NoOperation /\ phase = "up" /\ bound \in BOOLEAN /\ kills = 0 /\ unswept = FALSE

\* The hour of a recording is over.  During a recovery this is noticed after it.
GrowLate(r) ==
  /\ phase # "booting" /\ refRow[r] # "none" /\ r \notin expired
  /\ expired' = expired \cup {r}
  /\ UNCHANGED <<refRow, refFile, uploading, spent, voiceVars, operation, hostVars>>
-----------------------------------------------------------------------------
(* Uploading and validating. *)

\* The file is written whole, or what there is of it is removed again.
UploadFile(r) ==
  /\ Idle /\ r \notin spent
  /\ spent' = spent \cup {r}
  /\ refFile' = refFile \cup {r}
  /\ BeginOperation("upload", r, Nothing, "row")
  /\ UNCHANGED <<refRow, expired, uploading, voiceVars, hostVars>>

\* The row, or its transaction fails and the file is removed, if that works.
UploadRow ==
  /\ At("upload", "row")
  /\ operation' = NoOperation
  /\ \/ /\ refRow' = [refRow EXCEPT ![operation.ref] = "uploaded"]
        /\ uploading' = uploading \cup {operation.ref}
        /\ UNCHANGED refFile
     \/ /\ refFile' \in {refFile, refFile \ {operation.ref}}
        /\ UNCHANGED <<refRow, uploading>>
  /\ UNCHANGED <<expired, spent, voiceVars, hostVars>>

\* The Worker has answered: mark_validated, unless the row is not uploaded any more.
Validated(r) ==
  /\ Idle /\ r \in uploading /\ refRow[r] = "uploaded"
  /\ refRow' = [refRow EXCEPT ![r] = "validated"]
  /\ uploading' = uploading \ {r}
  /\ UNCHANGED <<refFile, expired, spent, voiceVars, operation, hostVars>>

\* The Worker refuses, its call ends or the client goes away: delete in the handler,
\* which finds no row or one that a job owns, or else cleans up.
NotValidated(r) ==
  /\ Idle /\ r \in uploading
  /\ uploading' = uploading \ {r}
  /\ IF refRow[r] \in {"none", "consumed"} THEN UNCHANGED operation
     ELSE BeginOperation("delete", r, Nothing, "unlink")
  /\ UNCHANGED <<refRow, refFile, expired, spent, voiceVars, hostVars>>

Delete(r) ==
  /\ Idle /\ refRow[r] \notin {"none", "consumed"}
  /\ BeginOperation("delete", r, Nothing, "unlink")
  /\ UNCHANGED <<refVars, voiceVars, hostVars>>

\* A job takes the recording.  For one that is late the claim writes its new state
\* and raises inside the transaction, which takes the write back: nothing changes.
ClaimRecording(r) ==
  /\ Idle /\ refRow[r] = "validated" /\ r \notin expired
  /\ refRow' = [refRow EXCEPT ![r] = "consumed"]
  /\ UNCHANGED <<refFile, expired, uploading, spent, voiceVars, operation, hostVars>>

\* The job has ended.
ReleaseTerminal(r) ==
  /\ Idle /\ refRow[r] = "consumed"
  /\ BeginOperation("delete", r, Nothing, "unlink")
  /\ UNCHANGED <<refVars, voiceVars, hostVars>>
-----------------------------------------------------------------------------
(* _cleanup, within whatever needs it. *)

\* How the operation goes on after the cleanup, and after it raised: recovery takes
\* the next recording, the creation of a voice takes the voice back.
CleanupEnds ==
  IF operation.op = "recover" THEN operation' = [operation EXCEPT !.step = "next", !.ref = Nothing]
  ELSE operation' = NoOperation

CleanupRaises ==
  IF operation.op = "create" THEN Next("undo row") ELSE CleanupEnds

Unlink ==
  /\ operation.step = "unlink"
  /\ \/ /\ refFile' = refFile \ {operation.ref}
        /\ Next("forget")
        /\ UNCHANGED <<refRow, phase>>
     \/ /\ refRow' = [refRow EXCEPT ![operation.ref] = "cleanup_failed"]
        /\ CleanupRaises
        /\ UNCHANGED <<refFile, phase>>
  /\ UNCHANGED <<expired, uploading, spent, voiceVars, bound, kills, unswept>>

\* delete_metadata.  What the database raises is not a CleanupFailedError, so that it
\* ends a recovery, and with it the start of Core.
Forget ==
  /\ operation.step = "forget"
  /\ \/ /\ refRow' = [refRow EXCEPT ![operation.ref] = "none"]
        /\ CleanupEnds
        /\ UNCHANGED phase
     \/ /\ IF operation.op = "recover" THEN operation' = NoOperation /\ phase' = "down"
           ELSE CleanupRaises /\ UNCHANGED phase
        /\ UNCHANGED refRow
  /\ UNCHANGED <<refFile, expired, uploading, spent, voiceVars, bound, kills, unswept>>
-----------------------------------------------------------------------------
(* create_from_reference. *)

CreateVoice(v, r) ==
  /\ Idle /\ v \notin tried /\ refRow[r] = "validated" /\ r \in refFile
  /\ tried' = tried \cup {v}
  /\ voiceDir' = [voiceDir EXCEPT ![v] = "empty"]
  /\ BeginOperation("create", r, v, "copy")
  /\ UNCHANGED <<refVars, voiceRow, cut, hostVars>>

\* What fails before there is a destination is removed by name.
CopyRecording ==
  /\ At("create", "copy")
  /\ \/ voiceDir' = [voiceDir EXCEPT ![operation.voice] = "file"] /\ Next("row")
     \/ voiceDir' = [voiceDir EXCEPT ![operation.voice] = "file"] /\ Next("undo file")
     \/ voiceDir' = [voiceDir EXCEPT ![operation.voice] = "none"] /\ operation' = NoOperation
  /\ UNCHANGED <<refVars, voiceRow, tried, cut, hostVars>>

\* The row; then its directory and its file are compared with what was written.
InsertVoice ==
  /\ At("create", "row")
  /\ \/ /\ voiceRow' = [voiceRow EXCEPT ![operation.voice] = operation.ref]
        /\ \E step \in {"unlink", "undo row"} : Next(step)
     \/ Next("undo file") /\ UNCHANGED voiceRow
  /\ UNCHANGED <<refVars, voiceDir, tried, cut, hostVars>>

\* Seeded fault: the file goes, whatever became of the row.
UndoneAnyway == {"undo file"}

\* A row that cannot be deleted keeps its file.
AfterUndoFails == {"kept"}

UndoRow ==
  /\ At("create", "undo row")
  /\ \/ voiceRow' = [voiceRow EXCEPT ![operation.voice] = Nothing] /\ Next("undo file")
     \/ (\E step \in AfterUndoFails : Next(step)) /\ UNCHANGED voiceRow
  /\ UNCHANGED <<refVars, voiceDir, tried, cut, hostVars>>

Kept ==
  /\ At("create", "kept")
  /\ operation' = NoOperation
  /\ UNCHANGED <<refVars, voiceVars, hostVars>>

\* _remove_created_voice, whose failures are suppressed.
UndoFile ==
  /\ At("create", "undo file")
  /\ operation' = NoOperation
  /\ voiceDir' \in {[voiceDir EXCEPT ![operation.voice] = d] :
                      d \in IF bound THEN {"none", "empty", "file"} ELSE {"file"}}
  /\ UNCHANGED <<refVars, voiceRow, tried, cut, hostVars>>
-----------------------------------------------------------------------------
(* Deleting a voice. *)

DeleteVoice(v) ==
  /\ Idle /\ bound /\ voiceRow[v] # Nothing /\ voiceDir[v] = "file"
  /\ voiceDir' = [voiceDir EXCEPT ![v] = "empty"]
  /\ BeginOperation("remove", Nothing, v, "row")
  /\ UNCHANGED <<refVars, voiceRow, tried, cut, hostVars>>

\* Without its row the directory goes; with it, the file comes back if it can.
RemoveRow ==
  /\ At("remove", "row")
  /\ \/ /\ voiceRow' = [voiceRow EXCEPT ![operation.voice] = Nothing]
        /\ Next("directory")
     \/ Next("restore") /\ UNCHANGED voiceRow
  /\ UNCHANGED <<refVars, voiceDir, tried, cut, hostVars>>

\* _restore_saved_voice_file.
Restored(v) == [voiceDir EXCEPT ![v] = "file"]

Restore ==
  /\ At("remove", "restore")
  /\ operation' = NoOperation
  /\ \/ /\ voiceDir' = Restored(operation.voice)
        /\ UNCHANGED cut
     \/ /\ cut' = cut \cup {operation.voice}
        /\ UNCHANGED voiceDir
  /\ UNCHANGED <<refVars, voiceRow, tried, hostVars>>

RemoveDirectory ==
  /\ At("remove", "directory")
  /\ operation' = NoOperation
  /\ voiceDir' \in {voiceDir, [voiceDir EXCEPT ![operation.voice] = "none"]}
  /\ UNCHANGED <<refVars, voiceRow, tried, cut, hostVars>>
-----------------------------------------------------------------------------
(* Core is killed, and starts again. *)

Kill ==
  /\ phase # "down" /\ kills < MaxKills
  /\ kills' = kills + 1 /\ phase' = "down"
  /\ operation' = NoOperation /\ uploading' = {}
  /\ cut' = IF operation.op = "remove" THEN cut \cup {operation.voice} ELSE cut
  /\ UNCHANGED <<refRow, refFile, expired, spent, voiceRow, voiceDir, tried, bound, unswept>>

\* Seeded fault: only what nobody used expires.
ExpiresUnused(r) == r \in expired /\ refRow[r] = "uploaded"

Expires(r) == r \in expired /\ refRow[r] \in {"uploaded", "validated"}

\* expire, and the rows that are to be cleaned up.
Recover ==
  /\ phase = "down"
  /\ phase' = "booting" /\ unswept' = FALSE
  /\ refRow' = [r \in References |-> IF Expires(r) THEN "expired" ELSE refRow[r]]
  /\ operation' = [NoOperation EXCEPT !.op = "recover", !.step = "next",
                !.left = {r \in References :
                            refRow'[r] \in {"consumed", "expired", "cleanup_failed"}}]
  /\ UNCHANGED <<refFile, expired, uploading, spent, voiceVars, bound, kills>>

RecoverNext(r) ==
  /\ At("recover", "next") /\ r \in operation.left
  /\ operation' = [operation EXCEPT !.ref = r, !.step = "unlink", !.left = @ \ {r}]
  /\ UNCHANGED <<refVars, voiceVars, hostVars>>

\* Files without a row are unlinked, or resist.
RecoverSweep ==
  /\ At("recover", "next") /\ operation.left = {}
  /\ \E resists \in SUBSET {r \in refFile : refRow[r] = "none"} :
       /\ refFile' = {r \in refFile : refRow[r] # "none"} \cup resists
       /\ unswept' = (resists # {})
  /\ Next("models")
  /\ UNCHANGED <<refRow, expired, uploading, spent, voiceVars, phase, bound, kills>>

\* The recovery of models removes everything below staging, or raises.
RecoverModels ==
  /\ At("recover", "models")
  /\ operation' = NoOperation
  /\ \/ phase' = "up" /\ refFile' = {}
     \/ phase' = "down" /\ UNCHANGED refFile
  /\ UNCHANGED <<refRow, expired, uploading, spent, voiceVars, bound, kills, unswept>>
-----------------------------------------------------------------------------
RecordNext ==
  \/ \E r \in References : GrowLate(r) \/ UploadFile(r) \/ Validated(r) \/ NotValidated(r)
                           \/ Delete(r) \/ ClaimRecording(r) \/ ReleaseTerminal(r) \/ RecoverNext(r)
  \/ UploadRow \/ Unlink \/ Forget
  \/ \E v \in Voices : DeleteVoice(v) \/ \E r \in References : CreateVoice(v, r)
  \/ CopyRecording \/ InsertVoice \/ UndoRow \/ Kept \/ UndoFile
  \/ RemoveRow \/ Restore \/ RemoveDirectory
  \/ Kill \/ Recover \/ RecoverSweep \/ RecoverModels

RecordSpec == RecordInit /\ [][RecordNext]_recordVars
-----------------------------------------------------------------------------
Steps == {"none", "row", "unlink", "forget", "copy", "undo row", "undo file", "kept", "restore",
          "directory", "next", "models"}

RecordTypeOK ==
  /\ refRow \in [References -> {"none", "uploaded", "validated", "consumed", "expired",
                                "cleanup_failed"}]
  /\ refFile \subseteq References /\ expired \subseteq References
  /\ uploading \subseteq References /\ spent \subseteq References
  /\ voiceRow \in [Voices -> References \cup {Nothing}]
  /\ voiceDir \in [Voices -> {"none", "empty", "file"}]
  /\ tried \subseteq Voices /\ cut \subseteq Voices
  /\ operation \in [op : {"none", "upload", "delete", "create", "remove", "recover"},
               ref : References \cup {Nothing}, voice : Voices \cup {Nothing},
               step : Steps, left : SUBSET References]
  /\ phase \in {"down", "booting", "up"} /\ bound \in BOOLEAN /\ kills \in 0 .. MaxKills
  /\ unswept \in BOOLEAN

(* A voice that is listed has its file, through failed creations that are taken *)
(* back, failed deletions and kills, unless the deletion of that very voice was *)
(* cut short or is under way.                                                   *)
VoicesAreWhole ==
  \A v \in Voices : voiceRow[v] # Nothing =>
    voiceDir[v] = "file" \/ v \in cut \/ (operation.op = "remove" /\ operation.voice = v)

(* When the recovery of the references is over, no recording is left that a     *)
(* job owned or whose hour was over, except as a cleanup that failed, and no    *)
(* file without a row, except one that resisted.                                *)
RecoveryIsClean ==
  At("recover", "models") =>
    /\ \A r \in References :
         \/ refRow[r] \in {"none", "cleanup_failed"}
         \/ refRow[r] \in {"uploaded", "validated"} /\ r \notin expired
    /\ unswept \/ \A r \in refFile : refRow[r] # "none"

(* Rows and files of recordings and voices agree after every fault.             *)
RowsAgreeWithFiles == VoicesAreWhole /\ RecoveryIsClean
=============================================================================
