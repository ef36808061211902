------------------------------ MODULE Alignment ------------------------------
(***************************************************************************)
(* Alignments of completed Generation Jobs: a row of generation_alignments *)
(* and a task of the alignment scheduler for each, the requests that make  *)
(* or retry them, the deletion of the audio they belong to, and the close, *)
(* the crash and the start of Core.                                        *)
(*                                                                         *)
(* Code between two awaits is one step, as it holds the event loop; only   *)
(* the deletion runs in the thread pool.  A row that the foreign key or    *)
(* the registry would drop with its artifact is "none".                    *)
(***************************************************************************)
EXTENDS Naturals, FiniteSets

CONSTANTS
  Jobs,      \* completed Generation Jobs that retain their audio
  Requests,  \* POST requests for an alignment
  Replicas,  \* Worker replicas of the model
  NoJob,     \* what a request that is over is about
  MaxCrashes \* bound on the crashes of Core

ASSUME AlignmentAssumption ==
  NoJob \notin Jobs /\ Replicas \in Nat \ {0} /\ MaxCrashes \in Nat

VARIABLES
  audio,     \* of each job: "kept", "unlinked" with its row in place, or "gone"
  deleting,  \* jobs whose audio a thread deletes
  row,       \* state of each alignment; "failed" is retryable, "final" is not
  aligner,   \* where the task of each alignment is
  failure,   \* what the task will record, "none" when it has completed
  request,   \* each request: its job, its step and the row it saw
  doomed,    \* tasks that close has cancelled
  unsettled, \* alignments the start or the close has still to look at
  lifecycle, \* "up", "closing", "down" or "booting"
  orderly,   \* whether the last stop was a close
  crashes,   \* crashes so far
  missed     \* history: rows queued while their old task gave its lease back

alignVars == <<audio, deleting, row, aligner, failure, request, doomed, unsettled, lifecycle,
               orderly, crashes, missed>>

Unfinished == {"queued", "running"}

NoRequest == [job |-> NoJob, step |-> "off", saw |-> "none"]

AlignInit ==
  /\ audio = [j \in Jobs |-> "kept"] /\ deleting = {}
  /\ row = [j \in Jobs |-> "none"]
  /\ aligner = [j \in Jobs |-> "none"] /\ failure = [j \in Jobs |-> "none"]
  /\ request = [q \in Requests |-> NoRequest]
  /\ doomed = {} /\ unsettled = {} /\ lifecycle = "up" /\ orderly = FALSE /\ crashes = 0
  /\ missed = {}

LeaseIsFree ==
  Cardinality({j \in Jobs : aligner[j] \in {"load", "align", "unload", "leave"}})
    + Cardinality({q \in Requests : request[q].step \in {"load", "leave"}}) < Replicas

RowIs(j, state) == row' = [row EXCEPT ![j] = state]
Moves(j, step) == aligner' = [aligner EXCEPT ![j] = step]
Asks(q, step) == request' = [request EXCEPT ![q].step = step]
-----------------------------------------------------------------------------
(* request_alignment. *)

Request(q, j) ==
  /\ lifecycle = "up" /\ request[q] = NoRequest /\ audio[j] = "kept"
  /\ request' = [request EXCEPT ![q] = [job |-> j, step |-> "acquire", saw |-> "none"]]
  /\ UNCHANGED <<audio, deleting, row, aligner, failure, doomed, unsettled, lifecycle, orderly,
                 crashes, missed>>

\* With a lease it looks again, and ends at once for a row that cannot be retried.
RequestAcquires(q) ==
  /\ request[q].step = "acquire"
  /\ LET j == request[q].job IN
       \/ /\ LeaseIsFree
          /\ IF audio[j] = "kept" /\ row[j] \in {"none", "failed"}
             THEN request' = [request EXCEPT ![q].step = "load", ![q].saw = row[j]]
             ELSE Asks(q, "leave")
       \/ request' = [request EXCEPT ![q] = NoRequest]  \* no Worker runs
  /\ UNCHANGED <<audio, deleting, row, aligner, failure, doomed, unsettled, lifecycle, orderly,
                 crashes, missed>>

\* submit: a task that is not done yet is taken to be the one that does the work.
Submit(j) == IF aligner[j] = "none" THEN Moves(j, "new") ELSE UNCHANGED aligner

\* The Worker can align: retry_alignment or create_alignment, and submit.
RequestRecords(q) ==
  /\ request[q].step = "load"
  /\ LET j == request[q].job IN
       IF \/ request[q].saw = "failed" /\ row[j] # "failed"
          \/ audio[j] = "gone"
       THEN UNCHANGED <<row, aligner, missed>>
       ELSE /\ IF row[j] = request[q].saw THEN RowIs(j, "queued") ELSE UNCHANGED row
            /\ Submit(j)
            /\ missed' = IF row'[j] = "queued" /\ aligner[j] = "leave"
                         THEN missed \cup {j} ELSE missed
  /\ Asks(q, "leave")
  /\ UNCHANGED <<audio, deleting, failure, doomed, unsettled, lifecycle, orderly, crashes>>

\* The model cannot be loaded or unloaded, or the Worker cannot align.
RequestFails(q) ==
  /\ request[q].step = "load"
  /\ Asks(q, "leave")
  /\ UNCHANGED <<audio, deleting, row, aligner, failure, doomed, unsettled, lifecycle, orderly,
                 crashes, missed>>

RequestLeaves(q) ==
  /\ request[q].step = "leave"
  /\ request' = [request EXCEPT ![q] = NoRequest]
  /\ UNCHANGED <<audio, deleting, row, aligner, failure, doomed, unsettled, lifecycle, orderly,
                 crashes, missed>>
-----------------------------------------------------------------------------
(* _run_alignment. *)

Runs(j, step) == lifecycle = "up" /\ aligner[j] = step /\ j \notin doomed

\* The last part of the finally clause, over verdict v.
Settled(j, v) ==
  IF row[j] \notin Unfinished THEN row[j] ELSE IF audio[j] = "kept" THEN v ELSE "final"

Start(j) ==
  /\ Runs(j, "new")
  /\ IF audio[j] = "kept" /\ row[j] \in Unfinished
     THEN RowIs(j, "running") /\ Moves(j, "acquire")
     ELSE RowIs(j, Settled(j, "final")) /\ Moves(j, "none")
  /\ missed' = missed \ {j}
  /\ UNCHANGED <<audio, deleting, failure, request, doomed, unsettled, lifecycle, orderly,
                 crashes>>

Acquire(j) ==
  /\ Runs(j, "acquire")
  /\ \/ LeaseIsFree /\ Moves(j, "load") /\ UNCHANGED row
     \/ RowIs(j, Settled(j, "failed")) /\ Moves(j, "none")  \* no Worker runs
  /\ UNCHANGED <<audio, deleting, failure, request, doomed, unsettled, lifecycle, orderly,
                 crashes, missed>>

\* What failed before the model is loaded leaves nothing to unload.
Load(j) ==
  /\ Runs(j, "load")
  /\ \/ Moves(j, "align") /\ UNCHANGED row
     \/ /\ \E v \in {"failed", "final"} : RowIs(j, Settled(j, v))
        /\ Moves(j, "leave")
  /\ UNCHANGED <<audio, deleting, failure, request, doomed, unsettled, lifecycle, orderly,
                 crashes, missed>>

\* The capability, the snapshot, the Worker's answer and complete_alignment.
Align(j) ==
  /\ Runs(j, "align")
  /\ \/ /\ audio[j] = "kept" /\ row[j] \in Unfinished
        /\ RowIs(j, "completed")
        /\ failure' = [failure EXCEPT ![j] = "none"]
     \/ /\ \E v \in {"failed", "final"} : failure' = [failure EXCEPT ![j] = v]
        /\ UNCHANGED row
  /\ Moves(j, "unload")
  /\ UNCHANGED <<audio, deleting, request, doomed, unsettled, lifecycle, orderly, crashes,
                 missed>>

Unload(j) ==
  /\ Runs(j, "unload")
  /\ IF failure[j] = "none" THEN UNCHANGED row
     ELSE \E v \in {failure[j], "failed"} : RowIs(j, Settled(j, v))
  /\ failure' = [failure EXCEPT ![j] = "none"]
  /\ Moves(j, "leave")
  /\ UNCHANGED <<audio, deleting, request, doomed, unsettled, lifecycle, orderly, crashes,
                 missed>>

LeaveLease(j) ==
  /\ Runs(j, "leave")
  /\ Moves(j, "none")
  /\ UNCHANGED <<audio, deleting, row, failure, request, doomed, unsettled, lifecycle, orderly,
                 crashes, missed>>
-----------------------------------------------------------------------------
(* delete_artifact, in a thread. *)

DeleteUnlinks(j) ==
  /\ lifecycle = "up" /\ audio[j] = "kept"
  /\ audio' = [audio EXCEPT ![j] = "unlinked"] /\ deleting' = deleting \cup {j}
  /\ UNCHANGED <<row, aligner, failure, request, doomed, unsettled, lifecycle, orderly, crashes,
                 missed>>

\* The row, and by the foreign key that of the alignment; or the file is put back.
DeleteEnds(j) ==
  /\ j \in deleting
  /\ \/ audio' = [audio EXCEPT ![j] = "gone"] /\ RowIs(j, "none")
     \/ audio' \in {audio, [audio EXCEPT ![j] = "kept"]} /\ UNCHANGED row
  /\ deleting' = deleting \ {j}
  /\ UNCHANGED <<aligner, failure, request, doomed, unsettled, lifecycle, orderly, crashes,
                 missed>>
-----------------------------------------------------------------------------
(* Core closes, when its last request is answered, or crashes; and starts. *)

CloseAlignments ==
  /\ lifecycle = "up" /\ deleting = {} /\ \A q \in Requests : request[q] = NoRequest
  /\ lifecycle' = "closing" /\ unsettled' = Jobs
  /\ doomed' = {j \in Jobs : aligner[j] # "none"}
  /\ UNCHANGED <<audio, deleting, row, aligner, failure, request, orderly, crashes, missed>>

\* A task is cancelled where it is: before it ran, in the unload of its cleanup or
\* in the exit of its lease it ends there, else its finally clause runs.
Cancelled(j) ==
  /\ j \in doomed
  /\ LET completed == row[j] \notin Unfinished IN
     CASE aligner[j] \in {"new", "leave"} \/ (aligner[j] = "unload" /\ ~completed) ->
            Moves(j, "none") /\ UNCHANGED <<row, failure>>
       [] aligner[j] \in {"acquire", "load"} ->
            RowIs(j, Settled(j, "failed")) /\ Moves(j, "none") /\ UNCHANGED failure
       [] aligner[j] = "align" \/ (aligner[j] = "unload" /\ completed) ->
            /\ RowIs(j, Settled(j, "failed")) /\ Moves(j, "none")
            /\ failure' = [failure EXCEPT ![j] = "none"]
  /\ doomed' = doomed \ {j}
  /\ UNCHANGED <<audio, deleting, request, unsettled, lifecycle, orderly, crashes, missed>>

ClosedAs(j) == IF row[j] \in Unfinished THEN "failed" ELSE row[j]

CloseRow(j) ==
  /\ lifecycle = "closing" /\ doomed = {} /\ j \in unsettled
  /\ RowIs(j, ClosedAs(j))
  /\ unsettled' = unsettled \ {j}
  /\ UNCHANGED <<audio, deleting, aligner, failure, request, doomed, lifecycle, orderly,
                 crashes, missed>>

Exits(orderlyStop) ==
  /\ lifecycle' = "down" /\ orderly' = orderlyStop
  /\ unsettled' = {} /\ doomed' = {} /\ deleting' = {}
  /\ aligner' = [j \in Jobs |-> "none"] /\ failure' = [j \in Jobs |-> "none"]
  /\ request' = [q \in Requests |-> NoRequest] /\ missed' = {}
  /\ UNCHANGED <<audio, row>>

Closed ==
  /\ lifecycle = "closing" /\ doomed = {} /\ unsettled = {}
  /\ Exits(TRUE)
  /\ UNCHANGED crashes

Crash ==
  /\ lifecycle # "down" /\ crashes < MaxCrashes
  /\ Exits(FALSE)
  /\ crashes' = crashes + 1

Boot ==
  /\ lifecycle = "down"
  /\ lifecycle' = "booting" /\ unsettled' = Jobs
  /\ UNCHANGED <<audio, deleting, row, aligner, failure, request, doomed, orderly, crashes,
                 missed>>

\* Seeded fault: what is queued is left for a request to submit.
ResumedLater(j) == UNCHANGED aligner

ResumedQueued(j) == Moves(j, "new")

\* resume_alignments, which no task interrupts.
Resume(j) ==
  /\ lifecycle = "booting" /\ j \in unsettled
  /\ CASE row[j] = "running" -> RowIs(j, "failed") /\ UNCHANGED aligner
       [] row[j] = "queued"  -> ResumedQueued(j) /\ UNCHANGED row
       [] OTHER              -> UNCHANGED <<row, aligner>>
  /\ unsettled' = unsettled \ {j}
  /\ lifecycle' = IF unsettled' = {} THEN "up" ELSE lifecycle
  /\ UNCHANGED <<audio, deleting, failure, request, doomed, orderly, crashes, missed>>
-----------------------------------------------------------------------------
AlignNext ==
  \/ \E q \in Requests : \/ \E j \in Jobs : Request(q, j)
                         \/ RequestAcquires(q) \/ RequestRecords(q) \/ RequestFails(q)
                         \/ RequestLeaves(q)
  \/ \E j \in Jobs : \/ Start(j) \/ Acquire(j) \/ Load(j) \/ Align(j) \/ Unload(j) \/ LeaveLease(j)
                     \/ DeleteUnlinks(j) \/ DeleteEnds(j)
                     \/ Cancelled(j) \/ CloseRow(j) \/ Resume(j)
  \/ CloseAlignments \/ Closed \/ Crash \/ Boot

AlignSpec == AlignInit /\ [][AlignNext]_alignVars
-----------------------------------------------------------------------------
AlignTypeOK ==
  /\ audio \in [Jobs -> {"kept", "unlinked", "gone"}]
  /\ row \in [Jobs -> {"none", "queued", "running", "completed", "failed", "final"}]
  /\ aligner \in [Jobs -> {"none", "new", "acquire", "load", "align", "unload", "leave"}]
  /\ failure \in [Jobs -> {"none", "failed", "final"}]
  /\ request \in [Requests -> [job : Jobs \cup {NoJob},
                               step : {"off", "acquire", "load", "leave"},
                               saw : {"none", "failed"}]]
  /\ deleting \subseteq Jobs /\ doomed \subseteq Jobs
  /\ unsettled \subseteq Jobs /\ missed \subseteq Jobs
  /\ lifecycle \in {"up", "closing", "down", "booting"} /\ orderly \in BOOLEAN
  /\ crashes \in 0 .. MaxCrashes

(* While Core is up a queued alignment has a task that will start it, and a    *)
(* running one a task that will record how it ends, whatever requests, retries, *)
(* deletions, crashes and restarts came before -- except a retry that found the *)
(* old task alive only in the exit of its lease.  After a close none is queued *)
(* or running, wherever its task was when it was cancelled.                    *)
NoAlignmentIsLost ==
  /\ lifecycle = "up" => \A j \in Jobs :
       /\ row[j] = "queued" => aligner[j] = "new" \/ j \in missed
       /\ row[j] = "running" =>
            \/ aligner[j] \in {"acquire", "load", "align"}
            \/ aligner[j] = "unload" /\ failure[j] # "none"
  /\ lifecycle = "down" /\ orderly => \A j \in Jobs : row[j] \notin Unfinished
=============================================================================
