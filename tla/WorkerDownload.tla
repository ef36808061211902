---------------------------- MODULE WorkerDownload ----------------------------
(***************************************************************************)
(* DownloadModel of the VieNeu Worker: each call makes a workspace in      *)
(* .vieneu-downloads, which all replicas of the engine share, has threads  *)
(* fetch the model and the codec into it, and copies them to the staging   *)
(* directory of Core.  A thread works in the current directory, of which a *)
(* process has one; a lock keeps the threads of a process apart.  A call   *)
(* that is cancelled leaves its thread behind and closes its descriptors.  *)
(***************************************************************************)
EXTENDS Naturals, FiniteSets

CONSTANTS
  Downloads, \* calls; each stands for the revision that it asks for, too
  Workers,   \* Worker processes of the engine
  Handles,   \* numbers of file descriptors
  Absent,    \* no workspace
  None       \* no call, no Worker, no descriptor

ASSUME DownloadAssumption == {Absent, None} \cap (Downloads \cup Workers \cup Handles) = {}

VARIABLES
  process,   \* Workers that run
  call,      \* where each call is
  host,      \* the Worker of each call
  thread,    \* the thread of each call: "none", "waiting", "running" or "written"
  fetch,     \* what the thread of each call fetches
  handle,    \* the descriptor number of each call's workspace
  opened,    \* the descriptors of each process: whose workspace a number names
  cwdLock,   \* _SNAPSHOT_CWD_LOCK of each process
  cwd,       \* current directory of each process: a workspace, or its own
  workspace, \* what is in each workspace
  copied,    \* what each call has reported in its manifest
  astray     \* history: a thread entered by a descriptor that was closed before

downloadVars == <<process, call, host, thread, fetch, handle, opened, cwdLock, cwd, workspace,
                  copied, astray>>

Fetching == {"model", "codec"}
Over     == {"off", "over"}

Empty == [model |-> None, codec |-> FALSE]

DownloadInit ==
  /\ process = {}
  /\ call = [d \in Downloads |-> "off"] /\ host = [d \in Downloads |-> None]
  /\ thread = [d \in Downloads |-> "none"] /\ fetch = [d \in Downloads |-> "model"]
  /\ handle = [d \in Downloads |-> None]
  /\ opened = [w \in Workers |-> [h \in Handles |-> None]]
  /\ cwdLock = [w \in Workers |-> None] /\ cwd = [w \in Workers |-> None]
  /\ workspace = [d \in Downloads |-> Absent] /\ copied = [d \in Downloads |-> None]
  /\ astray = FALSE

CallIs(d, step) == call' = [call EXCEPT ![d] = step]
ThreadIs(d, state) == thread' = [thread EXCEPT ![d] = state]
WorkspaceIs(d, content) == workspace' = [workspace EXCEPT ![d] = content]

\* The finally clause closes what the call has opened.
Closes(d) ==
  opened' = IF handle[d] = None THEN opened ELSE [opened EXCEPT ![host[d]][handle[d]] = None]
-----------------------------------------------------------------------------
(* A replica starts, or dies with what it runs. *)

StartWorker(w) ==
  /\ w \notin process
  /\ process' = process \cup {w}
  /\ workspace' = [d \in Downloads |-> Absent]
  /\ UNCHANGED <<call, host, thread, fetch, handle, opened, cwdLock, cwd, copied, astray>>

KillWorker(w) ==
  /\ w \in process
  /\ process' = process \ {w}
  /\ call' = [d \in Downloads |-> IF host[d] = w THEN "over" ELSE call[d]]
  /\ thread' = [d \in Downloads |-> IF host[d] = w THEN "none" ELSE thread[d]]
  /\ opened' = [opened EXCEPT ![w] = [h \in Handles |-> None]]
  /\ cwdLock' = [cwdLock EXCEPT ![w] = None] /\ cwd' = [cwd EXCEPT ![w] = None]
  /\ UNCHANGED <<host, fetch, handle, workspace, copied, astray>>
-----------------------------------------------------------------------------
(* The call, on the event loop of its Worker. *)

Download(d, w) ==
  /\ w \in process /\ call[d] = "off"
  /\ CallIs(d, "resolve")
  /\ host' = [host EXCEPT ![d] = w]
  /\ UNCHANGED <<process, thread, fetch, handle, opened, cwdLock, cwd, workspace, copied,
                 astray>>

\* The revision, the file names and the codec are resolved, or something is missing.
Resolve(d) ==
  /\ call[d] = "resolve"
  /\ \E step \in {"prepare", "over"} : CallIs(d, step)
  /\ UNCHANGED <<process, host, thread, fetch, handle, opened, cwdLock, cwd, workspace, copied,
                 astray>>

MakeWorkspace(d) ==
  /\ call[d] = "prepare"
  /\ \E h \in {h \in Handles : opened[host[d]][h] = None} :
       /\ handle' = [handle EXCEPT ![d] = h]
       /\ opened' = [opened EXCEPT ![host[d]][h] = d]
  /\ WorkspaceIs(d, Empty)
  /\ CallIs(d, "model") /\ ThreadIs(d, "waiting")
  /\ UNCHANGED <<process, host, fetch, cwdLock, cwd, copied, astray>>

\* _assert_workspace after either fetch: the next one, or the copy.
Fetched(d) ==
  /\ call[d] \in Fetching /\ thread[d] = "none" /\ workspace[d] # Absent
  /\ IF call[d] = "model"
     THEN CallIs(d, "codec") /\ ThreadIs(d, "waiting") /\ fetch' = [fetch EXCEPT ![d] = "codec"]
     ELSE CallIs(d, "copy") /\ UNCHANGED <<thread, fetch>>
  /\ UNCHANGED <<process, host, handle, opened, cwdLock, cwd, workspace, copied, astray>>

CopyFiles(d) ==
  /\ call[d] = "copy" /\ workspace[d] # Absent
  /\ workspace[d].model # None /\ workspace[d].codec
  /\ copied' = [copied EXCEPT ![d] = workspace[d].model]
  /\ WorkspaceIs(d, Absent)
  /\ CallIs(d, "over") /\ Closes(d)
  /\ UNCHANGED <<process, host, thread, fetch, handle, cwdLock, cwd, astray>>

\* The call fails, or sees between two steps that it is cancelled: what it copied and
\* its workspace are removed.
CallFails(d) ==
  /\ call[d] \in {"prepare", "copy", "failed"} \cup Fetching /\ thread[d] = "none"
  /\ WorkspaceIs(d, Absent)
  /\ CallIs(d, "over") /\ Closes(d)
  /\ UNCHANGED <<process, host, thread, fetch, handle, cwdLock, cwd, copied, astray>>

\* CancelledError in _run_blocking: the workspace is left to the end of the thread.
Cancel(d) ==
  /\ call[d] \in {"resolve"} \cup Fetching
  /\ IF thread[d] = "none" THEN WorkspaceIs(d, Absent) ELSE UNCHANGED workspace
  /\ CallIs(d, "over") /\ Closes(d)
  /\ UNCHANGED <<process, host, thread, fetch, handle, cwdLock, cwd, copied, astray>>
-----------------------------------------------------------------------------
(* The thread, _snapshot_download_in_directory. *)

\* Seeded fault: the directory is changed without the lock.
UnlockedFor(w) == TRUE

Unlocked(w) == cwdLock[w] = None

\* fchdir goes wherever the number leads by now.
Enter(d) ==
  LET w == host[d] IN
  /\ thread[d] = "waiting" /\ Unlocked(w)
  /\ cwdLock' = [cwdLock EXCEPT ![w] = d]
  /\ cwd' = [cwd EXCEPT ![w] = opened[w][handle[d]]]
  /\ astray' = (astray \/ opened[w][handle[d]] # d)
  /\ ThreadIs(d, "running")
  /\ UNCHANGED <<process, call, host, fetch, handle, opened, workspace, copied>>

\* Seeded fault: nobody cleans up for a call that is over.
LeftBy(d) == workspace

\* _consume_detached_result removes the workspace of a call that is over.
AfterThread(d) ==
  IF call[d] = "over" THEN [workspace EXCEPT ![d] = Absent] ELSE workspace

\* What thread d does to the directory that it is in.
Written(d) ==
  LET at == cwd[host[d]] IN
  IF at = None \/ workspace[at] = Absent THEN workspace
  ELSE [workspace EXCEPT ![at] =
          IF fetch[d] = "codec" THEN [@ EXCEPT !.codec = TRUE] ELSE [@ EXCEPT !.model = d]]

Write(d) ==
  /\ thread[d] = "running"
  /\ workspace' = Written(d)
  /\ ThreadIs(d, "written")
  /\ UNCHANGED <<process, call, host, fetch, handle, opened, cwdLock, cwd, copied, astray>>

\* It leaves the directory after it has written, or failed.
Depart(d) ==
  LET w == host[d] IN
  /\ thread[d] \in {"running", "written"}
  /\ cwdLock' = [cwdLock EXCEPT ![w] = None] /\ cwd' = [cwd EXCEPT ![w] = None]
  /\ workspace' = AfterThread(d)
  /\ IF thread[d] = "running" /\ call[d] # "over"
     THEN CallIs(d, "failed") ELSE UNCHANGED call
  /\ ThreadIs(d, "none")
  /\ UNCHANGED <<process, host, fetch, handle, opened, copied, astray>>
-----------------------------------------------------------------------------
DownloadNext ==
  \/ \E w \in Workers : StartWorker(w) \/ KillWorker(w) \/ \E d \in Downloads : Download(d, w)
  \/ \E d \in Downloads : \/ Resolve(d) \/ MakeWorkspace(d) \/ Fetched(d) \/ CopyFiles(d)
                          \/ CallFails(d) \/ Cancel(d) \/ Enter(d) \/ Write(d) \/ Depart(d)

DownloadSpec == DownloadInit /\ [][DownloadNext]_downloadVars
-----------------------------------------------------------------------------
DownloadTypeOK ==
  /\ process \subseteq Workers
  /\ call \in [Downloads -> Fetching \cup Over \cup {"resolve", "prepare", "copy", "failed"}]
  /\ host \in [Downloads -> Workers \cup {None}]
  /\ thread \in [Downloads -> {"none", "waiting", "running", "written"}]
  /\ fetch \in [Downloads -> Fetching]
  /\ handle \in [Downloads -> Handles \cup {None}]
  /\ opened \in [Workers -> [Handles -> Downloads \cup {None}]]
  /\ cwdLock \in [Workers -> Downloads \cup {None}] /\ cwd \in [Workers -> Downloads \cup {None}]
  /\ workspace \in [Downloads -> {Absent} \cup [model : Downloads \cup {None}, codec : BOOLEAN]]
  /\ copied \in [Downloads -> Downloads \cup {None}] /\ astray \in BOOLEAN

(* What a call reports is the revision that it was asked for, whatever other    *)
(* calls of the process fetch, fail and leave behind, as long as no thread goes *)
(* by a descriptor that its cancelled call has closed.                          *)
ModelIsOfItsRevision ==
  ~astray => \A d \in Downloads : copied[d] \in {None, d}

(* A workspace in a running Worker has a call or a thread that will remove it.  *)
NoScratchIsLeft ==
  \A d \in Downloads :
    workspace[d] # Absent /\ host[d] \in process => call[d] \notin Over \/ thread[d] # "none"

(* Downloads that share a process and its current directory keep apart.        *)
DownloadsKeepApart == ModelIsOfItsRevision /\ NoScratchIsLeft
=============================================================================
