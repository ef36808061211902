--------------------------- MODULE HistoryDeletion ---------------------------
(***************************************************************************)
(* Kept audio is deleted one by one, or all of it when the user clears the *)
(* history.  Each deletion runs in a thread of its own and takes no lock:  *)
(* it opens and checks the file, removes the name only if it still names   *)
(* the file that it has open, then removes the row; when the database      *)
(* refuses, it writes the audio that it has read into a new file under the *)
(* old name.  Core may stop at any step.                                   *)
(***************************************************************************)
EXTENDS FiniteSets, Naturals

CONSTANTS
  Artifacts,    \* the audio that is kept
  Deleters,     \* requests that delete
  NoArtifact

VARIABLES
  rows,         \* artifacts with a row
  inode,        \* the file under the name of each artifact; 0 for none
  made,         \* the files made so far
  deleter,      \* where each request is, which artifact it is at, which it has left
  held,         \* the file that each request has open
  temps,        \* requests whose temporary file is there
  answer,       \* what became of each artifact that a request was to delete
  lost,         \* artifacts whose file went and did not come back
  online        \* Core runs

historyVars == <<rows, inode, made, deleter, held, temps, answer, lost, online>>

HistoryInit ==
  /\ rows = Artifacts
  /\ inode = [a \in Artifacts |-> 1] /\ made = 1
  /\ deleter = [d \in Deleters |-> [step |-> "idle", at |-> NoArtifact, todo |-> {}]]
  /\ held = [d \in Deleters |-> 0]
  /\ temps = {}
  /\ answer = [d \in Deleters |-> [a \in Artifacts |-> "none"]]
  /\ lost = {} /\ online = TRUE

DeleterAt(d, step) == online /\ deleter[d].step = step
Step(d, step)      == deleter' = [deleter EXCEPT ![d].step = step]

\* What becomes of the artifact; the request goes on with the next.
Settle(d, a, what) ==
  /\ deleter' = [deleter EXCEPT ![d] = [step |-> "next", at |-> NoArtifact, todo |-> @.todo \ {a}]]
  /\ answer' = [answer EXCEPT ![d][a] = what]
-----------------------------------------------------------------------------
AskToDelete(d, wanted) ==
  /\ DeleterAt(d, "idle")
  /\ deleter' = [deleter EXCEPT ![d] = [step |-> "next", at |-> NoArtifact, todo |-> wanted]]
  /\ UNCHANGED <<rows, inode, made, held, temps, answer, lost, online>>

DeleteOne(d) == \E a \in Artifacts : AskToDelete(d, {a})

\* The rows of the moment; what others delete meanwhile is skipped later.
ClearRetention(d) == AskToDelete(d, rows)

FindArtifact(d) ==
  /\ DeleterAt(d, "next")
  /\ \E a \in deleter[d].todo :
       IF a \in rows
       THEN deleter' = [deleter EXCEPT ![d].step = "open", ![d].at = a] /\ UNCHANGED answer
       ELSE Settle(d, a, "skipped")
  /\ UNCHANGED <<rows, inode, made, held, temps, lost, online>>

\* The file is opened, checked and read into a snapshot.
OpenToDelete(d) ==
  LET a == deleter[d].at IN
  /\ DeleterAt(d, "open")
  /\ \/ inode[a] = 0 /\ Settle(d, a, "skipped") /\ UNCHANGED held
     \/ inode[a] # 0 /\ Step(d, "unlink") /\ held' = [held EXCEPT ![d] = inode[a]]
        /\ UNCHANGED answer
     \/ Settle(d, a, "failed") /\ UNCHANGED held
  /\ UNCHANGED <<rows, inode, made, temps, lost, online>>

\* funlinkat removes a name only as long as it names the open file.  Some platforms have
\* none, and the directory must still be the one that was opened.
UnlinkOpenFile(d) ==
  LET a == deleter[d].at IN
  /\ DeleterAt(d, "unlink")
  /\ \/ inode[a] = held[d] /\ inode' = [inode EXCEPT ![a] = 0] /\ Step(d, "forget")
        /\ UNCHANGED answer
     \/ Settle(d, a, "failed") /\ UNCHANGED inode
  /\ UNCHANGED <<rows, made, held, temps, lost, online>>

\* Seeded fault: when the database refuses, the request fails at once.
GivesUpAtOnce(d) == Settle(d, deleter[d].at, "failed")

Restores(d) == Step(d, "restore") /\ UNCHANGED answer

ForgetRow(d) ==
  LET a == deleter[d].at IN
  /\ DeleterAt(d, "forget")
  /\ \/ rows' = rows \ {a} /\ Settle(d, a, IF a \in rows THEN "deleted" ELSE "skipped")
     \/ Restores(d) /\ UNCHANGED rows
  /\ UNCHANGED <<inode, made, held, temps, lost, online>>

\* The audio goes into a temporary file, which is read again to check it.
StageAudio(d) ==
  /\ DeleterAt(d, "restore")
  /\ Step(d, "link") /\ temps' = temps \cup {d}
  /\ UNCHANGED <<rows, inode, made, held, answer, lost, online>>

\* A link gives it the name, unless there is one again, or something fails.
LinkBack(d) ==
  LET a == deleter[d].at IN
  /\ DeleterAt(d, "link")
  /\ Settle(d, a, "failed") /\ temps' = temps \ {d}
  /\ \/ inode[a] = 0 /\ inode' = [inode EXCEPT ![a] = made + 1] /\ made' = made + 1
        /\ UNCHANGED lost
     \/ lost' = (IF inode[a] = 0 THEN lost \cup {a} ELSE lost) /\ UNCHANGED <<inode, made>>
  /\ UNCHANGED <<rows, held, online>>

\* Core stops, and with it every request.
CoreStops ==
  /\ online
  /\ online' = FALSE
  /\ lost' = lost \cup {deleter[d].at : d \in {e \in Deleters : deleter[e].step \in
                                                  {"forget", "restore", "link"}}}
  /\ deleter' = [d \in Deleters |->
                   IF deleter[d].step = "idle" THEN deleter[d]
                   ELSE [step |-> "next", at |-> NoArtifact, todo |-> {}]]
  /\ UNCHANGED <<rows, inode, made, held, temps, answer>>

\* Recovery removes the temporary files; it looks at no row of a completed job.
RecoverHistory ==
  /\ ~online
  /\ online' = TRUE /\ temps' = {}
  /\ UNCHANGED <<rows, inode, made, deleter, held, answer, lost>>

HistoryNext ==
  \/ \E d \in Deleters :
       \/ DeleteOne(d) \/ ClearRetention(d) \/ FindArtifact(d) \/ OpenToDelete(d)
       \/ UnlinkOpenFile(d) \/ ForgetRow(d) \/ StageAudio(d) \/ LinkBack(d)
  \/ CoreStops \/ RecoverHistory

HistorySpec == HistoryInit /\ [][HistoryNext]_historyVars
-----------------------------------------------------------------------------
HistoryTypeOK ==
  /\ rows \subseteq Artifacts /\ lost \subseteq Artifacts /\ temps \subseteq Deleters
  /\ inode \in [Artifacts -> 0 .. made] /\ made \in Nat \ {0}
  /\ deleter \in [Deleters -> [step : {"idle", "next", "open", "unlink", "forget", "restore", "link"},
                               at : Artifacts \cup {NoArtifact}, todo : SUBSET Artifacts]]
  /\ held \in [Deleters -> 0 .. made]
  /\ answer \in [Deleters -> [Artifacts -> {"none", "deleted", "skipped", "failed"}]]
  /\ online \in BOOLEAN

(* Rows and files go together: no file stays without its row, and a row is     *)
(* without its file only while the request that removed it is between the two, *)
(* or after a stop there, or after a restoration that failed.  One request is  *)
(* told that it deleted an artifact, and that artifact is gone.  Of a          *)
(* restoration that was cut short no temporary file outlives the next start.   *)
RowsAndFilesGoTogether ==
  /\ \A a \in Artifacts :
       /\ inode[a] # 0 => a \in rows
       /\ a \in rows /\ inode[a] = 0 =>
            a \in lost \/ \E d \in Deleters : deleter[d].at = a
                                              /\ deleter[d].step \in {"forget", "restore", "link"}
       /\ Cardinality({d \in Deleters : answer[d][a] = "deleted"}) = (IF a \in rows THEN 0 ELSE 1)
  /\ online => \A d \in temps : deleter[d].step = "link"
=============================================================================
