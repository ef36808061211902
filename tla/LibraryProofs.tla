---------------------------- MODULE LibraryProofs ----------------------------
(***************************************************************************)
(* Theorems about what the library keeps and hands out: alignments, the    *)
(* history and its files, recordings and cloned voices, the bodies of      *)
(* answers, and provider profiles.                                         *)
(***************************************************************************)
EXTENDS Alignment, HistoryDeletion, Recordings, ArtifactReads, Providers,
        FiniteSetTheorems, SequenceTheorems, TLAPS

-----------------------------------------------------------------------------
(* Alignment.  No alignment is lost, for any number of jobs, requests,     *)
(* replicas and crashes.                                                   *)

\* While Core is up: how far the task of a job is, and what its row then says.
RowFollowsTask(j) ==
  /\ row[j] = "queued" => aligner[j] = "new" \/ j \in missed
  /\ row[j] = "running" => aligner[j] \in {"acquire", "load", "align", "unload"}
  /\ row[j] = "failed" => aligner[j] \in {"none", "new", "leave"}
  /\ row[j] = "none" /\ audio[j] # "gone" => aligner[j] = "none"
  /\ aligner[j] \in {"acquire", "load", "align"} => row[j] = "running" \/ audio[j] = "gone"
  /\ aligner[j] = "unload" => \/ row[j] = "running" /\ failure[j] # "none"
                              \/ row[j] = "completed" /\ failure[j] = "none"
                              \/ audio[j] = "gone"

\* What the start has looked at is submitted or has failed; nothing else has a task.
ResumedSoFar(j) ==
  /\ aligner[j] # "none" => aligner[j] = "new" /\ row[j] = "queued"
  /\ j \notin unsettled => row[j] # "running" /\ (row[j] = "queued" => aligner[j] = "new")

AlignInv ==
  /\ AlignTypeOK
  /\ \A j \in Jobs : audio[j] = "gone" => row[j] = "none"
  /\ lifecycle # "up" => deleting = {} /\ \A q \in Requests : request[q] = NoRequest
  /\ \A q \in Requests : request[q] = NoRequest \/ request[q].job \in Jobs
  /\ lifecycle # "closing" => doomed = {}
  /\ \A j \in doomed : aligner[j] # "none"
  /\ \A j \in deleting : audio[j] = "unlinked"
  /\ lifecycle = "up" => \A j \in Jobs : RowFollowsTask(j)
  /\ lifecycle = "closing" =>
       /\ doomed # {} => unsettled = Jobs
       /\ \A j \in Jobs \ unsettled : row[j] \notin Unfinished
  /\ lifecycle = "down" => \A j \in Jobs : aligner[j] = "none"
  /\ lifecycle = "down" /\ orderly => \A j \in Jobs : row[j] \notin Unfinished
  /\ lifecycle = "booting" => \A j \in Jobs : ResumedSoFar(j)

USE DEF AlignTypeOK, NoRequest, Unfinished, RowIs, Moves, Asks, Settled

LEMMA InitAligned == AlignInit => AlignInv
<1> SUFFICES ASSUME AlignInit PROVE AlignInv
  OBVIOUS
<1>1. request \in [Requests -> [job : Jobs \cup {NoJob}, step : {"off", "acquire", "load", "leave"},
                                saw : {"none", "failed"}]]
  BY DEF AlignInit
<1>2. crashes \in 0 .. MaxCrashes
  BY AlignmentAssumption DEF AlignInit
<1>3. AlignTypeOK
  BY <1>1, <1>2 DEF AlignInit
<1> QED
  BY <1>3 DEF AlignInit, AlignInv, RowFollowsTask

(* The steps of a request: a row is queued together with its task, or while    *)
(* the old task is in the exit of its lease, or not at all.                    *)
LEMMA RequestsKeep ==
  ASSUME AlignInv, NEW q \in Requests,
         (\E j \in Jobs : Request(q, j)) \/ RequestAcquires(q) \/ RequestRecords(q)
           \/ RequestFails(q) \/ RequestLeaves(q)
  PROVE  AlignInv'
<1>1. ASSUME NEW j \in Jobs, Request(q, j) PROVE AlignInv'
  BY <1>1 DEF Request, AlignInv, RowFollowsTask
<1>2. CASE RequestAcquires(q)
  BY <1>2, SMTT(30) DEF RequestAcquires, AlignInv, RowFollowsTask
<1>3. CASE RequestRecords(q)
  <2> DEFINE j == request[q].job
  <2>1. lifecycle = "up" /\ j \in Jobs
    BY <1>3 DEF RequestRecords, AlignInv
  <2>2. UNCHANGED <<audio, deleting, failure, doomed, lifecycle>>
    BY <1>3 DEF RequestRecords
  <2>3. \/ UNCHANGED <<row, aligner, missed>>
        \/ /\ audio[j] # "gone"
           /\ aligner' = IF aligner[j] = "none" THEN [aligner EXCEPT ![j] = "new"] ELSE aligner
           /\ \/ UNCHANGED row /\ row[j] # "none"
              \/ row[j] \in {"none", "failed"} /\ row' = [row EXCEPT ![j] = "queued"]
           /\ missed' = IF row'[j] = "queued" /\ aligner[j] = "leave" THEN missed \cup {j} ELSE missed
    BY <1>3 DEF RequestRecords, Submit, AlignInv
  <2>4. request' \in [Requests -> [job : Jobs \cup {NoJob}, step : {"off", "acquire", "load", "leave"},
                                  saw : {"none", "failed"}]]
    BY <1>3 DEF RequestRecords, AlignInv
  <2>5. AlignTypeOK'
    BY <1>3, <2>1, <2>2, <2>3, <2>4 DEF RequestRecords, AlignInv
  <2>6. \A i \in Jobs : RowFollowsTask(i)'
    BY <2>1, <2>2, <2>3 DEF AlignInv, RowFollowsTask
  <2>7. \A i \in Jobs : audio'[i] = "gone" => row'[i] = "none"
    BY <2>1, <2>2, <2>3 DEF AlignInv
  <2>8. \A p \in Requests : request'[p] = NoRequest \/ request'[p].job \in Jobs
    BY <1>3, <2>1 DEF RequestRecords, AlignInv
  <2> QED
    BY <2>1, <2>2, <2>5, <2>6, <2>7, <2>8 DEF AlignInv
<1>4. CASE RequestFails(q) \/ RequestLeaves(q)
  BY <1>4 DEF RequestFails, RequestLeaves, AlignInv, RowFollowsTask
<1> QED
  BY <1>1, <1>2, <1>3, <1>4

(* The steps of a task, which also the row of a deleted recording survives.    *)
LEMMA TasksKeep ==
  ASSUME AlignInv, NEW j \in Jobs,
         Start(j) \/ Acquire(j) \/ Load(j) \/ Align(j) \/ Unload(j) \/ LeaveLease(j)
  PROVE  AlignInv'
<1>1. CASE Start(j)
  BY <1>1 DEF Start, Runs, AlignInv, RowFollowsTask
<1>2. CASE Acquire(j)
  BY <1>2 DEF Acquire, Runs, AlignInv, RowFollowsTask
<1>3. CASE Load(j)
  BY <1>3 DEF Load, Runs, AlignInv, RowFollowsTask
<1>4. CASE Align(j)
  BY <1>4 DEF Align, Runs, AlignInv, RowFollowsTask
<1>5. CASE Unload(j)
  BY <1>5 DEF Unload, Runs, AlignInv, RowFollowsTask
<1>6. CASE LeaveLease(j)
  BY <1>6 DEF LeaveLease, Runs, AlignInv, RowFollowsTask
<1> QED
  BY <1>1, <1>2, <1>3, <1>4, <1>5, <1>6

LEMMA DeletionsKeep ==
  ASSUME AlignInv, NEW j \in Jobs, DeleteUnlinks(j) \/ DeleteEnds(j) PROVE AlignInv'
<1>1. CASE DeleteUnlinks(j)
  BY <1>1 DEF DeleteUnlinks, AlignInv, RowFollowsTask
<1>2. CASE DeleteEnds(j)
  BY <1>2 DEF DeleteEnds, AlignInv, RowFollowsTask
<1> QED
  BY <1>1, <1>2

LEMMA StopsKeep ==
  ASSUME AlignInv,
         CloseAlignments \/ Closed \/ Crash \/ Boot \/ \E j \in Jobs : Cancelled(j) \/ CloseRow(j) \/ Resume(j)
  PROVE  AlignInv'
<1>1. CASE CloseAlignments
  <2>1. AlignTypeOK'
    BY <1>1 DEF CloseAlignments, AlignInv
  <2>2. /\ lifecycle' = "closing" /\ deleting' = {} /\ unsettled' = Jobs
        /\ doomed' = {j \in Jobs : aligner[j] # "none"} /\ UNCHANGED <<audio, row, request, aligner>>
    BY <1>1 DEF CloseAlignments
  <2>3. \A q \in Requests : request[q] = NoRequest
    BY <1>1 DEF CloseAlignments
  <2> QED
    BY <2>1, <2>2, <2>3 DEF AlignInv
<1>2. CASE Closed
  BY <1>2, AlignmentAssumption DEF Closed, Exits, AlignInv
<1>3. CASE Crash
  <2>1. crashes' \in 0 .. MaxCrashes
    BY <1>3, AlignmentAssumption DEF Crash, AlignInv
  <2>2. request' \in [Requests -> [job : Jobs \cup {NoJob}, step : {"off", "acquire", "load", "leave"},
                                  saw : {"none", "failed"}]]
    BY <1>3 DEF Crash, Exits
  <2> QED
    BY <1>3, <2>1, <2>2 DEF Crash, Exits, AlignInv
<1>4. CASE Boot
  BY <1>4 DEF Boot, AlignInv, ResumedSoFar
<1>5. ASSUME NEW j \in Jobs, Cancelled(j) PROVE AlignInv'
  <2>1. lifecycle = "closing" /\ unsettled = Jobs /\ doomed' \subseteq doomed
    BY <1>5 DEF Cancelled, AlignInv
  <2>2. UNCHANGED <<audio, deleting, request, unsettled, lifecycle, orderly, crashes, missed>>
    BY <1>5 DEF Cancelled
  <2>3. aligner[j] \in {"new", "acquire", "load", "align", "unload", "leave"}
    BY <1>5 DEF Cancelled, AlignInv
  <2>4. aligner' = [aligner EXCEPT ![j] = "none"] /\ doomed' = doomed \ {j}
    BY <1>5, <2>3 DEF Cancelled
  <2>5. failure' \in {failure, [failure EXCEPT ![j] = "none"]}
    BY <1>5, <2>3 DEF Cancelled
  <2>6. row' = row \/ row' = [row EXCEPT ![j] = Settled(j, "failed")]
    <3>1. CASE aligner[j] \in {"new", "leave"}
      BY <1>5, <3>1 DEF Cancelled
    <3>2. CASE aligner[j] \in {"acquire", "load", "align"}
      BY <1>5, <3>2 DEF Cancelled
    <3>3. CASE aligner[j] = "unload"
      BY <1>5, <3>3 DEF Cancelled
    <3> QED
      BY <2>3, <3>1, <3>2, <3>3
  <2>7. AlignTypeOK' /\ (audio[j] = "gone" => row' = row)
    BY <2>1, <2>2, <2>4, <2>5, <2>6 DEF AlignInv
  <2>8. \A i \in Jobs : audio'[i] = "gone" => row'[i] = "none"
    BY <2>2, <2>6, <2>7 DEF AlignInv
  <2> QED
    BY <2>1, <2>2, <2>4, <2>7, <2>8 DEF AlignInv
<1>6. ASSUME NEW j \in Jobs, CloseRow(j) PROVE AlignInv'
  BY <1>6 DEF CloseRow, ClosedAs, AlignInv
<1>7. ASSUME NEW j \in Jobs, Resume(j) PROVE AlignInv'
  BY <1>7 DEF Resume, ResumedQueued, AlignInv, ResumedSoFar, RowFollowsTask
<1> QED
  BY <1>1, <1>2, <1>3, <1>4, <1>5, <1>6, <1>7

(* The inductive invariant of alignments holds.                            *)
LEMMA AlignInvariant == AlignSpec => []AlignInv
<1>1. AlignInv /\ UNCHANGED alignVars => AlignInv'
  BY DEF alignVars, AlignInv, RowFollowsTask, ResumedSoFar
<1>2. AlignInv /\ [AlignNext]_alignVars => AlignInv'
  BY <1>1, RequestsKeep, TasksKeep, DeletionsKeep, StopsKeep DEF AlignNext
<1> QED
  BY InitAligned, <1>2, PTL DEF AlignSpec

(* A queued alignment has a task that will start it and a running one a task   *)
(* that records its end, through retries, deletions, closes and crashes.       *)
THEOREM NoAlignmentIsEverLost == AlignSpec => []NoAlignmentIsLost
<1>1. AlignInv => NoAlignmentIsLost
  BY DEF AlignInv, RowFollowsTask, NoAlignmentIsLost
<1> QED
  BY AlignInvariant, <1>1, PTL

HIDE DEF AlignTypeOK, NoRequest, Unfinished, RowIs, Moves, Asks, Settled

-----------------------------------------------------------------------------
(* HistoryDeletion.  Rows and files go together, for any number of         *)
(* artifacts and requests, with restorations that fail and a Core that     *)
(* stops.                                                                  *)

\* The steps after the name is gone and before the row goes or the name is back.
InBetween == {"forget", "restore", "link"}

\* The name is gone and the row is there, of what a request is between the two with: no
\* other request is.
OneBetween ==
  \A d \in Deleters : deleter[d].step \in InBetween =>
    /\ inode[deleter[d].at] = 0 /\ deleter[d].at \in rows
    /\ \A e \in Deleters \ {d} : deleter[e].step \in InBetween => deleter[e].at # deleter[d].at

\* A request answers for what it is to delete once.
AnswersOnce ==
  \A d \in Deleters :
    /\ deleter[d].step \notin {"idle", "next"} => deleter[d].at \in deleter[d].todo
    /\ deleter[d].step = "unlink" => held[d] # 0
    /\ \A a \in Artifacts : answer[d][a] # "none" => a \notin deleter[d].todo
         /\ deleter[d].step # "idle"

\* The request that is told so.
Deleted(a, d) == answer[d][a] = "deleted"

\* One request is told that it deleted an artifact, when its row has gone and not before.
OneIsTold ==
  \A a \in Artifacts :
    IF a \in rows THEN \A d \in Deleters : ~Deleted(a, d)
    ELSE \E d \in Deleters : Deleted(a, d) /\ \A e \in Deleters \ {d} : ~Deleted(a, e)

\* No file stays without its row.
FilesHaveRows == \A a \in Artifacts : inode[a] # 0 => a \in rows

AtBetween(a) == \E d \in Deleters : deleter[d].at = a /\ deleter[d].step \in InBetween

\* A row has its file, or a request is between the two, or the file is lost.
RowsHaveFiles == \A a \in rows : inode[a] # 0 \/ a \in lost \/ AtBetween(a)

\* While Core is up, a temporary name is of a request that is about to link it.
TempsAreLinked == online => \A d \in Deleters : d \in temps => deleter[d].step = "link"

\* The inductive invariant.
HistoryInv ==
  /\ HistoryTypeOK /\ OneBetween /\ AnswersOnce /\ OneIsTold
  /\ FilesHaveRows /\ RowsHaveFiles /\ TempsAreLinked

USE DEF InBetween, Deleted

\* The types of requests and of their answers.
DeleterStates == [step : {"idle", "next", "open", "unlink", "forget", "restore", "link"},
             at : Artifacts \cup {NoArtifact}, todo : SUBSET Artifacts]

AnswerTables == [Artifacts -> {"none", "deleted", "skipped", "failed"}]

\* A request goes on with the artifact it is at.
Stepped(d, step) ==
  /\ deleter'[d].step = step
  /\ deleter'[d].at = deleter[d].at /\ deleter'[d].todo = deleter[d].todo
  /\ \A e \in Deleters \ {d} : deleter'[e] = deleter[e]

\* A request has done with an artifact.
Tells(d, a, what) ==
  /\ deleter'[d].step = "next" /\ deleter'[d].todo = deleter[d].todo \ {a}
  /\ \A e \in Deleters \ {d} : deleter'[e] = deleter[e]
  /\ answer'[d][a] = what
  /\ \A b \in Artifacts \ {a} : answer'[d][b] = answer[d][b]
  /\ \A e \in Deleters \ {d} : answer'[e] = answer[e]

(* Every artifact has its row and its file, and nothing is asked.          *)
LEMMA InitHistory == HistoryInit => HistoryInv
  BY DEF HistoryInit, HistoryInv, HistoryTypeOK, OneBetween, AnswersOnce, OneIsTold,
         FilesHaveRows, RowsHaveFiles,
     AtBetween, TempsAreLinked

(* What the helpers of the actions do: a request takes a step,             *)
LEMMA StepFacts ==
  ASSUME HistoryTypeOK, NEW d \in Deleters, NEW s \in {"unlink", "forget", "restore", "link"},
         Step(d, s)
  PROVE  deleter' \in [Deleters -> DeleterStates] /\ Stepped(d, s)
  BY DEF HistoryTypeOK, Step, Stepped, DeleterStates

(* or has done with an artifact.                                           *)
LEMMA SettleFacts ==
  ASSUME HistoryTypeOK, NEW d \in Deleters, NEW a \in Artifacts,
         NEW what \in {"deleted", "skipped", "failed"}, Settle(d, a, what)
  PROVE  /\ deleter' \in [Deleters -> DeleterStates] /\ answer' \in [Deleters -> AnswerTables]
         /\ Tells(d, a, what)
<1>1. deleter' = [deleter EXCEPT ![d] = [step |-> "next", at |-> NoArtifact, todo |-> @.todo \ {a}]]
  BY DEF Settle
<1>2. [step |-> "next", at |-> NoArtifact, todo |-> deleter[d].todo \ {a}] \in DeleterStates
  BY DEF DeleterStates, HistoryTypeOK
<1>3. deleter \in [Deleters -> DeleterStates] /\ answer \in [Deleters -> AnswerTables]
  BY DEF HistoryTypeOK, DeleterStates, AnswerTables
<1>4. answer' = [answer EXCEPT ![d] = [answer[d] EXCEPT ![a] = what]]
  BY DEF Settle
<1>5. [answer[d] EXCEPT ![a] = what] \in AnswerTables
  BY <1>3 DEF AnswerTables
<1>6. deleter' \in [Deleters -> DeleterStates] /\ \A e \in Deleters \ {d} : deleter'[e] = deleter[e]
  BY <1>1, <1>2, <1>3
<1>7. answer' \in [Deleters -> AnswerTables] /\ \A e \in Deleters \ {d} : answer'[e] = answer[e]
  BY <1>3, <1>4, <1>5
<1>8. answer'[d][a] = what /\ \A b \in Artifacts \ {a} : answer'[d][b] = answer[d][b]
  BY <1>3, <1>4 DEF AnswerTables
<1> QED
  BY <1>1, <1>3, <1>6, <1>7, <1>8 DEF Tells

(* What other requests are between stays so, and so does what this one goes on  *)
(* with.                                                                       *)
LEMMA AtBetweenKept ==
  ASSUME NEW d \in Deleters, \A e \in Deleters \ {d} : deleter'[e] = deleter[e], NEW a,
         \/ deleter[d].at # a \/ deleter[d].step \notin InBetween
         \/ deleter'[d].at = a /\ deleter'[d].step \in InBetween,
         AtBetween(a)
  PROVE  AtBetween(a)'
  BY DEF AtBetween

(* Each action keeps the invariant.                                        *)
LEMMA AskKeeps ==
  ASSUME HistoryInv, NEW d \in Deleters, NEW wanted \in SUBSET Artifacts, AskToDelete(d, wanted)
  PROVE  HistoryInv'
<1>1. [step |-> "next", at |-> NoArtifact, todo |-> wanted] \in DeleterStates
  BY DEF DeleterStates
<1>2. /\ deleter' \in [Deleters -> DeleterStates] /\ deleter[d].step = "idle"
      /\ deleter'[d].step = "next" /\ \A e \in Deleters \ {d} : deleter'[e] = deleter[e]
  BY <1>1 DEF HistoryInv, HistoryTypeOK, DeleterStates, AskToDelete, DeleterAt
<1>3. HistoryTypeOK'
  BY <1>2 DEF HistoryInv, HistoryTypeOK, DeleterStates, AskToDelete
<1>4. OneBetween' /\ OneIsTold' /\ TempsAreLinked'
  BY <1>2 DEF HistoryInv, HistoryTypeOK, OneBetween, OneIsTold, TempsAreLinked, AskToDelete
<1>5. AnswersOnce'
  BY <1>2 DEF HistoryInv, HistoryTypeOK, AnswersOnce, AskToDelete
<1>6. FilesHaveRows' /\ RowsHaveFiles'
  BY <1>2 DEF HistoryInv, FilesHaveRows, RowsHaveFiles, AtBetween, AskToDelete
<1> QED
  BY <1>3, <1>4, <1>5, <1>6 DEF HistoryInv

LEMMA FindArtifactKeeps ==
  ASSUME HistoryInv, NEW d \in Deleters, FindArtifact(d)
  PROVE  HistoryInv'
<1>1. PICK a \in deleter[d].todo :
        IF a \in rows
        THEN deleter' = [deleter EXCEPT ![d].step = "open", ![d].at = a] /\ UNCHANGED answer
        ELSE Settle(d, a, "skipped")
  BY DEF FindArtifact
<1>2. /\ HistoryTypeOK /\ OneBetween /\ AnswersOnce /\ OneIsTold /\ FilesHaveRows /\ RowsHaveFiles
      /\ TempsAreLinked
      /\ a \in Artifacts /\ a \in deleter[d].todo /\ deleter[d].step = "next"
      /\ UNCHANGED <<rows, inode, made, held, temps, lost, online>>
  BY DEF FindArtifact, DeleterAt, HistoryInv, HistoryTypeOK
<1>3. CASE a \in rows
  <2>1. /\ deleter' \in [Deleters -> DeleterStates] /\ UNCHANGED answer
        /\ deleter'[d].step = "open" /\ deleter'[d].at = a /\ deleter'[d].todo = deleter[d].todo
        /\ \A e \in Deleters \ {d} : deleter'[e] = deleter[e]
    BY <1>1, <1>2, <1>3 DEF HistoryTypeOK, DeleterStates
  <2>2. HistoryTypeOK'
    BY <1>2, <2>1 DEF HistoryTypeOK, DeleterStates
  <2>3. OneBetween' /\ AnswersOnce'
    BY <1>2, <2>1 DEF OneBetween, AnswersOnce
  <2>4. OneIsTold' /\ FilesHaveRows' /\ TempsAreLinked'
    BY <1>2, <2>1 DEF OneIsTold, FilesHaveRows, TempsAreLinked
  <2>5. RowsHaveFiles'
    BY <1>2, <2>1, AtBetweenKept DEF RowsHaveFiles
  <2> QED
    BY <2>2, <2>3, <2>4, <2>5 DEF HistoryInv
<1>4. CASE a \notin rows
  <2>1. /\ deleter' \in [Deleters -> DeleterStates] /\ answer' \in [Deleters -> AnswerTables]
        /\ Tells(d, a, "skipped")
    BY <1>2, <1>1, <1>4, SettleFacts
  <2>2. HistoryTypeOK'
    BY <1>2, <2>1, <1>1, <1>4 DEF HistoryTypeOK, DeleterStates, AnswerTables
  <2>3. OneBetween'
    BY <1>2, <2>1, <1>1, <1>4 DEF OneBetween, Tells
  <2>4. AnswersOnce'
    BY <1>2, <2>1, <1>1, <1>4 DEF AnswersOnce, Tells
  <2>5. OneIsTold'
    BY <1>2, <2>1, <1>1, <1>4 DEF OneIsTold, Tells, AnswersOnce
  <2>6. FilesHaveRows'
    BY <1>2, <2>1, <1>1, <1>4 DEF FilesHaveRows, HistoryTypeOK
  <2>7. RowsHaveFiles'
    BY <1>2, <2>1, <1>1, <1>4, AtBetweenKept DEF RowsHaveFiles, Tells, HistoryTypeOK
  <2>8. TempsAreLinked'
    BY <1>2, <2>1, <1>1, <1>4 DEF TempsAreLinked, Tells
  <2> QED
    BY <2>2, <2>3, <2>4, <2>5, <2>6, <2>7, <2>8 DEF HistoryInv
<1> QED
  BY <1>3, <1>4

LEMMA OpenToDeleteKeeps ==
  ASSUME HistoryInv, NEW d \in Deleters, OpenToDelete(d)
  PROVE  HistoryInv'
<1> DEFINE a == deleter[d].at
<1>1. /\ HistoryTypeOK /\ OneBetween /\ AnswersOnce /\ OneIsTold /\ FilesHaveRows /\ RowsHaveFiles
      /\ TempsAreLinked
      /\ a \in Artifacts /\ deleter[d].step = "open"
      /\ UNCHANGED <<rows, inode, made, temps, lost, online>>
  BY DEF OpenToDelete, DeleterAt, HistoryInv, HistoryTypeOK, AnswersOnce
<1>2. CASE inode[a] # 0 /\ Step(d, "unlink") /\ held' = [held EXCEPT ![d] = inode[a]]
             /\ UNCHANGED answer
  <2>1. deleter' \in [Deleters -> DeleterStates] /\ Stepped(d, "unlink")
    BY <1>1, <1>2, StepFacts
  <2>2. HistoryTypeOK'
    BY <1>1, <2>1, <1>2 DEF HistoryTypeOK, DeleterStates, AnswerTables
  <2>3. OneBetween'
    BY <1>1, <2>1, <1>2, SMTT(30) DEF OneBetween, AnswersOnce, HistoryTypeOK, Stepped
  <2>4. AnswersOnce'
    BY <1>1, <2>1, <1>2 DEF AnswersOnce, HistoryTypeOK, Stepped
  <2>5. OneIsTold'
    BY <1>1, <2>1, <1>2 DEF OneIsTold, Stepped, AnswersOnce
  <2>6. FilesHaveRows'
    BY <1>1, <2>1, <1>2 DEF FilesHaveRows, HistoryTypeOK
  <2>7. RowsHaveFiles'
    BY <1>1, <2>1, <1>2, AtBetweenKept DEF RowsHaveFiles, Stepped, HistoryTypeOK
  <2>8. TempsAreLinked'
    BY <1>1, <2>1, <1>2 DEF TempsAreLinked, Stepped
  <2> QED
    BY <2>2, <2>3, <2>4, <2>5, <2>6, <2>7, <2>8 DEF HistoryInv
<1>3. ASSUME NEW what \in {"skipped", "failed"}, Settle(d, a, what), UNCHANGED held
      PROVE  HistoryInv'
  <2>1. /\ deleter' \in [Deleters -> DeleterStates] /\ answer' \in [Deleters -> AnswerTables]
        /\ Tells(d, a, what)
    BY <1>1, <1>3, SettleFacts
  <2>2. HistoryTypeOK'
    BY <1>1, <2>1, <1>3 DEF HistoryTypeOK, DeleterStates, AnswerTables
  <2>3. OneBetween'
    BY <1>1, <2>1, <1>3 DEF OneBetween, Tells
  <2>4. AnswersOnce'
    BY <1>1, <2>1, <1>3 DEF AnswersOnce, Tells
  <2>5. OneIsTold'
    BY <1>1, <2>1, <1>3 DEF OneIsTold, Tells, AnswersOnce
  <2>6. FilesHaveRows'
    BY <1>1, <2>1, <1>3 DEF FilesHaveRows, HistoryTypeOK
  <2>7. RowsHaveFiles'
    BY <1>1, <2>1, <1>3, AtBetweenKept DEF RowsHaveFiles, Tells, HistoryTypeOK
  <2>8. TempsAreLinked'
    BY <1>1, <2>1, <1>3 DEF TempsAreLinked, Tells
  <2> QED
    BY <2>2, <2>3, <2>4, <2>5, <2>6, <2>7, <2>8 DEF HistoryInv
<1> QED
  BY <1>2, <1>3 DEF OpenToDelete

(* The name goes only if it still names what was opened: then no other     *)
(* request is between.                                                     *)
LEMMA UnlinkOpenFileKeeps ==
  ASSUME HistoryInv, NEW d \in Deleters, UnlinkOpenFile(d)
  PROVE  HistoryInv'
<1> DEFINE a == deleter[d].at
<1>1. /\ HistoryTypeOK /\ OneBetween /\ AnswersOnce /\ OneIsTold /\ FilesHaveRows /\ RowsHaveFiles
      /\ TempsAreLinked
      /\ a \in Artifacts /\ deleter[d].step = "unlink"
      /\ UNCHANGED <<rows, made, held, temps, lost, online>>
  BY DEF UnlinkOpenFile, DeleterAt, HistoryInv, HistoryTypeOK, AnswersOnce
<1>2. CASE inode[a] = held[d] /\ inode' = [inode EXCEPT ![a] = 0] /\ Step(d, "forget")
             /\ UNCHANGED answer
  <2>1. deleter' \in [Deleters -> DeleterStates] /\ Stepped(d, "forget")
    BY <1>1, <1>2, StepFacts
  <2>2. rows \subseteq Artifacts /\ inode[a] # 0 /\ inode'[a] = 0
          /\ \A b \in Artifacts \ {a} : inode'[b] = inode[b]
    BY <1>1, <1>2 DEF HistoryTypeOK, AnswersOnce
  <2>3. HistoryTypeOK'
    BY <1>1, <2>1, <1>2 DEF HistoryTypeOK, DeleterStates, AnswerTables
  <2>4. OneBetween'
    BY <1>1, <2>1, <2>2 DEF OneBetween, FilesHaveRows, Stepped
  <2>5. AnswersOnce'
    BY <1>1, <2>1, <1>2 DEF AnswersOnce, Stepped
  <2>6. OneIsTold'
    BY <1>1, <2>1, <1>2 DEF OneIsTold, Stepped, AnswersOnce
  <2>7. FilesHaveRows'
    BY <1>1, <2>1, <1>2 DEF FilesHaveRows, HistoryTypeOK
  <2>8. RowsHaveFiles'
    <3>1. AtBetween(a)'
      BY <2>1 DEF AtBetween, Stepped
    <3> QED
      BY <1>1, <2>2, <2>1, <3>1, AtBetweenKept DEF RowsHaveFiles, Stepped
  <2>9. TempsAreLinked'
    BY <1>1, <2>1, <1>2 DEF TempsAreLinked, Stepped
  <2> QED
    BY <2>3, <2>4, <2>5, <2>6, <2>7, <2>8, <2>9 DEF HistoryInv
<1>3. CASE Settle(d, a, "failed") /\ UNCHANGED inode
  <2>1. /\ deleter' \in [Deleters -> DeleterStates] /\ answer' \in [Deleters -> AnswerTables]
        /\ Tells(d, a, "failed")
    BY <1>1, <1>3, SettleFacts
  <2>2. HistoryTypeOK'
    BY <1>1, <2>1, <1>3 DEF HistoryTypeOK, DeleterStates, AnswerTables
  <2>3. OneBetween'
    BY <1>1, <2>1, <1>3 DEF OneBetween, Tells
  <2>4. AnswersOnce'
    BY <1>1, <2>1, <1>3 DEF AnswersOnce, Tells
  <2>5. OneIsTold'
    BY <1>1, <2>1, <1>3 DEF OneIsTold, Tells, AnswersOnce
  <2>6. FilesHaveRows'
    BY <1>1, <2>1, <1>3 DEF FilesHaveRows, HistoryTypeOK
  <2>7. RowsHaveFiles'
    BY <1>1, <2>1, <1>3, AtBetweenKept DEF RowsHaveFiles, Tells, HistoryTypeOK
  <2>8. TempsAreLinked'
    BY <1>1, <2>1, <1>3 DEF TempsAreLinked, Tells
  <2> QED
    BY <2>2, <2>3, <2>4, <2>5, <2>6, <2>7, <2>8 DEF HistoryInv
<1> QED
  BY <1>2, <1>3 DEF UnlinkOpenFile

LEMMA ForgetRowKeeps ==
  ASSUME HistoryInv, NEW d \in Deleters, ForgetRow(d)
  PROVE  HistoryInv'
<1> DEFINE a == deleter[d].at
<1>1. /\ HistoryTypeOK /\ OneBetween /\ AnswersOnce /\ OneIsTold /\ FilesHaveRows /\ RowsHaveFiles
      /\ TempsAreLinked
      /\ a \in Artifacts /\ deleter[d].step = "forget" /\ a \in rows /\ inode[a] = 0
      /\ UNCHANGED <<inode, made, held, temps, lost, online>>
  BY DEF ForgetRow, DeleterAt, HistoryInv, HistoryTypeOK, AnswersOnce, OneBetween
<1>2. CASE rows' = rows \ {a} /\ Settle(d, a, "deleted")
  <2>1. /\ deleter' \in [Deleters -> DeleterStates] /\ answer' \in [Deleters -> AnswerTables]
        /\ Tells(d, a, "deleted")
    BY <1>1, <1>2, SettleFacts
  <2>2. HistoryTypeOK'
    BY <1>1, <2>1, <1>2 DEF HistoryTypeOK, DeleterStates, AnswerTables
  <2>3. OneBetween'
    BY <1>1, <2>1, <1>2 DEF OneBetween, Tells
  <2>4. AnswersOnce'
    BY <1>1, <2>1, <1>2 DEF AnswersOnce, Tells
  <2>5. OneIsTold'
    BY <1>1, <2>1, <1>2 DEF OneIsTold, Tells, AnswersOnce
  <2>6. FilesHaveRows'
    BY <1>1, <2>1, <1>2 DEF FilesHaveRows, HistoryTypeOK
  <2>7. RowsHaveFiles'
    BY <1>1, <2>1, <1>2, AtBetweenKept DEF RowsHaveFiles, Tells, HistoryTypeOK
  <2>8. TempsAreLinked'
    BY <1>1, <2>1, <1>2 DEF TempsAreLinked, Tells
  <2> QED
    BY <2>2, <2>3, <2>4, <2>5, <2>6, <2>7, <2>8 DEF HistoryInv
<1>3. CASE Step(d, "restore") /\ UNCHANGED <<answer, rows>>
  <2>1. deleter' \in [Deleters -> DeleterStates] /\ Stepped(d, "restore")
    BY <1>1, <1>3, StepFacts
  <2>2. HistoryTypeOK'
    BY <1>1, <2>1, <1>3 DEF HistoryTypeOK, DeleterStates, AnswerTables
  <2>3. OneBetween'
    BY <1>1, <2>1, <1>3 DEF OneBetween, Stepped
  <2>4. AnswersOnce'
    BY <1>1, <2>1, <1>3 DEF AnswersOnce, Stepped
  <2>5. OneIsTold'
    BY <1>1, <2>1, <1>3 DEF OneIsTold, Stepped, AnswersOnce
  <2>6. FilesHaveRows'
    BY <1>1, <2>1, <1>3 DEF FilesHaveRows, HistoryTypeOK
  <2>7. RowsHaveFiles'
    BY <1>1, <2>1, <1>3, AtBetweenKept DEF RowsHaveFiles, Stepped, HistoryTypeOK
  <2>8. TempsAreLinked'
    BY <1>1, <2>1, <1>3 DEF TempsAreLinked, Stepped
  <2> QED
    BY <2>2, <2>3, <2>4, <2>5, <2>6, <2>7, <2>8 DEF HistoryInv
<1> QED
  BY <1>1, <1>2, <1>3 DEF ForgetRow, Restores

LEMMA StageAudioKeeps ==
  ASSUME HistoryInv, NEW d \in Deleters, StageAudio(d)
  PROVE  HistoryInv'
<1>1. /\ HistoryTypeOK /\ OneBetween /\ AnswersOnce /\ OneIsTold /\ FilesHaveRows /\ RowsHaveFiles
      /\ TempsAreLinked
      /\ deleter[d].step = "restore" /\ Step(d, "link") /\ temps' = temps \cup {d}
      /\ UNCHANGED <<rows, inode, made, held, answer, lost, online>>
  BY DEF StageAudio, DeleterAt, HistoryInv
<1>2. HistoryInv'
  <2>1. deleter' \in [Deleters -> DeleterStates] /\ Stepped(d, "link")
    BY <1>1, StepFacts
  <2>2. HistoryTypeOK'
    BY <1>1, <2>1 DEF HistoryTypeOK, DeleterStates, AnswerTables
  <2>3. OneBetween'
    BY <1>1, <2>1 DEF OneBetween, Stepped
  <2>4. AnswersOnce'
    BY <1>1, <2>1 DEF AnswersOnce, Stepped
  <2>5. OneIsTold'
    BY <1>1, <2>1 DEF OneIsTold, Stepped, AnswersOnce
  <2>6. FilesHaveRows'
    BY <1>1, <2>1 DEF FilesHaveRows, HistoryTypeOK
  <2>7. RowsHaveFiles'
    BY <1>1, <2>1, AtBetweenKept DEF RowsHaveFiles, Stepped, HistoryTypeOK
  <2>8. TempsAreLinked'
    BY <1>1, <2>1 DEF TempsAreLinked, Stepped
  <2> QED
    BY <2>2, <2>3, <2>4, <2>5, <2>6, <2>7, <2>8 DEF HistoryInv
<1> QED
  BY <1>2

(* A name that somebody else took meanwhile is left alone.                 *)
LEMMA LinkBackKeeps ==
  ASSUME HistoryInv, NEW d \in Deleters, LinkBack(d)
  PROVE  HistoryInv'
<1> DEFINE a == deleter[d].at
<1>1. /\ HistoryTypeOK /\ OneBetween /\ AnswersOnce /\ OneIsTold /\ FilesHaveRows /\ RowsHaveFiles
      /\ TempsAreLinked
      /\ a \in Artifacts /\ deleter[d].step = "link" /\ a \in rows /\ inode[a] = 0
      /\ Settle(d, a, "failed") /\ temps' = temps \ {d}
      /\ UNCHANGED <<rows, held, online>>
  BY DEF LinkBack, DeleterAt, HistoryInv, HistoryTypeOK, AnswersOnce, OneBetween
<1>2. CASE inode' = [inode EXCEPT ![a] = made + 1] /\ made' = made + 1 /\ UNCHANGED lost
  <2>1. /\ deleter' \in [Deleters -> DeleterStates] /\ answer' \in [Deleters -> AnswerTables]
        /\ Tells(d, a, "failed")
    BY <1>1, <1>2, SettleFacts
  <2>2. inode'[a] # 0 /\ \A b \in Artifacts \ {a} : inode'[b] = inode[b]
    BY <1>1, <1>2 DEF HistoryTypeOK
  <2>3. HistoryTypeOK'
    BY <1>1, <2>1, <1>2 DEF HistoryTypeOK, DeleterStates, AnswerTables
  <2>4. OneBetween'
    BY <1>1, <2>1, <1>2 DEF OneBetween, Tells
  <2>5. AnswersOnce'
    BY <1>1, <2>1, <1>2 DEF AnswersOnce, Tells
  <2>6. OneIsTold'
    BY <1>1, <2>1, <1>2 DEF OneIsTold, Tells, AnswersOnce
  <2>7. FilesHaveRows'
    BY <1>1, <2>1, <1>2 DEF FilesHaveRows, HistoryTypeOK
  <2>8. RowsHaveFiles'
    BY <1>1, <2>2, <2>1, <1>2, AtBetweenKept DEF RowsHaveFiles, Tells, HistoryTypeOK
  <2>9. TempsAreLinked'
    BY <1>1, <2>1, <1>2 DEF TempsAreLinked, Tells
  <2> QED
    BY <2>3, <2>4, <2>5, <2>6, <2>7, <2>8, <2>9 DEF HistoryInv
<1>3. CASE lost' = lost \cup {a} /\ UNCHANGED <<inode, made>>
  <2>1. /\ deleter' \in [Deleters -> DeleterStates] /\ answer' \in [Deleters -> AnswerTables]
        /\ Tells(d, a, "failed")
    BY <1>1, <1>3, SettleFacts
  <2>2. HistoryTypeOK'
    BY <1>1, <2>1, <1>3 DEF HistoryTypeOK, DeleterStates, AnswerTables
  <2>3. OneBetween'
    BY <1>1, <2>1, <1>3 DEF OneBetween, Tells
  <2>4. AnswersOnce'
    BY <1>1, <2>1, <1>3 DEF AnswersOnce, Tells
  <2>5. OneIsTold'
    BY <1>1, <2>1, <1>3 DEF OneIsTold, Tells, AnswersOnce
  <2>6. FilesHaveRows'
    BY <1>1, <2>1, <1>3 DEF FilesHaveRows, HistoryTypeOK
  <2>7. RowsHaveFiles'
    BY <1>1, <2>1, <1>3, AtBetweenKept DEF RowsHaveFiles, Tells, HistoryTypeOK
  <2>8. TempsAreLinked'
    BY <1>1, <2>1, <1>3 DEF TempsAreLinked, Tells
  <2> QED
    BY <2>2, <2>3, <2>4, <2>5, <2>6, <2>7, <2>8 DEF HistoryInv
<1> QED
  BY <1>1, <1>2, <1>3 DEF LinkBack

(* A stop of Core leaves files lost whose request was between the two.     *)
LEMMA CoreStopsKeeps ==
  ASSUME HistoryInv, CoreStops
  PROVE  HistoryInv'
<1> DEFINE Gone(d) == deleter[d].step \in InBetween
<1>1. /\ HistoryTypeOK /\ OneBetween /\ AnswersOnce /\ OneIsTold /\ FilesHaveRows /\ RowsHaveFiles
      /\ TempsAreLinked
      /\ online' = FALSE /\ UNCHANGED <<rows, inode, made, held, temps, answer>>
      /\ lost' = lost \cup {deleter[d].at : d \in {e \in Deleters : Gone(e)}}
  BY DEF CoreStops, HistoryInv
<1>2. /\ deleter' \in [Deleters -> DeleterStates]
      /\ \A d \in Deleters : /\ deleter'[d].step \in {"idle", "next"}
                             /\ deleter'[d].step = "idle" <=> deleter[d].step = "idle"
                             /\ deleter'[d].todo \subseteq deleter[d].todo
  BY <1>1 DEF CoreStops, DeleterStates, HistoryTypeOK
<1>3. \A d \in Deleters : Gone(d) => deleter[d].at \in Artifacts /\ deleter[d].at \in lost'
  BY <1>1 DEF AnswersOnce, HistoryTypeOK
<1>4. HistoryTypeOK'
  <2>1. lost' \subseteq Artifacts
    BY <1>1, <1>3 DEF HistoryTypeOK
  <2> QED
    BY <1>1, <1>2, <2>1 DEF DeleterStates, HistoryTypeOK
<1>5. OneBetween' /\ AnswersOnce' /\ OneIsTold'
  BY <1>1, <1>2 DEF OneBetween, AnswersOnce, OneIsTold
<1>6. FilesHaveRows' /\ TempsAreLinked'
  BY <1>1 DEF FilesHaveRows, TempsAreLinked
<1>7. RowsHaveFiles'
  BY <1>1, <1>3 DEF RowsHaveFiles, AtBetween
<1> QED
  BY <1>4, <1>5, <1>6, <1>7 DEF HistoryInv

LEMMA RecoverHistoryKeeps ==
  ASSUME HistoryInv, RecoverHistory
  PROVE  HistoryInv'
  BY DEF RecoverHistory, HistoryInv, HistoryTypeOK, OneBetween, AnswersOnce, OneIsTold,
         FilesHaveRows, RowsHaveFiles,
     AtBetween, TempsAreLinked

(* In terms of sets of requests: none is told of a row that stays, one of  *)
(* a row that goes.                                                        *)
LEMMA ToldAreCounted ==
  ASSUME OneIsTold, NEW a \in Artifacts
  PROVE  Cardinality({d \in Deleters : answer[d][a] = "deleted"}) = (IF a \in rows THEN 0 ELSE 1)
<1>1. CASE a \in rows
  <2>1. {d \in Deleters : answer[d][a] = "deleted"} = {}
    BY <1>1 DEF OneIsTold
  <2> QED
    BY <1>1, <2>1, FS_EmptySet
<1>2. CASE a \notin rows
  <2>1. PICK d \in Deleters : Deleted(a, d) /\ \A e \in Deleters \ {d} : ~Deleted(a, e)
    BY <1>2 DEF OneIsTold
  <2>2. {e \in Deleters : answer[e][a] = "deleted"} = {d}
    BY <2>1
  <2> QED
    BY <1>2, <2>2, FS_Singleton
<1> QED
  BY <1>1, <1>2

(* The inductive invariant of deletions holds.                             *)
LEMMA HistoryInvariant == HistorySpec => []HistoryInv
<1>1. HistoryInv /\ [HistoryNext]_historyVars => HistoryInv'
  <2> SUFFICES ASSUME HistoryInv, [HistoryNext]_historyVars PROVE HistoryInv'
    OBVIOUS
  <2>1. CASE UNCHANGED historyVars
    BY <2>1 DEF historyVars, HistoryInv, HistoryTypeOK, OneBetween, AnswersOnce,
                OneIsTold, FilesHaveRows, RowsHaveFiles,
     AtBetween, TempsAreLinked
  <2>2. CASE HistoryNext
    <3>1. rows \subseteq Artifacts
      BY DEF HistoryInv, HistoryTypeOK
    <3> QED
      BY <2>2, <3>1, AskKeeps, FindArtifactKeeps, OpenToDeleteKeeps, UnlinkOpenFileKeeps,
         ForgetRowKeeps, StageAudioKeeps, LinkBackKeeps, CoreStopsKeeps, RecoverHistoryKeeps
      DEF HistoryNext, DeleteOne, ClearRetention
  <2> QED
    BY <2>1, <2>2
<1> QED
  BY InitHistory, <1>1, PTL DEF HistorySpec

(* Rows and files go together: no file stays without its row, and a row is *)
(* without its file only between two steps of a deletion, after a stop     *)
(* there or after a failed restoration; and of several deletions of an     *)
(* artifact exactly one is told that it deleted it.                        *)
THEOREM HistoryRowsAndFiles == HistorySpec => []RowsAndFilesGoTogether
<1>1. HistoryInv => RowsAndFilesGoTogether
  BY ToldAreCounted
     DEF HistoryInv, FilesHaveRows, RowsHaveFiles, AtBetween, TempsAreLinked,
                        HistoryTypeOK, RowsAndFilesGoTogether
<1> QED
  BY HistoryInvariant, <1>1, PTL

HIDE DEF InBetween, Deleted

-----------------------------------------------------------------------------
(* Recordings.  Rows agree with files, for any number of recordings and    *)
(* voices, with crashes, failing cleanups and rows that a failed upload    *)
(* left.                                                                   *)

\* Which steps an operation has, and what it works on.
WellFormed(o) ==
  \/ o.op = "none" /\ o.step = "none"
  \/ o.op = "upload" /\ o.ref \in References /\ o.step = "row"
  \/ o.op = "delete" /\ o.ref \in References /\ o.step \in {"unlink", "forget"}
  \/ /\ o.op = "create" /\ o.ref \in References /\ o.voice \in Voices
     /\ o.step \in {"copy", "row", "unlink", "forget", "undo row", "undo file", "kept"}
  \/ o.op = "remove" /\ o.voice \in Voices /\ o.step \in {"row", "restore", "directory"}
  \/ o.op = "recover" /\ o.step \in {"next", "models"}
  \/ o.op = "recover" /\ o.ref \in References /\ o.step \in {"unlink", "forget"}

\* The recovery runs while Core boots, everything else while it is up.
OperationFitsPhase ==
  /\ WellFormed(operation)
  /\ operation.op = "recover" <=> phase = "booting"
  /\ operation.op # "none" => phase # "down"

\* What a creation has made of its voice so far, and a removal of its row.
Made(v) ==
  /\ v \notin tried => voiceRow[v] = Nothing
  /\ operation.op = "create" /\ operation.voice = v =>
       /\ v \in tried
       /\ operation.step \in {"copy", "row", "undo file"} => voiceRow[v] = Nothing
       /\ operation.step \in {"row", "unlink", "forget", "undo row", "kept"} => voiceDir[v] = "file"
  /\ operation.op = "remove" /\ operation.voice = v
       /\ operation.step = "directory" => voiceRow[v] = Nothing
  /\ voiceRow[v] # Nothing =>
       voiceDir[v] = "file" \/ v \in cut \/ (operation.op = "remove" /\ operation.voice = v)

\* A recording that the recovery has been at, or need not be at.
Cleared(r) ==
  \/ refRow[r] \in {"none", "cleanup_failed"}
  \/ refRow[r] \in {"uploaded", "validated"} /\ r \notin expired

\* What the recovery of a start has still to look at, of the rows.
Recovered(r) ==
  operation.op = "recover" =>
    \/ Cleared(r)
    \/ operation.step # "models" /\ r \in operation.left
    \/ operation.step \in {"unlink", "forget"} /\ r = operation.ref

\* Once it has swept the directory, a file has a row.
Swept == At("recover", "models") => unswept \/ \A r \in refFile : refRow[r] # "none"

\* The inductive invariant.
RecordInv ==
  /\ RecordTypeOK /\ OperationFitsPhase /\ Swept
  /\ \A v \in Voices : Made(v)
  /\ \A r \in References : Recovered(r)

USE RecordingsAssumption
    DEF NoOperation, BeginOperation, At, Next, Idle, refVars, voiceVars, hostVars, Steps,
        RecordInv, RecordTypeOK, OperationFitsPhase, WellFormed

(* Core is down, and there is nothing.                                     *)
LEMMA InitRecords == RecordInit => RecordInv
<1> SUFFICES ASSUME RecordInit PROVE RecordInv
  OBVIOUS
<1>1. RecordTypeOK
  <2>1. kills \in 0 .. MaxKills
    BY DEF RecordInit
  <2> QED
    BY <2>1 DEF RecordInit
<1>2. OperationFitsPhase /\ Swept
  BY DEF RecordInit, Swept
<1>3. \A v \in Voices : Made(v)
  BY DEF RecordInit, Made
<1>4. \A r \in References : Recovered(r)
  BY DEF RecordInit, Recovered
<1> QED
  BY <1>1, <1>2, <1>3, <1>4

(* Each action on a recording keeps the invariant,                         *)
LEMMA GrowLateKeepsRecords == ASSUME RecordInv, NEW r \in References, GrowLate(r) PROVE RecordInv'
  BY ZenonT(40) DEF GrowLate, Swept, Made, Recovered, Cleared

LEMMA UploadFileKeepsRecords ==
  ASSUME RecordInv, NEW r \in References, UploadFile(r)
  PROVE  RecordInv'
  BY DEF UploadFile, Swept, Made, Recovered, Cleared

LEMMA ValidatedKeepsRecords == ASSUME RecordInv, NEW r \in References, Validated(r) PROVE RecordInv'
  BY DEF Validated, Swept, Made, Recovered, Cleared

LEMMA NotValidatedKeepsRecords ==
  ASSUME RecordInv, NEW r \in References, NotValidated(r)
  PROVE  RecordInv'
<1>1. /\ Idle /\ uploading' = uploading \ {r}
      /\ UNCHANGED <<refRow, refFile, expired, spent, voiceVars, hostVars>>
  BY DEF NotValidated
<1>2. CASE UNCHANGED operation
  BY <1>1, <1>2 DEF Swept, Made, Recovered, Cleared
<1>3. CASE BeginOperation("delete", r, Nothing, "unlink")
  BY <1>1, <1>3 DEF Swept, Made, Recovered, Cleared
<1> QED
  BY <1>1, <1>2, <1>3 DEF NotValidated

LEMMA DeleteKeepsRecords == ASSUME RecordInv, NEW r \in References, Delete(r) PROVE RecordInv'
  BY DEF Delete, Swept, Made, Recovered, Cleared

LEMMA ClaimRecordingKeepsRecords ==
  ASSUME RecordInv, NEW r \in References, ClaimRecording(r)
  PROVE  RecordInv'
  BY DEF ClaimRecording, Swept, Made, Recovered, Cleared

LEMMA ReleaseTerminalKeepsRecords ==
  ASSUME RecordInv, NEW r \in References, ReleaseTerminal(r)
  PROVE  RecordInv'
  BY DEF ReleaseTerminal, Swept, Made, Recovered, Cleared

LEMMA RecoverNextKeepsRecords ==
  ASSUME RecordInv, NEW r \in References, RecoverNext(r)
  PROVE  RecordInv'
  BY DEF RecoverNext, Swept, Made, Recovered, Cleared

LEMMA UploadRowKeepsRecords == ASSUME RecordInv, UploadRow PROVE RecordInv'
<1>1. RecordTypeOK'
  BY ZenonT(40) DEF UploadRow
<1>2. OperationFitsPhase'
  BY DEF UploadRow
<1>3. Swept'
  BY DEF Swept, UploadRow
<1>4. ASSUME NEW u \in Voices PROVE Made(u)'
  BY DEF Made, UploadRow
<1>5. ASSUME NEW q \in References PROVE Recovered(q)'
  BY DEF Recovered, Cleared, UploadRow
<1> QED
  BY <1>1, <1>2, <1>3, <1>4, <1>5

LEMMA UnlinkKeepsRecords == ASSUME RecordInv, Unlink PROVE RecordInv'
<1>1. /\ operation.step = "unlink" /\ operation.ref \in References
      /\ operation.op \in {"delete", "create", "recover"}
      /\ UNCHANGED <<expired, uploading, spent, voiceVars, bound, kills, unswept>>
  BY DEF Unlink
<1>2. CASE refFile' = refFile \ {operation.ref} /\ Next("forget") /\ UNCHANGED <<refRow, phase>>
  BY <1>1, <1>2 DEF Swept, Made, Recovered, Cleared
<1>3. CASE operation.op = "create" /\ refRow' = [refRow EXCEPT ![operation.ref] = "cleanup_failed"]
          /\ Next("undo row") /\ UNCHANGED <<refFile, phase>>
  BY <1>1, <1>3 DEF Swept, Made, Recovered, Cleared
<1>4. CASE operation.op = "recover" /\ refRow' = [refRow EXCEPT ![operation.ref] = "cleanup_failed"]
          /\ operation' = [operation EXCEPT !.step = "next", !.ref = Nothing]
               /\ UNCHANGED <<refFile, phase>>
  BY <1>1, <1>4 DEF Swept, Made, Recovered, Cleared
<1>5. CASE operation.op = "delete" /\ refRow' = [refRow EXCEPT ![operation.ref] = "cleanup_failed"]
          /\ operation' = NoOperation /\ UNCHANGED <<refFile, phase>>
  BY <1>1, <1>5 DEF Swept, Made, Recovered, Cleared
<1> QED
  BY <1>1, <1>2, <1>3, <1>4, <1>5 DEF Unlink, CleanupRaises, CleanupEnds

LEMMA ForgetKeepsRecords == ASSUME RecordInv, Forget PROVE RecordInv'
<1>1. /\ operation.step = "forget" /\ operation.ref \in References
      /\ operation.op \in {"delete", "create", "recover"}
      /\ UNCHANGED <<refFile, expired, uploading, spent, voiceVars, bound, kills, unswept>>
  BY DEF Forget
<1>2. CASE refRow' = [refRow EXCEPT ![operation.ref] = "none"] /\ operation.op = "recover"
          /\ operation' = [operation EXCEPT !.step = "next", !.ref = Nothing] /\ UNCHANGED phase
  BY <1>1, <1>2 DEF Swept, Made, Recovered, Cleared
<1>3. CASE refRow' = [refRow EXCEPT ![operation.ref] = "none"] /\ operation.op # "recover"
          /\ operation' = NoOperation /\ UNCHANGED phase
  BY <1>1, <1>3 DEF Swept, Made, Recovered, Cleared
<1>4. CASE operation.op = "recover" /\ operation' = NoOperation /\ phase' = "down"
             /\ UNCHANGED refRow
  BY <1>1, <1>4 DEF Swept, Made, Recovered, Cleared
<1>5. CASE operation.op = "create" /\ Next("undo row") /\ UNCHANGED <<phase, refRow>>
  BY <1>1, <1>5 DEF Swept, Made, Recovered, Cleared
<1>6. CASE operation.op = "delete" /\ operation' = NoOperation /\ UNCHANGED <<phase, refRow>>
  BY <1>1, <1>6 DEF Swept, Made, Recovered, Cleared
<1> QED
  BY <1>1, <1>2, <1>3, <1>4, <1>5, <1>6 DEF Forget, CleanupRaises, CleanupEnds

(* and each one on a voice: its creation may fail at any file or row, and  *)
(* undo what it did,                                                       *)
LEMMA DeleteVoiceKeepsRecords == ASSUME RecordInv, NEW v \in Voices, DeleteVoice(v) PROVE RecordInv'
  BY DEF DeleteVoice, Swept, Made, Recovered, Cleared

LEMMA CreateVoiceKeepsRecords ==
  ASSUME RecordInv, NEW v \in Voices, NEW r \in References, CreateVoice(v, r)
  PROVE  RecordInv'
  BY DEF CreateVoice, Swept, Made, Recovered, Cleared

LEMMA CopyRecordingKeepsRecords == ASSUME RecordInv, CopyRecording PROVE RecordInv'
<1>1. /\ operation.step = "copy" /\ operation.op = "create" /\ operation.voice \in Voices
      /\ UNCHANGED <<refVars, voiceRow, tried, cut, hostVars>>
  BY DEF CopyRecording
<1>2. CASE voiceDir' = [voiceDir EXCEPT ![operation.voice] = "file"] /\ Next("row")
  BY <1>1, <1>2 DEF Swept, Made, Recovered, Cleared
<1>3. CASE voiceDir' = [voiceDir EXCEPT ![operation.voice] = "file"] /\ Next("undo file")
  BY <1>1, <1>3 DEF Swept, Made, Recovered, Cleared
<1>4. CASE voiceDir' = [voiceDir EXCEPT ![operation.voice] = "none"] /\ operation' = NoOperation
  BY <1>1, <1>4 DEF Swept, Made, Recovered, Cleared
<1> QED
  BY <1>1, <1>2, <1>3, <1>4 DEF CopyRecording

LEMMA InsertVoiceKeepsRecords == ASSUME RecordInv, InsertVoice PROVE RecordInv'
<1>1. /\ operation.step = "row" /\ operation.op = "create" /\ operation.voice \in Voices
      /\ operation.ref \in References /\ voiceDir[operation.voice] = "file"
      /\ operation.voice \in tried
      /\ UNCHANGED <<refVars, voiceDir, tried, cut, hostVars>>
  BY DEF Made, InsertVoice
<1>2. CASE voiceRow' = [voiceRow EXCEPT ![operation.voice] = operation.ref] /\ Next("unlink")
  BY <1>1, <1>2 DEF Swept, Made, Recovered, Cleared
<1>3. CASE voiceRow' = [voiceRow EXCEPT ![operation.voice] = operation.ref] /\ Next("undo row")
  BY <1>1, <1>3 DEF Swept, Made, Recovered, Cleared
<1>4. CASE Next("undo file") /\ UNCHANGED voiceRow
  BY <1>1, <1>4 DEF Swept, Made, Recovered, Cleared
<1> QED
  BY <1>1, <1>2, <1>3, <1>4 DEF InsertVoice

LEMMA UndoRowKeepsRecords == ASSUME RecordInv, UndoRow PROVE RecordInv'
<1>1. RecordTypeOK'
  BY ZenonT(40) DEF UndoRow, AfterUndoFails
<1>2. OperationFitsPhase'
  BY DEF UndoRow, AfterUndoFails
<1>3. Swept'
  BY DEF Swept, UndoRow, AfterUndoFails
<1>4. ASSUME NEW u \in Voices PROVE Made(u)'
  BY ZenonT(40) DEF Made, UndoRow, AfterUndoFails
<1>5. ASSUME NEW q \in References PROVE Recovered(q)'
  BY DEF Recovered, Cleared, UndoRow, AfterUndoFails
<1> QED
  BY <1>1, <1>2, <1>3, <1>4, <1>5

LEMMA KeptKeepsRecords == ASSUME RecordInv, Kept PROVE RecordInv'
<1>1. RecordTypeOK'
  BY DEF Kept
<1>2. OperationFitsPhase'
  BY DEF Kept
<1>3. Swept'
  BY DEF Swept, Kept
<1>4. ASSUME NEW u \in Voices PROVE Made(u)'
  BY DEF Made, Kept
<1>5. ASSUME NEW q \in References PROVE Recovered(q)'
  BY DEF Recovered, Cleared, Kept
<1> QED
  BY <1>1, <1>2, <1>3, <1>4, <1>5

LEMMA UndoFileKeepsRecords == ASSUME RecordInv, UndoFile PROVE RecordInv'
<1>1. RecordTypeOK'
  BY DEF UndoFile
<1>2. OperationFitsPhase'
  BY DEF UndoFile
<1>3. Swept'
  BY DEF Swept, UndoFile
<1>4. ASSUME NEW u \in Voices PROVE Made(u)'
  BY ZenonT(40) DEF Made, UndoFile
<1>5. ASSUME NEW q \in References PROVE Recovered(q)'
  BY DEF Recovered, Cleared, UndoFile
<1> QED
  BY <1>1, <1>2, <1>3, <1>4, <1>5

LEMMA RemoveRowKeepsRecords == ASSUME RecordInv, RemoveRow PROVE RecordInv'
<1>1. RecordTypeOK'
  BY ZenonT(40) DEF RemoveRow
<1>2. OperationFitsPhase'
  BY DEF RemoveRow
<1>3. Swept'
  BY DEF Swept, RemoveRow
<1>4. ASSUME NEW u \in Voices PROVE Made(u)'
  BY ZenonT(40) DEF Made, RemoveRow
<1>5. ASSUME NEW q \in References PROVE Recovered(q)'
  BY DEF Recovered, Cleared, RemoveRow
<1> QED
  BY <1>1, <1>2, <1>3, <1>4, <1>5

LEMMA RestoreKeepsRecords == ASSUME RecordInv, Restore PROVE RecordInv'
  BY ZenonT(40) DEF Restore, Restored, Swept, Made, Recovered, Cleared

LEMMA RemoveDirectoryKeepsRecords == ASSUME RecordInv, RemoveDirectory PROVE RecordInv'
  BY ZenonT(40) DEF RemoveDirectory, Swept, Made, Recovered, Cleared

(* and each step of a crash and of the recovery after it.                  *)
LEMMA KillKeepsRecords == ASSUME RecordInv, Kill PROVE RecordInv'
<1>1. RecordTypeOK'
  <2>1. kills' \in 0 .. MaxKills
    <3>1. MaxKills \in Nat /\ kills \in 0 .. MaxKills /\ kills < MaxKills /\ kills' = kills + 1
      BY DEF Kill
    <3> HIDE DEF RecordInv
    <3> QED
      BY <3>1
  <2> QED
    BY <2>1 DEF Kill
<1>2. OperationFitsPhase'
  BY DEF Kill
<1>3. Swept'
  BY DEF Swept, Kill
<1>4. ASSUME NEW u \in Voices PROVE Made(u)'
  BY DEF Made, Kill
<1>5. ASSUME NEW q \in References PROVE Recovered(q)'
  BY DEF Recovered, Cleared, Kill
<1> QED
  BY <1>1, <1>2, <1>3, <1>4, <1>5

LEMMA RecoverKeepsRecords == ASSUME RecordInv, Recover PROVE RecordInv'
  BY ZenonT(40) DEF Recover, Expires, Swept, Made, Recovered, Cleared

LEMMA RecoverSweepKeepsRecords == ASSUME RecordInv, RecoverSweep PROVE RecordInv'
  BY DEF RecoverSweep, Swept, Made, Recovered, Cleared

LEMMA RecoverModelsKeepsRecords == ASSUME RecordInv, RecoverModels PROVE RecordInv'
  BY DEF RecoverModels, Swept, Made, Recovered, Cleared

(* The inductive invariant of recordings and voices holds.                 *)
LEMMA RecordInvariant == RecordSpec => []RecordInv
<1>1. RecordInv /\ [RecordNext]_recordVars => RecordInv'
  <2> SUFFICES ASSUME RecordInv, [RecordNext]_recordVars PROVE RecordInv'
    OBVIOUS
  <2>1. CASE UNCHANGED recordVars
    BY <2>1, ZenonT(40) DEF recordVars, Swept, Made, Recovered, Cleared
  <2>2. CASE RecordNext
    <3> HIDE DEF RecordInv
    <3> QED
      BY <2>2, GrowLateKeepsRecords, UploadFileKeepsRecords, ValidatedKeepsRecords,
         NotValidatedKeepsRecords, DeleteKeepsRecords, ClaimRecordingKeepsRecords,
         ReleaseTerminalKeepsRecords, RecoverNextKeepsRecords, UploadRowKeepsRecords,
         UnlinkKeepsRecords, ForgetKeepsRecords, DeleteVoiceKeepsRecords,
         CreateVoiceKeepsRecords, CopyRecordingKeepsRecords, InsertVoiceKeepsRecords,
         UndoRowKeepsRecords, KeptKeepsRecords, UndoFileKeepsRecords,
         RemoveRowKeepsRecords, RestoreKeepsRecords, RemoveDirectoryKeepsRecords,
         KillKeepsRecords, RecoverKeepsRecords, RecoverSweepKeepsRecords,
         RecoverModelsKeepsRecords
         DEF RecordNext
  <2> QED
    BY <2>1, <2>2
<1> QED
  BY InitRecords, <1>1, PTL DEF RecordSpec

(* A voice on record has its file, unless a kill cut its removal short;    *)
(* and when the recovery is over, expired and unrooted recordings are gone *)
(* and no file is without its row, unless a cleanup failed.                *)
THEOREM RowsAndFilesAgree == RecordSpec => []RowsAgreeWithFiles
<1>1. RecordInv => RowsAgreeWithFiles
  BY DEF Swept, Made, Recovered, Cleared, RowsAgreeWithFiles, VoicesAreWhole,
         RecoveryIsClean
<1> QED
  BY RecordInvariant, <1>1, PTL

HIDE RecordingsAssumption
    DEF NoOperation, BeginOperation, At, Next, Idle, refVars, voiceVars, hostVars, Steps,
        RecordInv, RecordTypeOK, OperationFitsPhase, WellFormed

-----------------------------------------------------------------------------
(* ArtifactReads.  An answer is the range that was asked for and leaves no *)
(* snapshot open, for any number of requests, any file and any size of     *)
(* chunk.                                                                  *)

\* Where the answer starts and how long it is, of a request that has one.
From(q)  == IF asks[q] = "download" THEN Parsed(range[q])[1] ELSE 0
Whole(q) ==
  IF asks[q] = "download" THEN Parsed(range[q])[2] + 1 - Parsed(range[q])[1] ELSE FileSize

\* It sends a body, in order and no more of it than was asked for.
Sends(q) == asks[q] # "head" /\ (asks[q] = "download" => Parsed(range[q]) # <<>>)

InOrder(q) == \A i \in 1 .. Len(body[q]) : body[q][i] = From(q) + i - 1

\* What was sent at each stage.
BodyStands(q) ==
  /\ reader[q] \in {"idle", "job", "aligning", "opening", "sizing", "loading", "refused"} =>
       body[q] = <<>>
  /\ reader[q] = "streaming" => Sends(q) /\ InOrder(q) /\ Len(body[q]) <= Whole(q)
  /\ reader[q] \in {"closing", "answered"} =>
       \/ Sends(q) /\ InOrder(q) /\ Len(body[q]) = Whole(q)
       \/ (~Sends(q) \/ asks[q] = "json") /\ body[q] = <<>>
  /\ reader[q] = "answered" => ~Refused(q)

\* Who has the snapshot open at each stage, and who closes it.
HandleStands(q) ==
  /\ reader[q] \in {"job", "aligning"} => asks[q] \in {"speech", "json"}
  /\ reader[q] = "sizing" => asks[q] # "speech"
  /\ reader[q] = "loading" => asks[q] = "json"
  /\ reader[q] \in {"idle", "job", "aligning"} => opener[q] = "none"
  /\ reader[q] \in {"opening", "sizing", "streaming", "loading", "closing"} =>
       snapshot[q] # "closed" /\ opener[q] # "none"
  /\ opener[q] # "opened" => snapshot[q] = "none"
  /\ closer[q] => reader[q] \in {"cut", "cancelled"}
  /\ reader[q] \in {"cut", "cancelled"} /\ opener[q] \in {"looking", "found"} => closer[q]
  /\ reader[q] \in {"cut", "cancelled"} /\ snapshot[q] = "open" => closer[q]
  /\ reader[q] = "refused" => opener[q] \in {"none", "failed", "opened"}
  /\ reader[q] = "refused" /\ opener[q] = "opened" => snapshot[q] = "closed" /\ Refused(q)
  /\ reader[q] \in {"sizing", "streaming", "loading", "closing", "answered"} =>
       opener[q] = "opened"
  /\ reader[q] = "answered" => snapshot[q] = "closed"

\* The inductive invariant.
ReadInv == ReadTypeOK /\ \A q \in Readers : BodyStands(q) /\ HandleStands(q)

\* What other requests do does not concern one.
Untouched(q) ==
  /\ asks'[q] = asks[q] /\ range'[q] = range[q] /\ reader'[q] = reader[q]
  /\ opener'[q] = opener[q] /\ snapshot'[q] = snapshot[q] /\ closer'[q] = closer[q]
  /\ body'[q] = body[q]

USE ArtifactReadsAssumption

(* So it stands as before.                                                 *)
LEMMA UntouchedStands ==
  ASSUME NEW q \in Readers, Untouched(q), BodyStands(q), HandleStands(q)
  PROVE  BodyStands(q)' /\ HandleStands(q)'
<1>1. /\ Sends(q)' = Sends(q) /\ From(q)' = From(q) /\ Whole(q)' = Whole(q)
      /\ Refused(q)' = Refused(q)
  BY DEF Untouched, Sends, From, Whole, Refused
<1>2. InOrder(q)' = InOrder(q)
  BY <1>1 DEF Untouched, InOrder
<1> QED
  BY <1>1, <1>2 DEF Untouched, BodyStands, HandleStands

(* Nothing is asked.                                                       *)
LEMMA InitReads == ReadInit => ReadInv
<1> SUFFICES ASSUME ReadInit PROVE ReadInv
  OBVIOUS
<1>1. ReadTypeOK
  <2>1. NoRange \in Ranges
    BY DEF NoRange, Ranges, Numbers
  <2>2. <<>> \in Seq(Nat)
    OBVIOUS
  <2> QED
    BY <2>1, <2>2 DEF ReadInit, ReadTypeOK, ReadKinds, ReaderStates
<1>2. ASSUME NEW q \in Readers PROVE BodyStands(q) /\ HandleStands(q)
  BY DEF ReadInit, BodyStands, HandleStands
<1> QED
  BY <1>1, <1>2 DEF ReadInv

\* What _parse_single_range answers is the range that was wanted.
LEMMA ParsedIsWanted ==
  ASSUME NEW r \in Ranges
  PROVE  /\ Parsed(r) = <<>> => Wanted(r) = {}
         /\ Parsed(r) # <<>> =>
              /\ Parsed(r)[1] \in Nat /\ Parsed(r)[2] \in Nat
              /\ Parsed(r)[1] <= Parsed(r)[2] /\ Parsed(r)[2] < FileSize
              /\ Wanted(r) = Parsed(r)[1] .. Parsed(r)[2]
<1>1. FileSize \in Nat /\ FileSize >= 1
  OBVIOUS
<1>2. /\ r.first = <<>> \/ \E n \in Nat : r.first = <<n>>
      /\ r.last = <<>> \/ \E n \in Nat : r.last = <<n>>
  BY DEF Ranges, Numbers
<1>3. CASE r.first = <<>> /\ r.last = <<>>
  BY <1>3 DEF Parsed, Wanted
<1>4. CASE r.first = <<>> /\ r.last # <<>>
  <2>1. PICK n \in Nat : r.last = <<n>>
    BY <1>2, <1>4
  <2>2. r.last[1] = n
    BY <2>1
  <2>3. Wanted(r) = {i \in 0 .. FileSize - 1 : i + n >= FileSize}
    BY <1>4, <2>2 DEF Wanted
  <2>4. CASE n = 0
    <3>1. Parsed(r) = <<>>
      BY <1>4, <2>2, <2>4 DEF Parsed
    <3>2. Wanted(r) = {}
      BY <1>1, <2>3, <2>4
    <3> QED
      BY <3>1, <3>2
  <2>5. CASE n # 0
    <3> DEFINE a == FileSize - Least(FileSize, n)
               b == FileSize - 1
    <3>1. Parsed(r) = <<a, b>>
      BY <1>4, <2>2, <2>5 DEF Parsed
    <3>2. a \in Nat /\ b \in Nat /\ a <= b /\ b < FileSize
      BY <1>1, <2>5 DEF Least
    <3>3. Wanted(r) = a .. b
      BY <1>1, <2>3, <2>5 DEF Least
    <3> HIDE DEF a, b
    <3> QED
      BY <3>1, <3>2, <3>3
  <2> QED
    BY <2>4, <2>5
<1>5. CASE r.first # <<>>
  <2>1. PICK f \in Nat : r.first = <<f>>
    BY <1>2, <1>5
  <2>2. r.first[1] = f
    BY <2>1
  <2> DEFINE end == IF r.last = <<>> THEN FileSize - 1 ELSE r.last[1]
             b == Least(end, FileSize - 1)
  <2>3. end \in Nat
    <3>1. CASE r.last = <<>>
      BY <1>1, <3>1
    <3>2. CASE r.last # <<>>
      <4>1. PICK l \in Nat : r.last = <<l>>
        BY <1>2, <3>2
      <4>2. r.last[1] = l
        BY <4>1
      <4> QED
        BY <3>2, <4>2
    <3> QED
      BY <3>1, <3>2
  <2>4. Wanted(r) = {i \in 0 .. FileSize - 1 : i >= f /\ i <= end}
    BY <1>1, <1>5, <2>2 DEF Wanted
  <2>5. Parsed(r) = IF f >= FileSize \/ end < f THEN <<>> ELSE <<f, b>>
    BY <1>5, <2>2 DEF Parsed
  <2> HIDE DEF end
  <2>6. CASE f >= FileSize \/ end < f
    <3>1. Wanted(r) = {}
      BY <1>1, <2>3, <2>4, <2>6
    <3> QED
      BY <2>5, <2>6, <3>1
  <2>7. CASE ~(f >= FileSize \/ end < f)
    <3>1. b \in Nat /\ f <= b /\ b < FileSize
      BY <1>1, <2>3, <2>7 DEF Least
    <3>2. Wanted(r) = f .. b
      BY <1>1, <2>3, <2>4, <2>7 DEF Least
    <3> HIDE DEF b
    <3>3. Parsed(r) = <<f, b>>
      BY <2>5, <2>7
    <3> QED
      BY <3>1, <3>2, <3>3
  <2> QED
    BY <2>6, <2>7
<1> QED
  BY <1>3, <1>4, <1>5

(* What is still to be sent is the rest of the answer.                     *)
LEMMA UnsentIsTheRest ==
  ASSUME ReadTypeOK, NEW q \in Readers, Sends(q)
  PROVE  /\ Unsent(q).start = From(q) + Len(body[q])
         /\ Unsent(q).length = Whole(q) - Len(body[q])
<1>1. Len(body[q]) \in Nat /\ FileSize \in Nat
  BY DEF ReadTypeOK
<1>2. CASE asks[q] = "download"
  <2>1. Parsed(range[q])[1] \in Nat /\ Parsed(range[q])[2] \in Nat
    BY <1>2, ParsedIsWanted DEF ReadTypeOK, Sends
  <2>2. /\ Unsent(q).start = Parsed(range[q])[1] + Len(body[q])
        /\ Unsent(q).length = Parsed(range[q])[2] + 1 - Parsed(range[q])[1] - Len(body[q])
    BY <1>2 DEF Unsent
  <2> QED
    BY <1>1, <1>2, <2>1, <2>2 DEF From, Whole
<1>3. CASE asks[q] # "download"
  BY <1>1, <1>3 DEF Unsent, From, Whole
<1> QED
  BY <1>2, <1>3

(* An answer has a first byte and a length.                                *)
LEMMA AnswerHasABound ==
  ASSUME ReadTypeOK, NEW q \in Readers, Sends(q)
  PROVE  From(q) \in Nat /\ Whole(q) \in Nat /\ Whole(q) >= 1
  BY ParsedIsWanted DEF ReadTypeOK, Sends, From, Whole

-----------------------------------------------------------------------------
\* What a step of one request has to keep.
LEMMA StepOfOne ==
  ASSUME ReadInv, NEW q \in Readers, ReadTypeOK', \A p \in Readers \ {q} : Untouched(p),
         BodyStands(q)', HandleStands(q)'
  PROVE  ReadInv'
  BY UntouchedStands DEF ReadInv

(* Each action keeps the invariant.                                        *)
LEMMA AskKeepsReads == ASSUME ReadInv, NEW q \in Readers, Ask(q) PROVE ReadInv'
<1>1. ReadTypeOK /\ BodyStands(q) /\ HandleStands(q) /\ reader[q] = "idle"
  BY DEF ReadInv, Ask
<1>2. /\ body[q] = <<>> /\ opener[q] = "none" /\ snapshot[q] = "none" /\ ~closer[q]
  BY <1>1 DEF BodyStands, HandleStands
<1>3. asks'[q] \in ReadKinds
  BY DEF Ask
<1>4. CASE asks'[q] \in {"download", "head"}
  <2>1. PICK r \in Ranges : range' = [range EXCEPT ![q] = r]
    BY <1>4 DEF Ask
  <2>2. /\ reader' = [reader EXCEPT ![q] = "opening"] /\ opener' = [opener EXCEPT ![q] = "looking"]
    BY <1>4 DEF Ask, OpenFor, Go
  <2>3. ReadTypeOK'
    BY <1>1, <2>1, <2>2 DEF ReadTypeOK, Ask, ReaderStates
  <2>4. \A p \in Readers \ {q} : Untouched(p)
    BY <1>1, <2>1, <2>2 DEF ReadTypeOK, Ask, Untouched
  <2>5. BodyStands(q)' /\ HandleStands(q)'
    BY <1>1, <1>2, <2>2 DEF ReadTypeOK, Ask, BodyStands, HandleStands
  <2> QED
    BY <2>3, <2>4, <2>5, StepOfOne
<1>5. CASE asks'[q] \in {"speech", "json"}
  <2>1. reader' = [reader EXCEPT ![q] = "job"] /\ UNCHANGED <<range, opener>>
    BY <1>5 DEF Ask, Go
  <2>2. ReadTypeOK'
    BY <1>1, <2>1 DEF ReadTypeOK, Ask, ReaderStates
  <2>3. \A p \in Readers \ {q} : Untouched(p)
    BY <1>1, <2>1 DEF ReadTypeOK, Ask, Untouched
  <2>4. BodyStands(q)' /\ HandleStands(q)'
    BY <1>1, <1>2, <1>5, <2>1 DEF ReadTypeOK, Ask, BodyStands, HandleStands
  <2> QED
    BY <2>2, <2>3, <2>4, StepOfOne
<1> QED
  BY <1>3, <1>4, <1>5 DEF ReadKinds

\* A step that leaves what was asked and what was sent alone.
LEMMA BodyAsItWas ==
  ASSUME NEW q \in Readers, UNCHANGED <<asks, range, body>>
  PROVE  /\ Sends(q)' = Sends(q) /\ Whole(q)' = Whole(q) /\ InOrder(q)' = InOrder(q)
         /\ Refused(q)' = Refused(q)
  BY DEF Sends, Whole, InOrder, From, Refused

LEMMA JobEndsKeepsReads == ASSUME ReadInv, NEW q \in Readers, JobEnds(q) PROVE ReadInv'
<1>1. /\ ReadTypeOK /\ BodyStands(q) /\ HandleStands(q) /\ reader[q] = "job"
      /\ UNCHANGED <<file, asks, range, snapshot, closer, body>>
  BY DEF ReadInv, JobEnds
<1>2. /\ body[q] = <<>> /\ opener[q] = "none" /\ snapshot[q] = "none" /\ ~closer[q]
  BY <1>1 DEF BodyStands, HandleStands
<1>3. PICK s \in {"opening", "aligning", "refused"}, o \in {"none", "looking"} :
        /\ reader' = [reader EXCEPT ![q] = s] /\ opener' = [opener EXCEPT ![q] = o]
        /\ s = "opening" <=> o = "looking"
        /\ s = "aligning" => asks[q] = "json"
  BY <1>1, <1>2 DEF JobEnds, OpenFor, Go, ReadTypeOK
<1>4. ReadTypeOK'
  BY <1>1, <1>3 DEF ReadTypeOK, ReaderStates
<1>5. \A p \in Readers \ {q} : Untouched(p)
  BY <1>1, <1>3 DEF ReadTypeOK, Untouched
<1>6. BodyStands(q)' /\ HandleStands(q)'
  BY <1>1, <1>2, <1>3 DEF ReadTypeOK, BodyStands, HandleStands
<1> QED
  BY <1>4, <1>5, <1>6, StepOfOne

LEMMA AlignedKeepsReads == ASSUME ReadInv, NEW q \in Readers, Aligned(q) PROVE ReadInv'
<1>1. /\ ReadTypeOK /\ BodyStands(q) /\ HandleStands(q) /\ reader[q] = "aligning"
      /\ UNCHANGED <<file, asks, range, snapshot, closer, body>>
  BY DEF ReadInv, Aligned
<1>2. /\ body[q] = <<>> /\ opener[q] = "none" /\ snapshot[q] = "none" /\ ~closer[q]
  BY <1>1 DEF BodyStands, HandleStands
<1>3. PICK s \in {"opening", "refused"}, o \in {"none", "looking"} :
        /\ reader' = [reader EXCEPT ![q] = s] /\ opener' = [opener EXCEPT ![q] = o]
        /\ s = "opening" <=> o = "looking"
  BY <1>1, <1>2 DEF Aligned, OpenFor, Go, ReadTypeOK
<1>4. ReadTypeOK'
  BY <1>1, <1>3 DEF ReadTypeOK, ReaderStates
<1>5. \A p \in Readers \ {q} : Untouched(p)
  BY <1>1, <1>3 DEF ReadTypeOK, Untouched
<1>6. BodyStands(q)' /\ HandleStands(q)'
  BY <1>1, <1>2, <1>3 DEF ReadTypeOK, BodyStands, HandleStands
<1> QED
  BY <1>4, <1>5, <1>6, StepOfOne

LEMMA OpenReturnsKeepsReads == ASSUME ReadInv, NEW q \in Readers, OpenReturns(q) PROVE ReadInv'
<1>1. /\ ReadTypeOK /\ BodyStands(q) /\ HandleStands(q) /\ reader[q] = "opening"
      /\ UNCHANGED <<file, asks, range, opener, snapshot, closer, body>> /\ body[q] = <<>>
  BY DEF ReadInv, OpenReturns, BodyStands
<1>2. PICK s \in {"refused", "streaming", "sizing"} :
        /\ reader' = [reader EXCEPT ![q] = s]
        /\ s = "refused" => opener[q] = "failed"
        /\ s # "refused" => opener[q] = "opened"
        /\ s = "streaming" => asks[q] = "speech"
        /\ s = "sizing" => asks[q] # "speech"
  BY DEF OpenReturns, Go
<1>3. ReadTypeOK'
  BY <1>1, <1>2 DEF ReadTypeOK, ReaderStates
<1>4. \A p \in Readers \ {q} : Untouched(p)
  BY <1>1, <1>2 DEF ReadTypeOK, Untouched
<1>5. s = "streaming" => Sends(q) /\ InOrder(q) /\ Len(body[q]) <= Whole(q)
  BY <1>1, <1>2 DEF Sends, InOrder, Whole
<1>6. BodyStands(q)' /\ HandleStands(q)'
  BY <1>1, <1>2, <1>5, BodyAsItWas DEF ReadTypeOK, BodyStands, HandleStands
<1> QED
  BY <1>3, <1>4, <1>6, StepOfOne

LEMMA SizedKeepsReads == ASSUME ReadInv, NEW q \in Readers, Sized(q) PROVE ReadInv'
<1>1. /\ ReadTypeOK /\ BodyStands(q) /\ HandleStands(q) /\ reader[q] = "sizing"
      /\ UNCHANGED <<file, asks, range, opener, snapshot, closer, body>> /\ body[q] = <<>>
  BY DEF ReadInv, Sized, BodyStands
<1>2. PICK s \in {"loading", "closing", "streaming"} :
        /\ reader' = [reader EXCEPT ![q] = s]
        /\ s = "loading" => asks[q] = "json"
        /\ s = "closing" => Parsed(range[q]) = <<>> \/ asks[q] = "head"
        /\ s = "streaming" => asks[q] # "head" /\ Parsed(range[q]) # <<>>
        /\ s # "loading" => asks[q] # "json"
  BY DEF Sized, Go
<1>3. ReadTypeOK'
  BY <1>1, <1>2 DEF ReadTypeOK, ReaderStates
<1>4. \A p \in Readers \ {q} : Untouched(p)
  BY <1>1, <1>2 DEF ReadTypeOK, Untouched
<1>5. s = "streaming" => Sends(q) /\ InOrder(q) /\ Len(body[q]) <= Whole(q)
  <2> SUFFICES ASSUME s = "streaming" PROVE Sends(q) /\ InOrder(q) /\ Len(body[q]) <= Whole(q)
    OBVIOUS
  <2>1. Sends(q)
    BY <1>2 DEF Sends
  <2> QED
    BY <1>1, <2>1, AnswerHasABound DEF InOrder
<1>6. s = "closing" => ~Sends(q)
  BY <1>1, <1>2 DEF Sends, HandleStands, ReadTypeOK, ReadKinds
<1>7. BodyStands(q)' /\ HandleStands(q)'
  BY <1>1, <1>2, <1>5, <1>6, BodyAsItWas DEF ReadTypeOK, BodyStands, HandleStands
<1> QED
  BY <1>3, <1>4, <1>7, StepOfOne

(* A chunk goes on where the last one ended.                               *)
LEMMA SendChunkKeepsReads == ASSUME ReadInv, NEW q \in Readers, SendChunk(q) PROVE ReadInv'
<1> DEFINE left == Unsent(q)
           n == Least(ChunkBytes, left.length)
           chunk == [i \in 1 .. n |-> left.start + i - 1]
<1>1. /\ ReadTypeOK /\ BodyStands(q) /\ HandleStands(q) /\ reader[q] = "streaming"
      /\ UNCHANGED <<file, asks, range, reader, opener, snapshot, closer>>
      /\ left.length > 0 /\ body' = [body EXCEPT ![q] = body[q] \o chunk]
      /\ body[q] \in Seq(Nat)
  BY DEF ReadInv, SendChunk, ReadTypeOK
<1>2. Sends(q) /\ InOrder(q) /\ Len(body[q]) <= Whole(q)
  BY <1>1 DEF BodyStands
<1>3. From(q) \in Nat /\ Whole(q) \in Nat /\ Len(body[q]) \in Nat
  BY <1>1, <1>2, AnswerHasABound
<1>4. left.start = From(q) + Len(body[q]) /\ left.length = Whole(q) - Len(body[q])
  BY <1>1, <1>2, UnsentIsTheRest
<1> HIDE DEF left
<1>5. n \in Nat /\ Len(body[q]) + n <= Whole(q) /\ left.start \in Nat
  BY <1>1, <1>3, <1>4 DEF Least
<1> HIDE DEF n
<1>6. /\ chunk \in Seq(Nat) /\ Len(chunk) = n
      /\ \A i \in 1 .. n : chunk[i] = From(q) + Len(body[q]) + i - 1
  <2>1. chunk \in [1 .. n -> Nat] /\ \A i \in 1 .. n : chunk[i] = left.start + i - 1
    BY <1>5
  <2> HIDE DEF chunk
  <2>2. chunk \in Seq(Nat) /\ Len(chunk) = n
    BY <1>5, <2>1
  <2> QED
    BY <1>4, <2>1, <2>2
<1> HIDE DEF chunk
<1>7. /\ body[q] \o chunk \in Seq(Nat) /\ Len(body[q] \o chunk) = Len(body[q]) + n
      /\ \A i \in 1 .. Len(body[q]) + n :
           (body[q] \o chunk)[i] =
             IF i <= Len(body[q]) THEN body[q][i] ELSE chunk[i - Len(body[q])]
  BY ZenonT(40), <1>1, <1>6, ConcatProperties
<1>8. body'[q] = body[q] \o chunk /\ body' \in [Readers -> Seq(Nat)]
  BY <1>1, <1>7 DEF ReadTypeOK
<1>9. ASSUME NEW i \in 1 .. Len(body[q]) + n PROVE body'[q][i] = From(q) + i - 1
  <2>1. CASE i <= Len(body[q])
    <3>1. i \in 1 .. Len(body[q])
      BY <1>3, <2>1
    <3> QED
      BY <1>2, <1>7, <1>8, <2>1, <3>1 DEF InOrder
  <2>2. CASE i > Len(body[q])
    <3>1. i - Len(body[q]) \in 1 .. n /\ ~(i <= Len(body[q])) /\ i \in Nat
      BY <1>3, <1>5, <2>2
    <3>2. body'[q][i] = From(q) + Len(body[q]) + (i - Len(body[q])) - 1
      BY <1>6, <1>7, <1>8, <3>1
    <3> QED
      BY <1>3, <3>1, <3>2
  <2> QED
    BY <1>3, <2>1, <2>2
<1>10. /\ Sends(q)' = Sends(q) /\ From(q)' = From(q) /\ Whole(q)' = Whole(q)
  BY <1>1 DEF Sends, From, Whole
<1>11. InOrder(q)' /\ Len(body'[q]) <= Whole(q)
  BY <1>5, <1>7, <1>8, <1>9, <1>10 DEF InOrder
<1>12. BodyStands(q)' /\ HandleStands(q)'
  BY <1>1, <1>2, <1>10, <1>11 DEF BodyStands, HandleStands
<1>13. ReadTypeOK'
  BY <1>1, <1>8 DEF ReadTypeOK
<1>14. \A p \in Readers \ {q} : Untouched(p)
  BY <1>1 DEF ReadTypeOK, Untouched
<1> QED
  BY <1>12, <1>13, <1>14, StepOfOne

LEMMA SendEndsKeepsReads == ASSUME ReadInv, NEW q \in Readers, SendEnds(q) PROVE ReadInv'
<1>1. /\ ReadTypeOK /\ BodyStands(q) /\ HandleStands(q) /\ reader[q] = "streaming"
      /\ UNCHANGED <<file, asks, range, opener, snapshot, closer, body>>
      /\ reader' = [reader EXCEPT ![q] = "closing"] /\ Unsent(q).length = 0
  BY DEF ReadInv, SendEnds, Go
<1>2. Sends(q) /\ InOrder(q) /\ Len(body[q]) = Whole(q)
  <2>1. Sends(q) /\ InOrder(q)
    BY <1>1 DEF BodyStands
  <2>2. Whole(q) \in Nat /\ Len(body[q]) \in Nat
    BY <1>1, <2>1, AnswerHasABound DEF ReadTypeOK
  <2>3. Whole(q) - Len(body[q]) = 0
    BY <1>1, <2>1, UnsentIsTheRest
  <2> QED
    BY <2>1, <2>2, <2>3
<1>3. ReadTypeOK'
  BY <1>1 DEF ReadTypeOK, ReaderStates
<1>4. \A p \in Readers \ {q} : Untouched(p)
  BY <1>1 DEF ReadTypeOK, Untouched
<1>5. BodyStands(q)' /\ HandleStands(q)'
  BY <1>1, <1>2, BodyAsItWas DEF ReadTypeOK, BodyStands, HandleStands
<1> QED
  BY <1>3, <1>4, <1>5, StepOfOne

LEMMA LoadAllKeepsReads == ASSUME ReadInv, NEW q \in Readers, LoadAll(q) PROVE ReadInv'
<1> DEFINE all == [i \in 1 .. FileSize |-> i - 1]
<1>1. /\ ReadTypeOK /\ BodyStands(q) /\ HandleStands(q) /\ reader[q] = "loading"
      /\ UNCHANGED <<file, asks, range, opener, snapshot, closer>>
      /\ reader' = [reader EXCEPT ![q] = "closing"]
      /\ body' = [body EXCEPT ![q] = all] \/ body' = body
      /\ asks[q] = "json" /\ body[q] = <<>>
  BY DEF ReadInv, LoadAll, Go, BodyStands, HandleStands
<1>2. all \in Seq(Nat) /\ Len(all) = FileSize /\ \A i \in 1 .. FileSize : all[i] = i - 1
  OBVIOUS
<1> HIDE DEF all
<1>3. body' \in [Readers -> Seq(Nat)] /\ (body'[q] = all \/ body'[q] = <<>>)
  BY <1>1, <1>2 DEF ReadTypeOK
<1>4. body'[q] = all => Sends(q)' /\ InOrder(q)' /\ Len(body'[q]) = Whole(q)'
  <2>1. Sends(q)' /\ From(q)' = 0 /\ Whole(q)' = FileSize
    BY <1>1 DEF Sends, From, Whole
  <2>2. \A i \in 1 .. FileSize : i - 1 = 0 + i - 1
    OBVIOUS
  <2> QED
    BY <1>2, <2>1, <2>2 DEF InOrder
<1>5. ReadTypeOK'
  BY <1>1, <1>3 DEF ReadTypeOK, ReaderStates
<1>6. \A p \in Readers \ {q} : Untouched(p)
  BY <1>1 DEF ReadTypeOK, Untouched
<1>7. BodyStands(q)' /\ HandleStands(q)'
  BY <1>1, <1>3, <1>4 DEF ReadTypeOK, BodyStands, HandleStands
<1> QED
  BY <1>5, <1>6, <1>7, StepOfOne

LEMMA AnswerKeepsReads == ASSUME ReadInv, NEW q \in Readers, Answer(q) PROVE ReadInv'
<1>1. /\ ReadTypeOK /\ BodyStands(q) /\ HandleStands(q) /\ reader[q] = "closing"
      /\ UNCHANGED <<file, asks, range, opener, closer, body>>
      /\ snapshot' = [snapshot EXCEPT ![q] = "closed"]
      /\ reader' = [reader EXCEPT ![q] = IF Refused(q) THEN "refused" ELSE "answered"]
  BY DEF ReadInv, Answer, Go
<1>2. opener[q] = "opened" /\ ~closer[q]
  BY <1>1 DEF HandleStands
<1>3. Refused(q) => body[q] = <<>>
  <2> SUFFICES ASSUME Refused(q) PROVE body[q] = <<>>
    OBVIOUS
  <2>1. CASE asks[q] = "json"
    BY <2>1 DEF Refused
  <2>2. CASE asks[q] # "json"
    BY <1>1, <2>2 DEF Refused, BodyStands, Sends
  <2> QED
    BY <2>1, <2>2
<1>4. ReadTypeOK'
  BY <1>1 DEF ReadTypeOK, ReaderStates
<1>5. \A p \in Readers \ {q} : Untouched(p)
  BY <1>1 DEF ReadTypeOK, Untouched
<1>6. reader'[q] = (IF Refused(q) THEN "refused" ELSE "answered") /\ snapshot'[q] = "closed"
  BY <1>1 DEF ReadTypeOK
<1>7. BodyStands(q)' /\ HandleStands(q)'
  <2>1. CASE Refused(q)
    BY <1>1, <1>2, <1>3, <1>6, <2>1, BodyAsItWas DEF BodyStands, HandleStands
  <2>2. CASE ~Refused(q)
    BY <1>1, <1>2, <1>6, <2>2, BodyAsItWas DEF BodyStands, HandleStands
  <2> QED
    BY <2>1, <2>2
<1> QED
  BY <1>4, <1>5, <1>7, StepOfOne

LEMMA CutOffKeepsReads == ASSUME ReadInv, NEW q \in Readers, CutOff(q) PROVE ReadInv'
<1>1. /\ ReadTypeOK /\ BodyStands(q) /\ HandleStands(q)
      /\ UNCHANGED <<file, asks, range, opener, snapshot, body>>
      /\ closer' = [closer EXCEPT ![q] = LeftTo(q)]
      /\ reader[q] \in {"job", "aligning", "opening", "sizing", "streaming", "loading", "closing"}
  BY DEF ReadInv, CutOff
<1>2. PICK s \in {"cut", "cancelled"} : reader' = [reader EXCEPT ![q] = s]
  BY DEF CutOff, Go
<1>3. ReadTypeOK'
  BY <1>1, <1>2 DEF ReadTypeOK, ReaderStates, LeftTo
<1>4. \A p \in Readers \ {q} : Untouched(p)
  BY <1>1, <1>2 DEF ReadTypeOK, Untouched
<1>5. closer'[q] = LeftTo(q) /\ reader'[q] = s
  BY <1>1, <1>2 DEF ReadTypeOK
<1>6. BodyStands(q)' /\ HandleStands(q)'
  BY <1>1, <1>5 DEF BodyStands, HandleStands, LeftTo
<1> QED
  BY <1>3, <1>4, <1>6, StepOfOne

LEMMA CloseLateKeepsReads == ASSUME ReadInv, NEW q \in Readers, CloseLate(q) PROVE ReadInv'
<1>1. /\ ReadTypeOK /\ BodyStands(q) /\ HandleStands(q) /\ closer[q]
      /\ UNCHANGED <<file, asks, range, reader, opener, body>>
      /\ opener[q] \in {"opened", "failed"}
      /\ snapshot' = [snapshot EXCEPT ![q] = IF snapshot[q] = "open" THEN "closed" ELSE snapshot[q]]
      /\ closer' = [closer EXCEPT ![q] = FALSE]
  BY DEF ReadInv, CloseLate
<1>2. reader[q] \in {"cut", "cancelled"}
  BY <1>1 DEF HandleStands
<1>3. ReadTypeOK'
  BY <1>1 DEF ReadTypeOK
<1>4. \A p \in Readers \ {q} : Untouched(p)
  BY <1>1 DEF ReadTypeOK, Untouched
<1>5. /\ ~closer'[q] /\ snapshot'[q] # "open" /\ (snapshot[q] = "none" => snapshot'[q] = "none")
  BY <1>1 DEF ReadTypeOK
<1>6. BodyStands(q)' /\ HandleStands(q)'
  BY <1>1, <1>2, <1>5 DEF BodyStands, HandleStands
<1> QED
  BY <1>3, <1>4, <1>6, StepOfOne

LEMMA FindRowKeepsReads == ASSUME ReadInv, NEW q \in Readers, FindRow(q) PROVE ReadInv'
<1>1. /\ ReadTypeOK /\ BodyStands(q) /\ HandleStands(q) /\ opener[q] = "looking"
      /\ UNCHANGED <<file, asks, range, reader, snapshot, closer, body>>
  BY DEF ReadInv, FindRow
<1>2. PICK o \in {"found", "failed"} : opener' = [opener EXCEPT ![q] = o]
  BY DEF FindRow
<1>3. ReadTypeOK'
  BY <1>1, <1>2 DEF ReadTypeOK
<1>4. \A p \in Readers \ {q} : Untouched(p)
  BY <1>1, <1>2 DEF ReadTypeOK, Untouched
<1>5. BodyStands(q)' /\ HandleStands(q)'
  BY <1>1, <1>2, BodyAsItWas DEF ReadTypeOK, BodyStands, HandleStands
<1> QED
  BY <1>3, <1>4, <1>5, StepOfOne

LEMMA TakeSnapshotKeepsReads == ASSUME ReadInv, NEW q \in Readers, TakeSnapshot(q) PROVE ReadInv'
<1>1. /\ ReadTypeOK /\ BodyStands(q) /\ HandleStands(q) /\ opener[q] = "found"
      /\ UNCHANGED <<file, asks, range, reader, closer, body>> /\ snapshot[q] = "none"
  BY DEF ReadInv, TakeSnapshot, HandleStands
<1>2. PICK o \in {"opened", "failed"} :
        /\ opener' = [opener EXCEPT ![q] = o]
        /\ snapshot' = [snapshot EXCEPT ![q] = IF o = "opened" THEN "open" ELSE "none"]
  BY <1>1 DEF TakeSnapshot, ReadTypeOK
<1>3. ReadTypeOK'
  BY <1>1, <1>2 DEF ReadTypeOK
<1>4. \A p \in Readers \ {q} : Untouched(p)
  BY <1>1, <1>2 DEF ReadTypeOK, Untouched
<1>5. opener'[q] = o /\ snapshot'[q] = (IF o = "opened" THEN "open" ELSE "none")
  BY <1>1, <1>2 DEF ReadTypeOK
<1>6. reader[q] \notin {"idle", "job", "aligning", "sizing", "streaming", "loading", "closing",
                        "answered", "refused"}
  BY <1>1 DEF HandleStands
<1>7. BodyStands(q)' /\ HandleStands(q)'
  BY <1>1, <1>5, <1>6, BodyAsItWas DEF BodyStands, HandleStands
<1> QED
  BY <1>3, <1>4, <1>7, StepOfOne

(* Every step keeps the invariant.                                         *)
LEMMA ReadNextKeeps == ReadInv /\ [ReadNext]_readVars => ReadInv'
<1> SUFFICES ASSUME ReadInv, [ReadNext]_readVars PROVE ReadInv'
  OBVIOUS
<1>1. CASE DeleteArtifact \/ UNCHANGED readVars
  <2>1. UNCHANGED <<asks, range, reader, opener, snapshot, closer, body>> /\ file' \in BOOLEAN
    BY <1>1 DEF DeleteArtifact, readVars, ReadInv, ReadTypeOK
  <2>2. ReadTypeOK'
    BY <2>1 DEF ReadInv, ReadTypeOK
  <2>3. \A q \in Readers : Untouched(q)
    BY <2>1 DEF Untouched
  <2> QED
    BY <2>2, <2>3, UntouchedStands DEF ReadInv
<1>2. CASE \E q \in Readers : ReadStep(q)
  BY <1>2, AskKeepsReads, JobEndsKeepsReads, AlignedKeepsReads, OpenReturnsKeepsReads,
     SizedKeepsReads, SendChunkKeepsReads, SendEndsKeepsReads, LoadAllKeepsReads,
     AnswerKeepsReads, CutOffKeepsReads, CloseLateKeepsReads, FindRowKeepsReads,
     TakeSnapshotKeepsReads DEF ReadStep
<1> QED
  BY <1>1, <1>2 DEF ReadNext

\* Ascending positions from one to another are the whole interval.
LEMMA RunCoversIt ==
  ASSUME NEW s \in Seq(Nat), NEW a \in Nat, NEW n \in Nat, Len(s) = n,
         \A i \in 1 .. n : s[i] = a + i - 1
  PROVE  Ascending(s) /\ ToSet(s) = a .. a + n - 1
<1>1. Ascending(s)
  <2> SUFFICES ASSUME NEW i \in 1 .. Len(s), NEW j \in 1 .. Len(s), i < j PROVE s[i] < s[j]
    BY DEF Ascending
  <2>1. s[i] = a + i - 1 /\ s[j] = a + j - 1 /\ i \in Nat /\ j \in Nat
    OBVIOUS
  <2> QED
    BY <2>1
<1>2. ToSet(s) = {s[i] : i \in 1 .. n}
  BY DEF ToSet
<1>3. ASSUME NEW k \in a .. a + n - 1 PROVE k \in {s[i] : i \in 1 .. n}
  <2>1. k - a + 1 \in 1 .. n /\ k = a + (k - a + 1) - 1
    OBVIOUS
  <2>2. s[k - a + 1] = k
    BY <2>1
  <2> QED
    BY <2>1, <2>2
<1>4. ASSUME NEW i \in 1 .. n PROVE s[i] \in a .. a + n - 1
  OBVIOUS
<1> QED
  BY <1>1, <1>2, <1>3, <1>4

(* And it says what the property does.                                     *)
LEMMA CleanReadsFollow == ReadInv => ReadsAreClean
<1> SUFFICES ASSUME ReadInv, NEW q \in Readers
             PROVE  /\ opener[q] \in {"looking", "found"} \/ snapshot[q] = "open" =>
                         closer[q] \/ LeftTo(q)
                    /\ reader[q] = "answered" => Ascending(body[q]) /\ ToSet(body[q]) = Asked(q)
                    /\ reader[q] = "refused" => body[q] = <<>>
                    /\ asks[q] # "json" /\ snapshot[q] = "closed" /\ reader[q] = "refused" =>
                         Wanted(range[q]) = {}
  BY DEF ReadsAreClean, NoHandleIsForgotten, AnswerIsTheRange, LeftTo
<1>1. ReadTypeOK /\ BodyStands(q) /\ HandleStands(q) /\ range[q] \in Ranges
  BY DEF ReadInv, ReadTypeOK
<1>2. opener[q] \in {"looking", "found"} \/ snapshot[q] = "open" => closer[q] \/ LeftTo(q)
  BY <1>1 DEF ReadTypeOK, ReaderStates, HandleStands, LeftTo
<1>3. ASSUME reader[q] = "answered" PROVE Ascending(body[q]) /\ ToSet(body[q]) = Asked(q)
  <2>1. CASE Sends(q) /\ InOrder(q) /\ Len(body[q]) = Whole(q)
    <3>1. From(q) \in Nat /\ Whole(q) \in Nat /\ body[q] \in Seq(Nat)
      BY <1>1, <2>1, AnswerHasABound DEF ReadTypeOK
    <3>2. Ascending(body[q]) /\ ToSet(body[q]) = From(q) .. From(q) + Whole(q) - 1
      <4> HIDE DEF From, Whole
      <4>1. \A i \in 1 .. Whole(q) : body[q][i] = From(q) + i - 1
        BY <2>1 DEF InOrder
      <4> QED
        BY <2>1, <3>1, <4>1, RunCoversIt
    <3>3. Asked(q) = From(q) .. From(q) + Whole(q) - 1
      <4>1. CASE asks[q] = "download"
        <5>1. /\ Parsed(range[q])[1] \in Nat /\ Parsed(range[q])[2] \in Nat
              /\ Wanted(range[q]) = Parsed(range[q])[1] .. Parsed(range[q])[2]
          BY <1>1, <2>1, <4>1, ParsedIsWanted DEF Sends
        <5> QED
          BY <4>1, <5>1 DEF Asked, From, Whole
      <4>2. CASE asks[q] # "download"
        BY <2>1, <4>2 DEF Asked, From, Whole, Sends
      <4> QED
        BY <4>1, <4>2
    <3> QED
      BY <3>2, <3>3
  <2>2. CASE (~Sends(q) \/ asks[q] = "json") /\ body[q] = <<>>
    <3>1. asks[q] = "head"
      BY <1>1, <1>3, <2>2 DEF BodyStands, Refused, Sends
    <3>2. Ascending(<<>>) /\ ToSet(<<>>) = {}
      BY DEF Ascending, ToSet
    <3> QED
      BY <2>2, <3>1, <3>2 DEF Asked
  <2> QED
    BY <1>1, <1>3, <2>1, <2>2 DEF BodyStands
<1>4. reader[q] = "refused" => body[q] = <<>>
  BY <1>1 DEF BodyStands
<1>5. ASSUME asks[q] # "json", snapshot[q] = "closed", reader[q] = "refused"
      PROVE  Wanted(range[q]) = {}
  BY <1>1, <1>5, ParsedIsWanted DEF HandleStands, Refused
<1> QED
  BY <1>2, <1>3, <1>4, <1>5

(* The inductive invariant of requests for audio holds.                    *)
LEMMA ReadInvariant == ReadSpec => []ReadInv
  BY InitReads, ReadNextKeeps, PTL DEF ReadSpec

\* A request is answered with what it asked for, once each and in order, and no handle of a
\* snapshot is forgotten, for any number of requests, any size of a file and of a chunk.
THEOREM ReadsAreAlwaysClean == ReadSpec => []ReadsAreClean
  BY ReadInvariant, CleanReadsFollow, PTL

HIDE ArtifactReadsAssumption

-----------------------------------------------------------------------------
(* Providers.  A profile outlives the jobs whose row came to be while it   *)
(* was there, for any number of profiles, jobs and previews.               *)

\* A job that is rooted has a row, of which the deletion of its profile takes account
\* until the job has ended; work that found no profile has failed, so no row comes of it.
ProfileInv ==
  /\ ProfileTypeOK
  /\ ProfileOutlivesItsJobs
  /\ \A w \in rooted : /\ work[w].kind = "job" /\ work[w].of \in Profiles
                       /\ work[w].state \in Active \cup Finished
  /\ \A w \in Works : IF work[w].kind = "none" THEN work[w].state = "none" ELSE work[w].of \in Profiles
  /\ \A w \in gone : work[w].state = "failed"

(* Every action keeps the invariant: deletion looks for the jobs itself, and   *)
(* no row appears after the look of a job that is not asked for.               *)
LEMMA InitProfiles == ProfileInit => ProfileInv
  BY DEF ProfileInit, ProfileInv, ProfileTypeOK, ProfileOutlivesItsJobs, Saved, Active, Finished

LEMMA ProfileStepKeeps == ProfileInv /\ [ProfileNext]_profileVars => ProfileInv'
<1> SUFFICES ASSUME ProfileInv, [ProfileNext]_profileVars PROVE ProfileInv'
  OBVIOUS
<1> USE DEF ProfileInv, ProfileTypeOK, ProfileOutlivesItsJobs, Saved, Active, Finished
<1>1. CASE UNCHANGED profileVars
  BY <1>1 DEF profileVars
<1>2. ASSUME NEW v \in Profiles, CreateProfile(v) PROVE ProfileInv'
  BY <1>2 DEF CreateProfile
<1>3. ASSUME NEW v \in Profiles, UpdateProfile(v) PROVE ProfileInv'
  BY <1>3 DEF UpdateProfile
<1>4. ASSUME NEW v \in Profiles, DeleteProfile(v) PROVE ProfileInv'
  BY <1>4 DEF DeleteProfile, InUse
<1>5. ASSUME NEW w \in Works, NEW v \in Profiles, AskForSpeech(w, v) PROVE ProfileInv'
  <2>1. PICK kind \in {"job", "preview"} :
          work' = [work EXCEPT ![w] = [kind |-> kind, of |-> v, state |-> "asked"]]
    BY <1>5 DEF AskForSpeech
  <2>2. w \notin rooted /\ w \notin gone
    BY <1>5 DEF AskForSpeech
  <2>3. UNCHANGED <<profile, rooted, gone>>
    BY <1>5 DEF AskForSpeech
  <2>4. ProfileTypeOK'
    BY <2>1, <2>3
  <2> QED
    BY <2>1, <2>2, <2>3, <2>4
<1>6. ASSUME NEW w \in Works, InsertJob(w) PROVE ProfileInv'
  <2>1. work[w].kind = "job" /\ work[w].of \in Profiles /\ UNCHANGED <<profile, gone>>
    BY <1>6 DEF InsertJob, Is
  <2>2. w \notin rooted
    BY <1>6 DEF InsertJob, Is
  <2>3. work' = [work EXCEPT ![w].state = "queued"]
    BY <1>6 DEF InsertJob, Turns
  <2>4. rooted' \subseteq rooted \cup {w} /\ (w \in rooted' => profile[work[w].of] \in Saved)
    BY <1>6, <2>2 DEF InsertJob
  <2>5. w \notin gone
    BY <1>6 DEF InsertJob, Is
  <2>6. ProfileTypeOK'
    BY <2>1, <2>3, <2>4
  <2> QED
    BY <2>1, <2>2, <2>3, <2>4, <2>5, <2>6
<1>7. ASSUME NEW w \in Works, RefuseSpeech(w) PROVE ProfileInv'
  BY <1>7 DEF RefuseSpeech, Is, Turns
<1>8. ASSUME NEW w \in Works, RunProviderJob(w) PROVE ProfileInv'
  BY <1>8 DEF RunProviderJob, GoesOn, Is, Turns
<1>9. ASSUME NEW w \in Works, SendText(w) PROVE ProfileInv'
  BY <1>9 DEF SendText, GoesOn, Is, Turns
<1>10. ASSUME NEW w \in Works, SendPreview(w) PROVE ProfileInv'
  BY <1>10 DEF SendPreview, GoesOn, Is, Turns
<1>11. ASSUME NEW w \in Works, Answered(w) PROVE ProfileInv'
  BY <1>11 DEF Answered, Is, Turns
<1>12. ASSUME NEW w \in Works, PreviewEnds(w) PROVE ProfileInv'
  BY <1>12 DEF PreviewEnds, Is, Turns
<1>13. ASSUME NEW w \in Works, FinishJob(w) PROVE ProfileInv'
  BY <1>13 DEF FinishJob, Is, Turns
<1>14. ASSUME NEW w \in Works, StopWork(w) PROVE ProfileInv'
  BY <1>14 DEF StopWork, Turns
<1>15. CASE RestartCore
  BY <1>15 DEF RestartCore
<1> QED
  BY <1>1, <1>2, <1>3, <1>4, <1>5, <1>6, <1>7, <1>8, <1>9, <1>10, <1>11, <1>12, <1>13, <1>14,
     <1>15 DEF ProfileNext

(* The inductive invariant of profiles holds.                              *)
LEMMA ProfileInvariant == ProfileSpec => []ProfileInv
  BY InitProfiles, ProfileStepKeeps, PTL DEF ProfileSpec

(* A job whose profile was there when its row was inserted has it until it     *)
(* ends, however profiles are edited and deleted and Core is restarted.        *)
THEOREM ProfilesOutliveTheirJobs == ProfileSpec => []ProfileOutlivesItsJobs
<1>1. ProfileInv => ProfileOutlivesItsJobs
  BY DEF ProfileInv
<1> QED
  BY ProfileInvariant, <1>1, PTL


=============================================================================
