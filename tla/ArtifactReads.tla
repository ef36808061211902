---------------------------- MODULE ArtifactReads ----------------------------
(***************************************************************************)
(* The requests that answer with the audio of an artifact: a download,     *)
(* with or without a range, its HEAD, and both forms of the speech request *)
(* that waits for a Generation Job of its own first.                       *)
(*                                                                         *)
(* A thread opens the artifact and copies it into a snapshot, which the    *)
(* request reads through the owner of its handle in further threads.  The  *)
(* task of a request can be cancelled at each await, while the thread it   *)
(* waits for goes on; the artifact can be deleted at any time.             *)
(***************************************************************************)
EXTENDS Naturals, Sequences, SequencesExt

CONSTANTS
  Readers,     \* requests, one each
  FileSize,    \* size of the artifact, in units
  ChunkBytes   \* what one read returns at most, 1 MiB in the code

ASSUME ArtifactReadsAssumption == FileSize \in Nat \ {0} /\ ChunkBytes \in Nat \ {0}

VARIABLES
  file,        \* whether the artifact has its row and its file
  asks,        \* what each request asks for
  range,       \* its Range header: first and last as sequences of at most one number
  reader,      \* where its task is
  opener,      \* where the thread is that opens the artifact for it
  snapshot,    \* the handle of its snapshot
  closer,      \* whether a task other than the request's is to close it
  body         \* the positions it has sent so far

readVars == <<file, asks, range, reader, opener, snapshot, closer, body>>

ReadKinds   == {"download", "head", "speech", "json"}
Numbers == {<<>>} \cup {<<n>> : n \in 0 .. FileSize + 1}
Ranges  == [first : Numbers, last : Numbers]
NoRange == [first |-> <<0>>, last |-> <<>>]   \* stands for no header as well
ReaderStates == {"idle", "job", "aligning", "opening", "sizing", "streaming", "loading", "closing",
             "answered", "refused", "cut", "cancelled"}

ReadInit ==
  /\ file = TRUE
  /\ asks = [q \in Readers |-> "download"]
  /\ range = [q \in Readers |-> NoRange]
  /\ reader = [q \in Readers |-> "idle"]
  /\ opener = [q \in Readers |-> "none"]
  /\ snapshot = [q \in Readers |-> "none"]
  /\ closer = [q \in Readers |-> FALSE]
  /\ body = [q \in Readers |-> <<>>]

Go(q, s) == reader' = [reader EXCEPT ![q] = s]

\* _open_artifact_for_streaming: the thread starts, the request waits for it.
OpenFor(q) == Go(q, "opening") /\ opener' = [opener EXCEPT ![q] = "looking"]
-----------------------------------------------------------------------------
(* _parse_single_range. *)

Least(m, n) == IF m < n THEN m ELSE n

\* Seeded fault: the last position is not brought back to the end of the file.
ParsedUnclipped(r) ==
  IF r.first = <<>> /\ r.last = <<>> THEN <<>>
  ELSE IF r.first = <<>>
  THEN IF r.last[1] = 0 THEN <<>> ELSE <<FileSize - Least(FileSize, r.last[1]), FileSize - 1>>
  ELSE LET end == IF r.last = <<>> THEN FileSize - 1 ELSE r.last[1] IN
       IF r.first[1] >= FileSize \/ end < r.first[1] THEN <<>> ELSE <<r.first[1], end>>

\* First and last position, or nothing that could be sent.
Parsed(r) ==
  IF r.first = <<>> /\ r.last = <<>> THEN <<>>
  ELSE IF r.first = <<>>
  THEN IF r.last[1] = 0 THEN <<>> ELSE <<FileSize - Least(FileSize, r.last[1]), FileSize - 1>>
  ELSE LET end == IF r.last = <<>> THEN FileSize - 1 ELSE r.last[1] IN
       IF r.first[1] >= FileSize \/ end < r.first[1] THEN <<>>
       ELSE <<r.first[1], Least(end, FileSize - 1)>>

\* What is still to be sent, from `start` on: as announced, or to the end.
Unsent(q) ==
  LET span == Parsed(range[q]) IN
  IF asks[q] = "download"
  THEN [start |-> span[1] + Len(body[q]), length |-> span[2] + 1 - span[1] - Len(body[q])]
  ELSE [start |-> Len(body[q]), length |-> FileSize - Len(body[q])]
-----------------------------------------------------------------------------
(* The request. *)

\* A download, or the job that a speech request creates and waits for.
Ask(q) ==
  /\ reader[q] = "idle"
  /\ asks' \in [Readers -> ReadKinds] /\ \A p \in Readers \ {q} : asks'[p] = asks[p]
  /\ IF asks'[q] \in {"download", "head"}
     THEN (\E r \in Ranges : range' = [range EXCEPT ![q] = r]) /\ OpenFor(q)
     ELSE Go(q, "job") /\ UNCHANGED <<range, opener>>
  /\ UNCHANGED <<file, snapshot, closer, body>>

\* The job ends: completed, or not.
JobEnds(q) ==
  /\ reader[q] = "job"
  /\ \/ asks[q] = "speech" /\ OpenFor(q)
     \/ asks[q] = "json" /\ Go(q, "aligning") /\ UNCHANGED opener
     \/ Go(q, "refused") /\ UNCHANGED opener
  /\ UNCHANGED <<file, asks, range, snapshot, closer, body>>

\* The alignment of the job has ended: its result is taken with the audio of the
\* artifact, which has to be in the history still.
Aligned(q) ==
  /\ reader[q] = "aligning"
  /\ \/ file /\ OpenFor(q)
     \/ Go(q, "refused") /\ UNCHANGED opener
  /\ UNCHANGED <<file, asks, range, snapshot, closer, body>>

OpenReturns(q) ==
  /\ reader[q] = "opening"
  /\ \/ opener[q] = "failed" /\ Go(q, "refused")
     \/ opener[q] = "opened" /\ Go(q, IF asks[q] = "speech" THEN "streaming" ELSE "sizing")
  /\ UNCHANGED <<file, asks, range, opener, snapshot, closer, body>>

\* _snapshot_size has returned: what the range asks for is known.
Sized(q) ==
  /\ reader[q] = "sizing"
  /\ Go(q, IF asks[q] = "json" THEN "loading"
           ELSE IF Parsed(range[q]) = <<>> \/ asks[q] = "head" THEN "closing" ELSE "streaming")
  /\ UNCHANGED <<file, asks, range, opener, snapshot, closer, body>>

\* A thread reads the next chunk, which the request sends.
SendChunk(q) ==
  LET left == Unsent(q) IN
  /\ reader[q] = "streaming" /\ left.length > 0
  /\ body' = [body EXCEPT ![q] =
                @ \o [i \in 1 .. Least(ChunkBytes, left.length) |-> left.start + i - 1]]
  /\ UNCHANGED <<file, asks, range, reader, opener, snapshot, closer>>

SendEnds(q) ==
  /\ reader[q] = "streaming" /\ Unsent(q).length = 0
  /\ Go(q, "closing")
  /\ UNCHANGED <<file, asks, range, opener, snapshot, closer, body>>

\* _read_exact, with the size and the checksum of the row: all of it, or nothing
\* when the answer would be too large.
LoadAll(q) ==
  /\ reader[q] = "loading"
  /\ \/ body' = [body EXCEPT ![q] = [i \in 1 .. FileSize |-> i - 1]]
     \/ UNCHANGED body
  /\ Go(q, "closing")
  /\ UNCHANGED <<file, asks, range, opener, snapshot, closer>>

Refused(q) ==
  \/ asks[q] \in {"download", "head"} /\ Parsed(range[q]) = <<>>
  \/ asks[q] = "json" /\ body[q] = <<>>

\* The owner of the handle closes it before the request ends.
Answer(q) ==
  /\ reader[q] = "closing"
  /\ snapshot' = [snapshot EXCEPT ![q] = "closed"]
  /\ Go(q, IF Refused(q) THEN "refused" ELSE "answered")
  /\ UNCHANGED <<file, asks, range, opener, closer, body>>

\* Seeded fault: only what is open already is closed.
LeftOnceOpen(q) == reader[q] \in {"sizing", "streaming", "loading", "closing"}

\* Who closes the handle of a request that is cancelled: a task that waits for the
\* opening thread, or the one that runs close already or from now on.
LeftTo(q) == reader[q] \in {"opening", "sizing", "streaming", "loading", "closing"}

CutOff(q) ==
  /\ reader[q] \in {"job", "aligning", "opening", "sizing", "streaming", "loading", "closing"}
  /\ closer' = [closer EXCEPT ![q] = LeftTo(q)]
  /\ Go(q, IF reader[q] = "streaming" THEN "cut" ELSE "cancelled")
  /\ UNCHANGED <<file, asks, range, opener, snapshot, body>>

\* The other task closes the handle once there is one.
CloseLate(q) ==
  /\ closer[q] /\ opener[q] \in {"opened", "failed"}
  /\ snapshot' = [snapshot EXCEPT ![q] = IF @ = "open" THEN "closed" ELSE @]
  /\ closer' = [closer EXCEPT ![q] = FALSE]
  /\ UNCHANGED <<file, asks, range, reader, opener, body>>
-----------------------------------------------------------------------------
(* open_artifact, in its thread, and delete_artifact. *)

FindRow(q) ==
  /\ opener[q] = "looking"
  /\ opener' = [opener EXCEPT ![q] = IF file THEN "found" ELSE "failed"]
  /\ UNCHANGED <<file, asks, range, reader, snapshot, closer, body>>

\* The bytes are those of the row, or there is no handle.
TakeSnapshot(q) ==
  /\ opener[q] = "found"
  /\ \/ /\ file
        /\ opener' = [opener EXCEPT ![q] = "opened"]
        /\ snapshot' = [snapshot EXCEPT ![q] = "open"]
     \/ opener' = [opener EXCEPT ![q] = "failed"] /\ UNCHANGED snapshot
  /\ UNCHANGED <<file, asks, range, reader, closer, body>>

DeleteArtifact == file /\ file' = FALSE
                  /\ UNCHANGED <<asks, range, reader, opener, snapshot, closer, body>>

ReadStep(q) ==
  \/ Ask(q) \/ JobEnds(q) \/ Aligned(q) \/ OpenReturns(q) \/ Sized(q) \/ SendChunk(q)
  \/ SendEnds(q) \/ LoadAll(q) \/ Answer(q) \/ CutOff(q) \/ CloseLate(q) \/ FindRow(q)
  \/ TakeSnapshot(q)

ReadNext == DeleteArtifact \/ \E q \in Readers : ReadStep(q)

ReadSpec == ReadInit /\ [][ReadNext]_readVars
-----------------------------------------------------------------------------
ReadTypeOK ==
  /\ file \in BOOLEAN
  /\ asks \in [Readers -> ReadKinds]
  /\ range \in [Readers -> Ranges]
  /\ reader \in [Readers -> ReaderStates]
  /\ opener \in [Readers -> {"none", "looking", "found", "opened", "failed"}]
  /\ snapshot \in [Readers -> {"none", "open", "closed"}]
  /\ closer \in [Readers -> BOOLEAN]
  /\ body \in [Readers -> Seq(Nat)]

(* A snapshot is given back whenever its request is cut off: as long as its    *)
(* handle is open, or will be, the request or another task is to close it.     *)
NoHandleIsForgotten ==
  \A q \in Readers : opener[q] \in {"looking", "found"} \/ snapshot[q] = "open" =>
    closer[q] \/ reader[q] \in {"opening", "sizing", "streaming", "loading", "closing"}

\* The positions that RFC 9110 gives a range of bytes.
Wanted(r) ==
  {i \in 0 .. FileSize - 1 :
     \/ r.first # <<>> /\ i >= r.first[1] /\ (r.last = <<>> \/ i <= r.last[1])
     \/ r.first = <<>> /\ r.last # <<>> /\ i + r.last[1] >= FileSize}

Ascending(s) == \A i, j \in 1 .. Len(s) : i < j => s[i] < s[j]

\* The positions that a whole answer has.
Asked(q) ==
  IF asks[q] = "head" THEN {} ELSE IF asks[q] = "download" THEN Wanted(range[q])
  ELSE 0 .. FileSize - 1

(* A whole answer has the bytes that were asked for, once each and in order,   *)
(* whatever is deleted meanwhile; a refused one and a HEAD have none.          *)
AnswerIsTheRange ==
  \A q \in Readers :
    /\ reader[q] = "answered" => Ascending(body[q]) /\ ToSet(body[q]) = Asked(q)
    /\ reader[q] = "refused" => body[q] = <<>>
    /\ asks[q] # "json" /\ snapshot[q] = "closed" /\ reader[q] = "refused" => Wanted(range[q]) = {}

(* A request is answered with what it asked for, and leaves nothing open.      *)
ReadsAreClean == NoHandleIsForgotten /\ AnswerIsTheRange
=============================================================================
