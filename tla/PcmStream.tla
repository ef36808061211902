------------------------------ MODULE PcmStream ------------------------------
(***************************************************************************)
(* The PCM of one Generation Job: _consume_stream takes it from the Worker *)
(* and puts it into a ByteBudgetQueue, from which the writer of the WAV    *)
(* drains it, and into the bounded queues of the clients of subscribe_pcm; *)
(* what nobody hears is kept for replay when the recording is not.         *)
(*                                                                         *)
(* A chunk is its number.  One step is what runs between two awaits; the   *)
(* bodies of _pcm_subscription_locks await nothing, so no step is needed   *)
(* for these locks.                                                        *)
(***************************************************************************)
EXTENDS Naturals, Sequences, SequencesExt

CONSTANTS
  Listeners,   \* clients of the PCM route, one subscription each
  MaxChunks,   \* bound on the chunks a Worker sends
  Widths,      \* sizes of a chunk in bytes
  Budget,      \* _queue_bytes
  QueueSize,   \* maxsize of a listener's queue, 8 in the code
  ReplayBytes  \* _EPHEMERAL_REPLAY_MAX_BYTES

ASSUME PcmAssumption ==
  /\ MaxChunks \in Nat
  /\ Widths \subseteq Nat
  /\ Budget \in Nat \ {0} /\ QueueSize \in Nat \ {0} /\ ReplayBytes \in Nat

VARIABLES
  (* the job and its stream *)
  recording,   \* "active", "completed" or "ended": the state of the row
  keep,        \* retain_artifact
  producer,    \* "idle", "stream", "full" (waits in put), "over" or "broken"
  waiting,     \* size of the chunk that waits in put
  consumer,    \* "on" or "over"
  pending,     \* the items of the ByteBudgetQueue
  pendingBytes,\* what it counts of them
  sent,        \* chunks put and handed out
  written,     \* chunks in the WAV
  closed,      \* whether the finally block of the job is over
  (* the listeners *)
  subscribers, \* _pcm_subscribers
  terminated,  \* _pcm_terminated
  fed,         \* the queue of each listener
  replay,      \* _pcm_replay, empty for none
  replaySize,  \* its length in bytes
  disabled,    \* _pcm_replay_disabled
  listener,    \* "away", "reading" or "done"
  heard,       \* chunks each listener got
  (* history *)
  joined,      \* chunks that were sent before each listener joined
  slow,        \* listeners whose queue was full
  satisfied    \* listeners whose stream came to its end

stream   == <<keep, producer, waiting, consumer, pending, pendingBytes, sent, written>>
handout  == <<subscribers, terminated, fed, replay, replaySize, disabled>>
clients  == <<listener, heard, joined, slow, satisfied>>
pcmVars  == <<recording, stream, closed, handout, clients>>

End == 0   \* ByteBudgetQueueSignal.END, and the None of a listener's queue

PcmInit ==
  /\ recording = "active" /\ keep \in BOOLEAN
  /\ producer = "idle" /\ waiting = 0 /\ consumer = "on"
  /\ pending = <<>> /\ pendingBytes = 0 /\ sent = 0 /\ written = <<>> /\ closed = FALSE
  /\ subscribers = {} /\ terminated = {}
  /\ fed = [c \in Listeners |-> <<>>]
  /\ replay = <<>> /\ replaySize = 0 /\ disabled = FALSE
  /\ listener = [c \in Listeners |-> "away"]
  /\ heard = [c \in Listeners |-> <<>>]
  /\ joined = [c \in Listeners |-> 0] /\ slow = {} /\ satisfied = {}
-----------------------------------------------------------------------------
(* The stream of the Worker. *)

\* Seeded fault: the queue counts only what it already holds.
RoomBehind(w) == pendingBytes < Budget

Room(w) == pendingBytes + w <= Budget

\* Seeded fault: off by one.
HasSpaceForOneMore(c) == Len(fed[c]) <= QueueSize

HasSpace(c) == Len(fed[c]) < QueueSize

\* Seeded fault: a full queue loses its oldest chunk to the new one.
FedOverwriting(c) == Append(IF HasSpace(c) THEN fed[c] ELSE Tail(fed[c]), sent + 1)

\* The listeners that hear chunk sent + 1; the others are dropped, after what
\* their queue holds, without an end marker, for which it has no room.
Fed(c) == IF HasSpace(c) THEN Append(fed[c], sent + 1) ELSE fed[c]

Overflowing == {c \in subscribers : ~HasSpace(c)}

Keep(w) ==
  IF keep \/ subscribers # {} \/ disabled THEN UNCHANGED <<replay, replaySize, disabled>>
  ELSE IF replaySize + w <= ReplayBytes
  THEN /\ replay' = Append(replay, sent + 1) /\ replaySize' = replaySize + w
       /\ UNCHANGED disabled
  ELSE replay' = <<>> /\ replaySize' = 0 /\ disabled' = TRUE

\* A chunk enters the budget and is handed out in the same step.
HandOut(w) ==
  /\ pending' = Append(pending, [chunk |-> sent + 1, bytes |-> w])
  /\ pendingBytes' = pendingBytes + w
  /\ sent' = sent + 1
  /\ Keep(w)
  /\ fed' = [c \in Listeners |-> IF c \in subscribers THEN Fed(c) ELSE fed[c]]
  /\ subscribers' = subscribers \ Overflowing
  /\ terminated' = terminated \cup Overflowing
  /\ slow' = slow \cup Overflowing
  /\ UNCHANGED <<recording, keep, consumer, written, closed, listener, heard, joined, satisfied>>

Begin ==
  /\ producer = "idle" /\ recording = "active"
  /\ producer' = "stream"
  /\ UNCHANGED <<recording, keep, waiting, consumer, pending, pendingBytes, sent, written, closed,
                 handout, clients>>

\* The validator admits the next chunk, and put takes it or waits.
Chunk(w) ==
  /\ producer = "stream" /\ sent < MaxChunks /\ w <= Budget
  /\ \/ Room(w) /\ HandOut(w) /\ UNCHANGED <<producer, waiting>>
     \/ /\ ~Room(w)
        /\ producer' = "full" /\ waiting' = w
        /\ UNCHANGED <<recording, keep, consumer, pending, pendingBytes, sent, written, closed,
                       handout, clients>>

PutResumes ==
  /\ producer = "full" /\ Room(waiting)
  /\ HandOut(waiting)
  /\ producer' = "stream" /\ waiting' = 0

StreamEnds ==
  /\ producer = "stream"
  /\ producer' = "over"
  /\ pending' = Append(pending, [chunk |-> End, bytes |-> 0])
  /\ UNCHANGED <<recording, keep, waiting, consumer, pendingBytes, sent, written, closed, handout,
                 clients>>

Consume ==
  /\ consumer = "on" /\ pending # <<>>
  /\ pending' = Tail(pending) /\ pendingBytes' = pendingBytes - Head(pending).bytes
  /\ IF Head(pending).chunk = End
     THEN consumer' = "over" /\ UNCHANGED written
     ELSE written' = Append(written, Head(pending).chunk) /\ UNCHANGED consumer
  /\ UNCHANGED <<recording, keep, producer, waiting, sent, closed, handout, clients>>

\* A cancellation, an error of the Worker or of the writer, a malformed event or a
\* chunk larger than the budget: producer and consumer are cancelled.
Break ==
  /\ recording = "active" /\ producer \notin {"idle", "broken"}
  /\ producer' = "broken" /\ waiting' = 0 /\ consumer' = "over"
  /\ pending' = <<>> /\ pendingBytes' = 0
  /\ UNCHANGED <<recording, keep, sent, written, closed, handout, clients>>

Complete ==
  /\ recording = "active" /\ producer = "over" /\ consumer = "over"
  /\ recording' = "completed"
  /\ UNCHANGED <<stream, closed, handout, clients>>

\* A queued job is cancelled at once; its task ends when it gets its turn.
CancelQueued ==
  /\ recording = "active" /\ producer = "idle"
  /\ recording' = "ended" /\ producer' = "broken"
  /\ UNCHANGED <<keep, waiting, consumer, pending, pendingBytes, sent, written, closed, handout,
                 clients>>

\* Seeded fault: a full queue is waited for at the end of the job.
TerminatedWithSpace == {c \in subscribers : HasSpace(c)}

Remaining == subscribers

\* _terminate_pcm_subscriber for those that are left, in the finally block.
Close ==
  /\ ~closed /\ (recording = "completed" \/ producer = "broken")
  /\ recording' = IF recording = "completed" THEN "completed" ELSE "ended"
  /\ closed' = TRUE
  /\ IF recording = "completed" /\ ~keep THEN UNCHANGED <<replay, replaySize, disabled>>
     ELSE replay' = <<>> /\ replaySize' = 0 /\ disabled' = FALSE
  /\ fed' = [c \in Listeners |->
               IF c \in Remaining /\ HasSpace(c) THEN Append(fed[c], End) ELSE fed[c]]
  /\ terminated' = terminated \cup Remaining
  /\ subscribers' = {}
  /\ UNCHANGED <<stream, clients>>
-----------------------------------------------------------------------------
(* The listeners. *)

Subscribe(c) ==
  /\ listener[c] = "away"
  /\ \/ /\ recording = "active"
        /\ listener' = [listener EXCEPT ![c] = "reading"]
        /\ subscribers' = subscribers \cup {c}
        /\ joined' = [joined EXCEPT ![c] = sent]
        /\ UNCHANGED <<replay, replaySize, disabled, heard>>
     \/ /\ recording # "active"
        /\ listener' = [listener EXCEPT ![c] = "done"]
        /\ heard' = [heard EXCEPT ![c] = replay]
        /\ replay' = <<>> /\ replaySize' = 0 /\ disabled' = FALSE
        /\ UNCHANGED <<subscribers, joined>>
  /\ UNCHANGED <<recording, stream, closed, terminated, fed, slow, satisfied>>

Forgotten(c) == terminated \ {c}

\* The finally block of subscribe_pcm.
Gone(c) ==
  /\ listener' = [listener EXCEPT ![c] = "done"]
  /\ subscribers' = subscribers \ {c}
  /\ terminated' = Forgotten(c)
  /\ UNCHANGED <<recording, stream, closed, replay, replaySize, disabled, heard, joined, slow>>

Hear(c) ==
  /\ listener[c] = "reading" /\ fed[c] # <<>>
  /\ fed' = [fed EXCEPT ![c] = Tail(@)]
  /\ \/ /\ Head(fed[c]) # End
        /\ heard' = [heard EXCEPT ![c] = Append(@, Head(fed[c]))]
        /\ UNCHANGED <<recording, stream, closed, subscribers, terminated, replay, replaySize,
                       disabled, listener, joined, slow, satisfied>>
     \/ Head(fed[c]) = End /\ Gone(c) /\ satisfied' = satisfied \cup {c}

\* Dropped, or closed while its queue was full: the queue is heard to its end.
Drained(c) ==
  /\ listener[c] = "reading" /\ fed[c] = <<>> /\ c \in terminated
  /\ Gone(c) /\ satisfied' = satisfied \cup {c}
  /\ UNCHANGED fed

Leave(c) ==
  /\ listener[c] = "reading"
  /\ Gone(c)
  /\ UNCHANGED <<fed, satisfied>>
-----------------------------------------------------------------------------
JobStep ==
  \/ Begin \/ (\E w \in Widths : Chunk(w)) \/ PutResumes \/ StreamEnds \/ Consume
  \/ Break \/ Complete \/ CancelQueued \/ Close

ListenerStep(c) == Hear(c) \/ Drained(c)

PcmNext == JobStep \/ \E c \in Listeners : Subscribe(c) \/ ListenerStep(c) \/ Leave(c)

PcmSpec == PcmInit /\ [][PcmNext]_pcmVars
-----------------------------------------------------------------------------
PcmTypeOK ==
  /\ recording \in {"active", "completed", "ended"} /\ keep \in BOOLEAN
  /\ producer \in {"idle", "stream", "full", "over", "broken"}
  /\ consumer \in {"on", "over"} /\ waiting \in {0} \cup Widths
  /\ pending \in Seq([chunk : 0 .. MaxChunks, bytes : {0} \cup Widths])
  /\ pendingBytes \in 0 .. Budget
  /\ sent \in 0 .. MaxChunks /\ written \in Seq(1 .. MaxChunks) /\ closed \in BOOLEAN
  /\ subscribers \subseteq Listeners /\ terminated \subseteq Listeners
  /\ fed \in [Listeners -> Seq(0 .. MaxChunks)] /\ \A c \in Listeners : Len(fed[c]) <= QueueSize
  /\ replay \in Seq(1 .. MaxChunks) /\ replaySize \in 0 .. ReplayBytes /\ disabled \in BOOLEAN
  /\ listener \in [Listeners -> {"away", "reading", "done"}]
  /\ heard \in [Listeners -> Seq(1 .. MaxChunks)]
  /\ joined \in [Listeners -> 0 .. MaxChunks]
  /\ slow \subseteq Listeners /\ satisfied \subseteq Listeners

Run(first, last) == [i \in 1 .. last - first |-> first + i]

\* A listener's queue without its end marker.
Chunks(s) == IF s # <<>> /\ s[Len(s)] = End THEN SubSeq(s, 1, Len(s) - 1) ELSE s

\* The items lie one behind the other in n bytes.
Fills(items, n) ==
  \E start \in [1 .. Len(items) + 1 -> 0 .. n] :
    /\ start[1] = 0 /\ start[Len(items) + 1] = n
    /\ \A k \in 1 .. Len(items) : start[k + 1] = start[k] + items[k].bytes

(* The WAV of a completed job has every chunk once and in order, and what is   *)
(* on its way there never exceeds the budget.                                  *)
WavIsWhole ==
  /\ recording = "completed" => written = Run(0, sent)
  /\ Fills(pending, pendingBytes) /\ pendingBytes <= Budget

(* Who listens to an active job hears it from where it joined without a gap or *)
(* a repetition, and to the last chunk unless its queue was full once or it    *)
(* left.                                                                       *)
ListenersHearARun ==
  \A c \in Listeners :
    LET all == heard[c] \o Chunks(fed[c]) IN
    /\ c \in subscribers => all = Run(joined[c], sent)
    /\ listener[c] = "reading" \/ c \in satisfied => IsPrefix(all, Run(joined[c], sent))
    /\ c \in satisfied \ slow /\ recording = "completed" => heard[c] = Run(joined[c], sent)

(* No chunk is lost, repeated or overtaken on the way to the file and to those *)
(* who listen.                                                                 *)
ChunksArriveInOrder == WavIsWhole /\ ListenersHearARun

(* No reader waits for ever: the stream of each comes to its end.              *)
EveryListenerEnds == <>[](\A c \in Listeners : listener[c] # "reading")
=============================================================================
