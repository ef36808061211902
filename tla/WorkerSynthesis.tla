---------------------------- MODULE WorkerSynthesis ----------------------------
(***************************************************************************)
(* A lease of Core and the VieNeu Worker that it holds: load, synthesize,  *)
(* close, unload.  In the Worker a thread infers chunks and puts them, one *)
(* at a time, into a queue of the event loop, from which the handler       *)
(* Synthesize yields them.  LoadModel and UnloadModel hold up that loop;   *)
(* UnloadModel even waits there until no thread infers.                    *)
(***************************************************************************)
EXTENDS Naturals, Sequences, FiniteSets

CONSTANTS
  Synths,  \* calls of Synthesize that can be about at a time, each under a lease of its own
  Pieces,  \* chunks of a synthesis
  MaxLate, \* bound: puts that the loop begins after their thread has given them up
  Blank    \* no item in a queue, no thread

ASSUME SynthesisAssumption == Pieces \in Nat /\ MaxLate \in Nat /\ Blank \notin Synths \cup Nat

VARIABLES
  lease,       \* what Core does in each lease
  yielded,     \* the chunks that each handler has yielded
  rpc,         \* LoadModel or UnloadModel of the lease: the request or its answer
  loop,        \* what holds up the event loop of the Worker: "free", "load", "unload", or
               \* "late": a load that nobody waits for any more
  loaded,      \* the Worker has a model
  quarantined, \* _synthesis_stuck
  inference,   \* the thread that holds _synthesis_lock
  producing,   \* each thread: "off", "start", "infer", "put" or "over"
  item,        \* what each thread puts: a chunk, 0 for an error, Pieces + 1 for the end
  put,         \* the put of each thread on the loop: "none", "scheduled", "waiting", "done"
  stale,       \* puts that each thread gave up before the loop began them
  lapses,      \* how many there were
  queue,       \* the item in each queue
  handler,     \* each handler: "off", "next", "expire", "quiesce" or "over"
  outcome      \* how each handler has ended its stream: "none", "result" or "error"

leaseVars   == <<lease, yielded, rpc>>
threadVars  == <<inference, producing, item, put, stale, lapses>>
handlerVars == <<queue, handler, outcome>>
workerVars  == <<loop, loaded, quarantined, threadVars, handlerVars>>
synthVars   == <<leaseVars, workerVars>>

Error == 0
Done  == Pieces + 1

Quiet   == {"off", "over"}
Held    == {"loading", "loaded", "open", "closing", "unloading"}
InForce == {s \in Synths : lease[s] \in Held}

SynthInit ==
  /\ lease = [s \in Synths |-> "off"] /\ yielded = [s \in Synths |-> <<>>]
  /\ rpc = "none" /\ loop = "free" /\ loaded = FALSE /\ quarantined = FALSE
  /\ inference = Blank /\ producing = [s \in Synths |-> "off"] /\ item = [s \in Synths |-> 1]
  /\ put = [s \in Synths |-> "none"] /\ stale = [s \in Synths |-> 0] /\ lapses = 0
  /\ queue = [s \in Synths |-> Blank]
  /\ handler = [s \in Synths |-> "off"] /\ outcome = [s \in Synths |-> "none"]

LeaseIs(s, step)    == lease' = [lease EXCEPT ![s] = step]
ProducerIs(s, step) == producing' = [producing EXCEPT ![s] = step]
PutIs(s, step)      == put' = [put EXCEPT ![s] = step]
HandlerIs(s, step)  == handler' = [handler EXCEPT ![s] = step]
VerdictIs(s, how)   == outcome' = [outcome EXCEPT ![s] = how]
Enqueued(s, what)   == queue' = [queue EXCEPT ![s] = what]

\* The cancellation event of the handler: it waits for the thread, and not after a result.
ToldToStop(s) == handler[s] \in {"expire", "quiesce", "over"} /\ outcome[s] # "result"

Unless(s) == IF inference = s THEN Blank ELSE inference
-----------------------------------------------------------------------------
(* Core: the lease and its stream. *)

\* The next job takes the lease; a call of an earlier one may still be about in the Worker.
TakeLease(s) ==
  /\ InForce = {} /\ producing[s] \in Quiet /\ handler[s] \in Quiet
  /\ LeaseIs(s, "loading") /\ rpc' = "load"
  /\ yielded' = [yielded EXCEPT ![s] = <<>>] /\ VerdictIs(s, "none") /\ HandlerIs(s, "off")
  /\ item' = [item EXCEPT ![s] = 1] /\ ProducerIs(s, "off")
  /\ UNCHANGED <<loop, loaded, quarantined, inference, put, stale, lapses, queue>>

\* An answer to LoadModel, or its deadline: the Worker goes on with what it does.
LoadReturns(s) ==
  /\ lease[s] = "loading"
  /\ LeaseIs(s, IF rpc = "yes" THEN "loaded" ELSE "over") /\ rpc' = "none"
  /\ loop' = IF loop = "load" THEN "late" ELSE loop
  /\ UNCHANGED <<yielded, loaded, quarantined, threadVars, handlerVars>>

\* Synthesize reaches its handler, which starts the thread.
Synthesize(s) ==
  /\ lease[s] = "loaded" /\ loop = "free"
  /\ LeaseIs(s, "open") /\ ProducerIs(s, "start") /\ HandlerIs(s, "next")
  /\ UNCHANGED <<yielded, rpc, loop, loaded, quarantined, inference, item, put, stale, lapses,
                 queue, outcome>>

\* Seeded fault: a stream that is closed needs no unload to be quiet.
ClosedAtOnce(s, told) == "over"

\* Unless Core has heard its end, a stream is closed by an unload that the Worker confirms.
AfterClose(s, told) == IF told THEN "unloading" ELSE "closing"

CloseStream(s) ==
  /\ lease[s] = "open"
  /\ \E told \in {FALSE, outcome[s] # "none"} : LeaseIs(s, AfterClose(s, told))
  /\ UNCHANGED <<yielded, rpc, workerVars>>

\* The job ends before it synthesizes.
SkipSynthesis(s) ==
  /\ lease[s] = "loaded"
  /\ LeaseIs(s, "unloading")
  /\ UNCHANGED <<yielded, rpc, workerVars>>

AskUnload(s) ==
  /\ lease[s] \in {"closing", "unloading"} /\ rpc = "none"
  /\ rpc' = "unload"
  /\ UNCHANGED <<lease, yielded, workerVars>>

\* Unloaded; or, while the stream is closed, refused: it asks again.
UnloadAnswered(s) ==
  /\ \/ lease[s] \in {"closing", "unloading"} /\ rpc = "yes" /\ LeaseIs(s, "over")
     \/ lease[s] = "closing" /\ rpc = "no" /\ UNCHANGED lease
  /\ rpc' = "none"
  /\ UNCHANGED <<yielded, workerVars>>

\* CANCELLATION_GRACE_SECONDS may be over at any time; hard_stop kills the Worker, and what
\* takes its place has no model.
HardStop(s) ==
  /\ lease[s] = "closing" \/ (lease[s] = "unloading" /\ rpc = "no")
  /\ LeaseIs(s, "over") /\ rpc' = "none"
  /\ loop' = "free" /\ loaded' = FALSE /\ quarantined' = FALSE /\ inference' = Blank
  /\ producing' = [q \in Synths |-> IF producing[q] = "off" THEN "off" ELSE "over"]
  /\ handler' = [q \in Synths |-> IF handler[q] = "off" THEN "off" ELSE "over"]
  /\ put' = [q \in Synths |-> "none"] /\ stale' = [q \in Synths |-> 0] /\ UNCHANGED lapses
  /\ queue' = [q \in Synths |-> Blank]
  /\ UNCHANGED <<yielded, item, outcome>>
-----------------------------------------------------------------------------
(* The Worker: LoadModel and UnloadModel run on the event loop. *)

BeginLoad ==
  /\ loop = "free" /\ rpc = "load"
  /\ loop' = "load"
  /\ UNCHANGED <<leaseVars, loaded, quarantined, threadVars, handlerVars>>

\* A model that is loaded already is refused, and so is one that does not load.  Loading
\* takes longer than a thread takes to start.
EndLoad ==
  /\ loop \in {"load", "late"} /\ \A s \in Synths : producing[s] # "start"
  /\ loop' = "free"
  /\ \E good \in (IF loaded THEN {FALSE} ELSE BOOLEAN) :
       /\ loaded' = (loaded \/ good)
       /\ rpc' = IF loop = "late" THEN rpc ELSE IF good THEN "yes" ELSE "no"
  /\ UNCHANGED <<lease, yielded, quarantined, threadVars, handlerVars>>

BeginUnload ==
  /\ loop = "free" /\ rpc = "unload"
  /\ \/ ~loaded /\ rpc' = "yes" /\ UNCHANGED loop
     \/ loaded /\ quarantined /\ rpc' = "no" /\ UNCHANGED loop
     \/ loaded /\ ~quarantined /\ loop' = "unload" /\ UNCHANGED rpc
  /\ UNCHANGED <<lease, yielded, loaded, quarantined, threadVars, handlerVars>>

\* The lock is there; the cleanup of the SDK may raise.
EndUnload ==
  /\ loop = "unload" /\ inference = Blank
  /\ loop' = "free"
  /\ \E good \in BOOLEAN : loaded' = ~good /\ rpc' = IF good THEN "yes" ELSE "no"
  /\ UNCHANGED <<lease, yielded, quarantined, threadVars, handlerVars>>
-----------------------------------------------------------------------------
(* The thread: produce and _put_from_thread. *)

Puts(s, what) ==
  item' = [item EXCEPT ![s] = what] /\ ProducerIs(s, "put") /\ PutIs(s, "none")

\* The lock is free and the runtime not quarantined, or the synthesis is refused.
BeginInference(s) ==
  /\ producing[s] = "start"
  /\ IF quarantined \/ inference # Blank \/ ~loaded
     THEN Puts(s, Error) /\ UNCHANGED inference
     ELSE inference' = s /\ ProducerIs(s, "infer") /\ UNCHANGED <<item, put>>
  /\ UNCHANGED <<leaseVars, loop, loaded, quarantined, stale, lapses, handlerVars>>

\* The SDK gives a chunk, comes to its end or raises.
Infer(s) ==
  /\ producing[s] = "infer"
  /\ \/ ToldToStop(s) /\ ProducerIs(s, "over") /\ inference' = Blank /\ UNCHANGED <<item, put>>
     \/ ~ToldToStop(s) /\ item[s] <= Pieces /\ Puts(s, item[s]) /\ UNCHANGED inference
     \/ item[s] = Done /\ Puts(s, Done) /\ inference' = Blank
     \/ Puts(s, Error) /\ inference' = Blank
  /\ UNCHANGED <<leaseVars, loop, loaded, quarantined, stale, lapses, handlerVars>>

\* Each round of _put_from_thread looks at the cancellation before it schedules a put.
SchedulePut(s) ==
  /\ producing[s] = "put" /\ put[s] = "none"
  /\ IF ToldToStop(s)
     THEN ProducerIs(s, "over") /\ inference' = Unless(s) /\ UNCHANGED put
     ELSE PutIs(s, "scheduled") /\ UNCHANGED <<producing, inference>>
  /\ UNCHANGED <<leaseVars, loop, loaded, quarantined, item, stale, lapses, handlerVars>>

\* 50 ms are over: the thread will try again.  Cancelled before the loop has begun it, a put is carried out all the
\* same: the task finds room before it finds out.
PutExpires(s) ==
  /\ put[s] \in {"scheduled", "waiting"}
  /\ PutIs(s, "none")
  /\ IF put[s] = "scheduled"
     THEN lapses < MaxLate /\ lapses' = lapses + 1 /\ stale' = [stale EXCEPT ![s] = @ + 1]
     ELSE UNCHANGED <<stale, lapses>>
  /\ UNCHANGED <<leaseVars, loop, loaded, quarantined, inference, producing, item, handlerVars>>

AfterPut(s) ==
  /\ put[s] = "done"
  /\ IF item[s] \in 1..Pieces
     THEN ProducerIs(s, "infer") /\ item' = [item EXCEPT ![s] = @ + 1]
     ELSE ProducerIs(s, "over") /\ UNCHANGED item
  /\ PutIs(s, "none")
  /\ UNCHANGED <<leaseVars, loop, loaded, quarantined, inference, stale, lapses, handlerVars>>
-----------------------------------------------------------------------------
(* The event loop: puts, and the handler Synthesize. *)

\* The loop runs what it was given in order: the puts given up come first.
RunPut(s) ==
  /\ loop = "free"
  /\ \/ /\ stale[s] > 0
        /\ stale' = [stale EXCEPT ![s] = @ - 1] /\ UNCHANGED put
        /\ IF queue[s] = Blank THEN Enqueued(s, item[s]) ELSE UNCHANGED queue
     \/ /\ stale[s] = 0 /\ put[s] \in {"scheduled", "waiting"} /\ UNCHANGED stale
        /\ IF queue[s] = Blank THEN Enqueued(s, item[s]) /\ PutIs(s, "done")
           ELSE put[s] = "scheduled" /\ PutIs(s, "waiting") /\ UNCHANGED queue
  /\ UNCHANGED <<leaseVars, loop, loaded, quarantined, inference, producing, item, lapses,
                 handler, outcome>>

\* The handler takes an item and yields it; an error or the end is the last.
YieldItem(s) ==
  /\ loop = "free" /\ handler[s] = "next" /\ queue[s] # Blank
  /\ Enqueued(s, Blank)
  /\ IF queue[s] \in 1..Pieces
     THEN /\ yielded' = [yielded EXCEPT ![s] = Append(@, queue[s])]
          /\ UNCHANGED <<handler, outcome>>
     ELSE /\ VerdictIs(s, IF queue[s] = Done /\ Pieces > 0 THEN "result" ELSE "error")
          /\ HandlerIs(s, "quiesce")
          /\ UNCHANGED yielded
  /\ UNCHANGED <<lease, rpc, loop, loaded, quarantined, threadVars>>

\* Seeded fault: the error is told before the thread is waited for.
ToldFirst(s) == VerdictIs(s, "error")

ToldLater(s) == UNCHANGED outcome

\* Five milliseconds before its deadline the call is ended.
Expire(s) ==
  /\ loop = "free" /\ handler[s] = "next"
  /\ HandlerIs(s, "expire") /\ ToldLater(s)
  /\ UNCHANGED <<leaseVars, loop, loaded, quarantined, threadVars, queue>>

\* CancelledError reaches the handler: nothing more is told.
HandleCancel(s) ==
  /\ loop = "free" /\ lease[s] \in {"closing", "unloading", "over"} /\ handler[s] = "next"
  /\ HandlerIs(s, "quiesce")
  /\ UNCHANGED <<leaseVars, loop, loaded, quarantined, threadVars, queue, outcome>>

\* The thread has ended within the time it is given, or it is in the SDK and the runtime is
\* quarantined.  Outside the SDK a thread that is told to stop needs no time.
Quiesce(s) ==
  /\ loop = "free" /\ handler[s] \in {"expire", "quiesce"} /\ producing[s] \in {"infer", "over"}
  /\ quarantined' = (quarantined \/ producing[s] = "infer")
  /\ HandlerIs(s, "over") /\ Enqueued(s, Blank) /\ stale' = [stale EXCEPT ![s] = 0]
  /\ IF handler[s] = "expire" THEN VerdictIs(s, "error") ELSE UNCHANGED outcome
  /\ UNCHANGED <<leaseVars, loop, loaded, inference, producing, item, put, lapses>>
-----------------------------------------------------------------------------
UnloadStep(s) == AskUnload(s) \/ UnloadAnswered(s)

\* Core asks for the unload of a lease that it gives up, and the loop of the Worker
\* carries it out.
GiveUpStep ==
  BeginUnload \/ EndUnload \/ EndLoad \/ \E s \in Synths : UnloadStep(s)

KillStep == \E s \in Synths : HardStop(s)

SynthNext ==
  \/ BeginLoad \/ EndLoad \/ BeginUnload \/ EndUnload
  \/ \E s \in Synths :
       \/ TakeLease(s) \/ LoadReturns(s) \/ Synthesize(s) \/ CloseStream(s)
       \/ SkipSynthesis(s) \/ UnloadStep(s) \/ HardStop(s)
       \/ BeginInference(s) \/ Infer(s) \/ SchedulePut(s) \/ PutExpires(s) \/ AfterPut(s)
       \/ RunPut(s) \/ YieldItem(s) \/ Expire(s) \/ HandleCancel(s) \/ Quiesce(s)

\* Core goes on with its lease and the loop with UnloadModel; the SDK need not return.
SynthFairness == WF_synthVars(GiveUpStep) /\ WF_synthVars(KillStep)

SynthSpec == SynthInit /\ [][SynthNext]_synthVars /\ SynthFairness
-----------------------------------------------------------------------------
SynthTypeOK ==
  /\ lease \in [Synths -> Held \cup Quiet]
  /\ yielded \in [Synths -> Seq(1..Pieces)]
  /\ rpc \in {"none", "load", "unload", "yes", "no"} /\ loop \in {"free", "load", "late", "unload"}
  /\ loaded \in BOOLEAN /\ quarantined \in BOOLEAN /\ inference \in Synths \cup {Blank}
  /\ producing \in [Synths -> {"off", "start", "infer", "put", "over"}]
  /\ item \in [Synths -> 0..Done] /\ put \in [Synths -> {"none", "scheduled", "waiting", "done"}]
  /\ lapses \in 0..MaxLate /\ stale \in [Synths -> 0..MaxLate]
  /\ queue \in [Synths -> 0..Done \cup {Blank}]
  /\ handler \in [Synths -> {"off", "next", "expire", "quiesce", "over"}]
  /\ outcome \in [Synths -> {"none", "result", "error"}]

(* Whoever leases the Worker next finds no inference and no quarantine of the   *)
(* one before, however that one ended: result, error, cancellation, deadline.   *)
LeaseReturnsQuiet == InForce = {} => inference = Blank /\ ~quarantined

(* A lease that is given up ends, although the SDK may never return: the unload *)
(* after a stream that ended never waits for a thread, and another one has a    *)
(* time after which the Worker is killed.                                       *)
LeaseEnds == \A s \in Synths : []<>(lease[s] \notin {"closing", "unloading"})

(* Sequence numbers detect gaps and enforce ordering: no chunk comes twice.     *)
NoChunkComesTwice ==
  \A s \in Synths : \A j, k \in DOMAIN yielded[s] : yielded[s][j] = yielded[s][k] => j = k
=============================================================================
