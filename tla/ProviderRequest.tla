--------------------------- MODULE ProviderRequest ---------------------------
(***************************************************************************)
(* The Worker of remote providers: a synthesis is one HTTP request, made   *)
(* by a thread of a small pool, while the coroutine of the call looks      *)
(* every 10 ms whether the call was cancelled, ran out of time or got its  *)
(* answer.  A thread cannot be interrupted: who gives up sets an event,    *)
(* closes the response if there is one yet, waits 250 ms for the thread,   *)
(* and quarantines the Worker when it still runs.                          *)
(*                                                                         *)
(* The event loop and the threads interleave at every access to what they  *)
(* share: the event, the response and the end of the thread.               *)
(***************************************************************************)
EXTENDS FiniteSets, Naturals

CONSTANTS
  Calls,        \* Synthesize calls, one each
  PoolThreads   \* threads of the executor, 4 in the code

ASSUME ProviderRequestAssumption == PoolThreads \in Nat \ {0}

VARIABLES
  caller,       \* how Core sees each call
  coroutine,    \* where the handler of each call is
  toThrow,      \* calls whose coroutine gets a CancelledError
  toCall,       \* calls whose done callback has not run
  told,         \* calls whose cancellation event is set
  closing,      \* calls in cancel(), between the event and the response
  exchange,     \* where the thread with the request of each call is
  attached,     \* calls whose cancellation knows the response
  shut,         \* calls whose response was closed under the thread
  ending,       \* what the thread of a call ended with
  refusing      \* the Worker is quarantined and answers no further call

providerVars == <<caller, coroutine, toThrow, toCall, told, closing, exchange, attached, shut,
                  ending, refusing>>
loopVars     == <<caller, coroutine, toThrow, toCall, told, closing, refusing>>
exchangeVars == <<exchange, attached, shut, ending>>

Drains == {"drainCancelled", "drainTimeout", "drainThrown"}
Busy   == {"resolving", "connecting", "opened", "attaching", "between", "reading"}

ProviderInit ==
  /\ caller = [o \in Calls |-> "none"]
  /\ coroutine = [o \in Calls |-> "none"]
  /\ toThrow = {} /\ toCall = {} /\ told = {} /\ closing = {}
  /\ exchange = [o \in Calls |-> "none"]
  /\ attached = {} /\ shut = {}
  /\ ending = [o \in Calls |-> "nothing"]
  /\ refusing = FALSE

CoroutineAt(o, s) == coroutine' = [coroutine EXCEPT ![o] = s]
ExchangeAt(o, s)  == exchange' = [exchange EXCEPT ![o] = s]
\* The loop runs one thing at a time; cancel() is the only one that others see halfway.
LoopIsFree == closing = {}
-----------------------------------------------------------------------------
(* ProviderCancellation.cancel: the event first, then, under its lock, the  *)
(* response that attach has left there.                                     *)

Tell(o) == told' = told \cup {o} /\ closing' = closing \cup {o}

CloseTold(o) ==
  /\ o \in closing
  /\ closing' = closing \ {o}
  /\ shut' = IF o \in attached THEN shut \cup {o} ELSE shut
  /\ UNCHANGED <<caller, coroutine, toThrow, toCall, told, exchange, attached, ending, refusing>>

\* attach looks at the event after it has left the response.
Attached(o) == IF o \in told THEN shut \cup {o} ELSE shut
-----------------------------------------------------------------------------
(* The coroutine. *)

\* Core leases a Worker to one job at a time, and is done with a call when it cancels it.
CallProvider(o) ==
  /\ LoopIsFree
  /\ caller[o] = "none"
  /\ \A p \in Calls : caller[p] # "open"
  /\ IF refusing
     THEN /\ caller' = [caller EXCEPT ![o] = "answered"] /\ CoroutineAt(o, "ended")
          /\ UNCHANGED <<toCall, exchange>>
     ELSE /\ caller' = [caller EXCEPT ![o] = "open"] /\ CoroutineAt(o, "waiting")
          /\ toCall' = toCall \cup {o} /\ ExchangeAt(o, "queued")
  /\ UNCHANGED <<toThrow, told, closing, attached, shut, ending, refusing>>

CancelCall(o) ==
  /\ caller[o] = "open"
  /\ caller' = [caller EXCEPT ![o] = "cancelled"]
  /\ toThrow' = toThrow \cup {o}
  /\ UNCHANGED <<coroutine, toCall, told, closing, refusing, exchangeVars>>

\* gRPC runs the callback of a call that is over, and it cancels whatever is left.
DoneCallback(o) ==
  /\ LoopIsFree
  /\ o \in toCall /\ caller[o] # "open"
  /\ toCall' = toCall \ {o}
  /\ Tell(o)
  /\ UNCHANGED <<caller, coroutine, toThrow, refusing, exchangeVars>>

\* Seeded fault: a coroutine that is cancelled goes without waiting for its thread.
Abandoned(o) == CoroutineAt(o, "ended") /\ UNCHANGED refusing

\* The coroutine is thrown out of what it awaits, and drains.
ThrownOut(o) == CoroutineAt(o, "drainThrown") /\ UNCHANGED refusing

ThrowInto(o) ==
  /\ LoopIsFree
  /\ o \in toThrow
  /\ toThrow' = toThrow \ {o}
  /\ \/ /\ coroutine[o] \in {"waiting", "drainCancelled", "drainTimeout"}
        /\ Tell(o) /\ ThrownOut(o)
     \/ /\ coroutine[o] \in {"sending", "ended"}
        /\ CoroutineAt(o, "ended") /\ UNCHANGED <<told, closing, refusing>>
  /\ UNCHANGED <<caller, toCall, exchangeVars>>

SeeCancelled(o) ==
  /\ LoopIsFree
  /\ coroutine[o] = "waiting" /\ o \in told
  /\ CoroutineAt(o, "drainCancelled")
  /\ UNCHANGED <<caller, toThrow, toCall, told, closing, refusing, exchangeVars>>

\* The deadline of 60 seconds passes, whatever the thread does.
SeeDeadline(o) ==
  /\ LoopIsFree
  /\ coroutine[o] = "waiting" /\ o \notin told
  /\ CoroutineAt(o, "drainTimeout") /\ Tell(o)
  /\ UNCHANGED <<caller, toThrow, toCall, refusing, exchangeVars>>

SeeAnswer(o) ==
  /\ LoopIsFree
  /\ coroutine[o] = "waiting" /\ exchange[o] = "over"
  /\ IF ending[o] = "audio"
     THEN CoroutineAt(o, "sending") /\ UNCHANGED caller
     ELSE CoroutineAt(o, "ended")
          /\ caller' = [caller EXCEPT ![o] = IF @ = "open" THEN "answered" ELSE @]
  /\ UNCHANGED <<toThrow, toCall, told, closing, refusing, exchangeVars>>

\* Seeded fault: only a thread that has ended ends the wait for it.
DrainEndedByThread(o) == exchange[o] = "over"

\* _drain_or_quarantine: the thread has ended, or 250 ms have passed.
DrainEnded(o) == TRUE

EndDrain(o) ==
  /\ LoopIsFree
  /\ coroutine[o] \in Drains /\ DrainEnded(o)
  /\ CoroutineAt(o, "ended")
  /\ caller' = [caller EXCEPT ![o] = IF @ = "open" THEN "answered" ELSE @]
  /\ refusing' = (refusing \/ exchange[o] # "over")
  /\ UNCHANGED <<toThrow, toCall, told, closing, exchangeVars>>

SendAudio(o) ==
  /\ LoopIsFree
  /\ coroutine[o] = "sending"
  /\ CoroutineAt(o, "ended")
  /\ caller' = [caller EXCEPT ![o] = IF @ = "open" THEN "answered" ELSE @]
  /\ UNCHANGED <<toThrow, toCall, told, closing, refusing, exchangeVars>>

\* Health of a refusing Worker is not ready: Core ends the process and starts another.
ReplaceProviderWorker ==
  /\ refusing
  /\ refusing' = FALSE
  /\ caller' = [o \in Calls |-> IF caller[o] = "open" THEN "answered" ELSE caller[o]]
  /\ coroutine' = [o \in Calls |-> IF coroutine[o] = "none" THEN "none" ELSE "ended"]
  /\ exchange' = [o \in Calls |-> IF exchange[o] = "none" THEN "none" ELSE "over"]
  /\ toThrow' = {} /\ toCall' = {} /\ closing' = {} /\ attached' = {}
  /\ UNCHANGED <<told, shut, ending>>
-----------------------------------------------------------------------------
(* The thread: _request.  It may stay in any step for as long as it likes.  *)

EndThread(o, what) ==
  /\ ExchangeAt(o, "over")
  /\ ending' = [ending EXCEPT ![o] = what]
  /\ attached' = attached \ {o}
  /\ UNCHANGED shut

\* The executor has a free thread for the request; the first look at the event.
BeginRequest(o) ==
  /\ exchange[o] = "queued"
  /\ Cardinality({p \in Calls : exchange[p] \in Busy}) < PoolThreads
  /\ IF o \in told THEN EndThread(o, "failure")
     ELSE ExchangeAt(o, "resolving") /\ UNCHANGED <<attached, shut, ending>>
  /\ UNCHANGED loopVars

\* The addresses are there: the event is looked at again before connecting to one.
ResolveAddress(o) ==
  /\ exchange[o] = "resolving"
  /\ \/ o \notin told /\ ExchangeAt(o, "connecting") /\ UNCHANGED <<attached, shut, ending>>
     \/ EndThread(o, "failure")
  /\ UNCHANGED loopVars

\* The request is sent and its response begins, or neither.
OpenResponse(o) ==
  /\ exchange[o] = "connecting"
  /\ \/ ExchangeAt(o, "opened") /\ UNCHANGED <<attached, shut, ending>>
     \/ EndThread(o, "failure")
  /\ UNCHANGED loopVars

AttachResponse(o) ==
  /\ exchange[o] = "opened"
  /\ ExchangeAt(o, "attaching")
  /\ attached' = attached \cup {o}
  /\ UNCHANGED <<shut, ending, loopVars>>

LookAfterAttach(o) ==
  /\ exchange[o] = "attaching"
  /\ ExchangeAt(o, "between")
  /\ shut' = Attached(o)
  /\ UNCHANGED <<attached, ending, loopVars>>

\* Each read begins with a look at the event.
BeginRead(o) ==
  /\ exchange[o] = "between"
  /\ IF o \in told THEN EndThread(o, "failure")
     ELSE ExchangeAt(o, "reading") /\ UNCHANGED <<attached, shut, ending>>
  /\ UNCHANGED loopVars

\* A read returns with bytes or times out, reaches the end of audio or of something
\* else, or fails.
ReadReturns(o) ==
  /\ exchange[o] = "reading"
  /\ \/ ExchangeAt(o, "between") /\ UNCHANGED <<attached, shut, ending>>
     \/ EndThread(o, "audio")
     \/ EndThread(o, "failure")
  /\ UNCHANGED loopVars
-----------------------------------------------------------------------------
LoopStep(o) ==
  \/ CloseTold(o) \/ DoneCallback(o) \/ ThrowInto(o) \/ SeeCancelled(o) \/ SeeDeadline(o)
  \/ SeeAnswer(o) \/ EndDrain(o) \/ SendAudio(o)

ThreadStep(o) ==
  \/ BeginRequest(o) \/ ResolveAddress(o) \/ OpenResponse(o) \/ AttachResponse(o)
  \/ LookAfterAttach(o) \/ BeginRead(o) \/ ReadReturns(o)

ProviderNext ==
  \/ \E o \in Calls : CallProvider(o) \/ CancelCall(o) \/ LoopStep(o) \/ ThreadStep(o)
  \/ ReplaceProviderWorker

ProviderSpec == ProviderInit /\ [][ProviderNext]_providerVars
-----------------------------------------------------------------------------
ProviderTypeOK ==
  /\ caller \in [Calls -> {"none", "open", "cancelled", "answered"}]
  /\ coroutine \in [Calls -> {"none", "waiting", "sending", "ended"} \cup Drains]
  /\ toThrow \subseteq Calls /\ toCall \subseteq Calls /\ told \subseteq Calls
  /\ closing \subseteq told /\ Cardinality(closing) <= 1
  /\ exchange \in [Calls -> {"none", "queued", "over"} \cup Busy]
  /\ attached \subseteq Calls /\ shut \subseteq told
  /\ ending \in [Calls -> {"nothing", "audio", "failure"}]
  /\ refusing \in BOOLEAN

(* A request that goes on after its call has ended is known: the Worker is     *)
(* refusing (http.py, _drain_or_quarantine), whichever of the cancellation, *)
(* the deadline and the end of the call came first.  And no thread reads on in *)
(* the response of a cancelled call unless that response is closed: cancel()   *)
(* and the thread cannot both miss each other.                                 *)
NoRequestIsForgotten ==
  \A o \in Calls :
    /\ coroutine[o] = "ended" /\ exchange[o] \notin {"none", "over"} => refusing
    /\ o \in told \ closing /\ exchange[o] = "reading" => o \in shut

(* A call comes to its end whatever its thread does: no provider can hold the  *)
(* lease of a job (http.py, synthesize).                                       *)
ProviderCallEnds == <>[](\A o \in Calls : coroutine[o] \in {"none", "ended"})
=============================================================================
