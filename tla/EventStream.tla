----------------------------- MODULE EventStream -----------------------------
(***************************************************************************)
(* The durable event log (EventStore) and the SSE feeds that read it       *)
(* (iter_sse_events), each for a client that may lose its connection, with *)
(* the frames on the way, and resume with the id it rendered last.         *)
(*                                                                         *)
(* Append and read_after are one SQLite transaction each; a feed reads in  *)
(* a thread and yields one frame at a time, so anything can happen between *)
(* two of its steps.                                                       *)
(***************************************************************************)
EXTENDS Naturals, FiniteSets, Sequences, FiniteSetsExt

CONSTANTS
  Streams,    \* Download Jobs that publish events
  All,        \* the scope of a feed without download_id
  Feeds,      \* clients, one connection at a time each
  Window,     \* retention_limit
  Batch,      \* batch_size
  MaxEvents,  \* bound on the events of all streams
  MaxOpens    \* bound on the connections of a client

ASSUME EventAssumption ==
  /\ All \notin Streams
  /\ Window \in Nat \ {0} /\ Batch \in Nat \ {0}
  /\ MaxEvents \in Nat /\ MaxOpens \in Nat

VARIABLES
  (* model_events and model_event_cursor *)
  last,     \* last_event_id
  source,   \* stream of each event
  final,    \* ids of terminal events
  kept,     \* ids of retained events
  (* the feeds *)
  scope,    \* download_id of each feed, or All
  feed,     \* "off", "opening", "open", "ending"
  cursor,   \* position of each feed
  batch,    \* events it has read and not yet yielded
  wire,     \* frames on the way to the client
  (* the clients *)
  since,    \* id rendered last, by an event or a reset
  known,    \* whether the client has rendered any
  opens     \* connections so far

store     == <<last, source, final, kept>>
server    == <<scope, feed, cursor, batch>>
client    == <<since, known, opens>>
eventVars == <<store, server, wire, client>>

Ids == 1 .. MaxEvents

EventInit ==
  /\ last = 0 /\ source = [i \in Ids |-> All] /\ final = {} /\ kept = {}
  /\ scope = [c \in Feeds |-> All]
  /\ feed = [c \in Feeds |-> "off"]
  /\ cursor = [c \in Feeds |-> 0]
  /\ batch = [c \in Feeds |-> <<>>]
  /\ wire = [c \in Feeds |-> <<>>]
  /\ since = [c \in Feeds |-> 0] /\ known = {} /\ opens = [c \in Feeds |-> 0]
-----------------------------------------------------------------------------
(* The log. *)

Oldest == Min(kept)

Ended(s) == \E i \in final : source[i] = s

\* The DELETE of append: what is older than the newest Window events.
Pruned(ids) == {i \in ids : Cardinality({k \in ids : k >= i}) <= Window}

\* A stream publishes nothing after its terminal event.
AppendEvent(s) ==
  /\ last < MaxEvents /\ ~Ended(s)
  /\ last' = last + 1
  /\ source' = [source EXCEPT ![last + 1] = s]
  /\ final' \in {final, final \cup {last + 1}}
  /\ kept' = Pruned(kept \cup {last + 1})
  /\ UNCHANGED <<server, wire, client>>

Matches(c, i) == scope[c] \in {All, source[i]}
-----------------------------------------------------------------------------
(* The feeds. *)

\* Without Last-Event-ID, or with one, which may stem from another database.
Open(c, s) ==
  /\ feed[c] = "off" /\ opens[c] < MaxOpens /\ wire[c] = <<>>
  /\ opens[c] > 0 => s = scope[c]
  /\ opens' = [opens EXCEPT ![c] = @ + 1]
  /\ scope' = [scope EXCEPT ![c] = s]
  /\ \/ /\ c \notin known
        /\ feed' = [feed EXCEPT ![c] = "opening"]
        /\ UNCHANGED <<cursor, since, known>>
     \/ \E id \in IF c \in known THEN {since[c]} ELSE 0 .. MaxEvents + 1 :
          /\ feed' = [feed EXCEPT ![c] = "open"]
          /\ cursor' = [cursor EXCEPT ![c] = id]
          /\ since' = [since EXCEPT ![c] = id]
          /\ known' = known \cup {c}
  /\ UNCHANGED <<store, batch, wire>>

InitialCursor == IF kept = {} THEN 0 ELSE Oldest - 1

ReadInitialCursor(c) ==
  /\ feed[c] = "opening"
  /\ feed' = [feed EXCEPT ![c] = "open"]
  /\ cursor' = [cursor EXCEPT ![c] = InitialCursor]
  /\ since' = [since EXCEPT ![c] = InitialCursor]
  /\ UNCHANGED <<store, scope, batch, wire, known, opens>>

\* Seeded fault: only a cursor of another database is refused.
ExpiredOnlyAhead(c) == cursor[c] > last

Expired(c) == (kept # {} /\ cursor[c] < Oldest - 1) \/ cursor[c] > last

After(c) == {i \in kept : i > cursor[c] /\ Matches(c, i)}

\* ORDER BY id LIMIT: the first of them, in their order.
FirstOf(ids, s) ==
  /\ \A j, k \in 1 .. Len(s) : j < k => s[j] < s[k]
  /\ \A i \in ids : (\E k \in 1 .. Len(s) : s[k] = i) \/ (Len(s) = Batch /\ s[Batch] < i)

ReadAfter(c) ==
  /\ feed[c] = "open" /\ batch[c] = <<>>
  /\ \/ /\ Expired(c)
        /\ wire' = [wire EXCEPT ![c] = Append(@, [kind |-> "reset", id |-> last])]
        /\ feed' = [feed EXCEPT ![c] = "ending"]
        /\ UNCHANGED batch
     \/ /\ ~Expired(c)
        /\ \E n \in 1 .. Batch : \E s \in [1 .. n -> After(c)] :
             FirstOf(After(c), s) /\ batch' = [batch EXCEPT ![c] = s]
        /\ UNCHANGED <<feed, wire>>
  /\ UNCHANGED <<store, scope, cursor, client>>

ClosesAfter(c, i) == scope[c] # All /\ i \in final

Yield(c) ==
  /\ feed[c] = "open" /\ batch[c] # <<>>
  /\ wire' = [wire EXCEPT ![c] = Append(@, [kind |-> "event", id |-> Head(batch[c])])]
  /\ cursor' = [cursor EXCEPT ![c] = Head(batch[c])]
  /\ IF ClosesAfter(c, Head(batch[c]))
     THEN feed' = [feed EXCEPT ![c] = "ending"] /\ batch' = [batch EXCEPT ![c] = <<>>]
     ELSE batch' = [batch EXCEPT ![c] = Tail(@)] /\ UNCHANGED feed
  /\ UNCHANGED <<store, scope, client>>

\* The client renders a frame; after a reset it reads the current state instead.
Render(c) ==
  /\ wire[c] # <<>>
  /\ wire' = [wire EXCEPT ![c] = Tail(@)]
  /\ since' = [since EXCEPT ![c] = Head(wire[c]).id]
  /\ known' = known \cup {c}
  /\ UNCHANGED <<store, server, opens>>

Finish(c) ==
  /\ feed[c] = "ending" /\ wire[c] = <<>>
  /\ feed' = [feed EXCEPT ![c] = "off"]
  /\ UNCHANGED <<store, scope, cursor, batch, wire, client>>

\* The connection breaks: what was on the way is lost.
Disconnect(c) ==
  /\ feed[c] # "off"
  /\ feed' = [feed EXCEPT ![c] = "off"]
  /\ batch' = [batch EXCEPT ![c] = <<>>]
  /\ wire' = [wire EXCEPT ![c] = <<>>]
  /\ UNCHANGED <<store, scope, cursor, client>>
-----------------------------------------------------------------------------
FeedStep(c) == ReadInitialCursor(c) \/ ReadAfter(c) \/ Yield(c) \/ Render(c) \/ Finish(c)

EventNext ==
  \/ \E s \in Streams : AppendEvent(s)
  \/ \E c \in Feeds :
       (\E s \in Streams \cup {All} : Open(c, s)) \/ FeedStep(c) \/ Disconnect(c)

EventSpec == EventInit /\ [][EventNext]_eventVars
-----------------------------------------------------------------------------
EventTypeOK ==
  /\ last \in 0 .. MaxEvents /\ source \in [Ids -> Streams \cup {All}]
  /\ final \subseteq 1 .. last /\ kept \subseteq 1 .. last
  /\ scope \in [Feeds -> Streams \cup {All}]
  /\ feed \in [Feeds -> {"off", "opening", "open", "ending"}]
  /\ cursor \in [Feeds -> 0 .. MaxEvents + 1] /\ since \in [Feeds -> 0 .. MaxEvents + 1]
  /\ batch \in [Feeds -> Seq(Ids)] /\ \A c \in Feeds : Len(batch[c]) <= Batch
  /\ wire \in [Feeds -> Seq([kind : {"event", "reset"}, id : 0 .. MaxEvents])]
  /\ known \subseteq Feeds /\ opens \in [Feeds -> 0 .. MaxOpens]

\* What the client has rendered when it comes to frame k, and the next one.
Before(c, k) == IF k = 1 THEN since[c] ELSE wire[c][k - 1].id
NextOf(c, id, i) == i > id /\ Matches(c, i) /\ \A k \in id + 1 .. i - 1 : ~Matches(c, k)

(* Every event a client renders is the next one of its feed after the one it   *)
(* rendered before, in this connection or an earlier one, whatever was pruned  *)
(* or lost in between, unless it is told to refresh: nothing is skipped and    *)
(* nothing comes twice.                                                        *)
NothingSkipped ==
  \A c \in Feeds : \A k \in 1 .. Len(wire[c]) :
    wire[c][k].kind = "event" => NextOf(c, Before(c, k), wire[c][k].id)
=============================================================================
