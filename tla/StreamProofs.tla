---------------------------- MODULE StreamProofs ----------------------------
(***************************************************************************)
(* Theorems about what is sent on while it comes to be: PCM to the         *)
(* listeners of a job, the events of the log to the clients of a feed, and *)
(* requests to a provider.                                                 *)
(***************************************************************************)
EXTENDS PcmStream, EventStream, ProviderRequest,
        FiniteSetTheorems, SequenceTheorems, TLAPS

-----------------------------------------------------------------------------
(* PcmStream.  Every listener hears the chunks in order and up to where    *)
(* its stream was marked, for any number of listeners and chunks of any    *)
(* length.                                                                 *)

\* What the queue holds.
Items == [chunk : Nat, bytes : Nat]

\* Types; which chunk is next and how many bytes wait are numbers without a bound.
PcmTyped ==
  /\ recording \in {"active", "completed", "ended"}
  /\ producer \in {"idle", "stream", "full", "over", "broken"}
  /\ consumer \in {"on", "over"} /\ waiting \in {0} \cup Widths
  /\ pending \in Seq(Items) /\ pendingBytes \in 0 .. Budget
  /\ sent \in Nat /\ written \in Seq(Nat) /\ closed \in BOOLEAN
  /\ fed \in [Listeners -> Seq(Nat)] /\ heard \in [Listeners -> Seq(Nat)]
  /\ joined \in [Listeners -> Nat] /\ replay \in Seq(Nat)
  /\ listener \in [Listeners -> {"away", "reading", "done"}]
  /\ subscribers \subseteq Listeners

\* The writer has what was sent, up to what is pending.
FileHolds ==
  /\ producer \in {"idle", "stream", "full"} =>
       /\ consumer = "on" /\ Len(written) + Len(pending) = sent
       /\ \A k \in 1 .. Len(pending) : pending[k].chunk = Len(written) + k
  /\ producer = "over" /\ consumer = "on" =>
       /\ Len(written) + Len(pending) = sent + 1
       /\ \A k \in 1 .. Len(pending) :
            pending[k].chunk = IF k = Len(pending) THEN End ELSE Len(written) + k
  /\ producer = "over" /\ consumer = "over" => Len(written) = sent
  /\ producer # "broken" => \A k \in 1 .. Len(written) : written[k] = k

\* A job that is over sends no more, and one that is closed has no subscribers.
JobStands ==
  /\ recording = "completed" => producer = "over" /\ consumer = "over"
  /\ recording = "ended" => producer = "broken"
  /\ producer = "full" => waiting \in Widths
  /\ closed => recording # "active" /\ subscribers = {}

\* Fills, with places that never go back.
Laid(items, n) ==
  \E start \in [1 .. Len(items) + 1 -> Nat] :
    /\ start[1] = 0 /\ start[Len(items) + 1] = n
    /\ \A k \in 1 .. Len(items) : start[k + 1] = start[k] + items[k].bytes
    /\ \A j, k \in 1 .. Len(items) + 1 : j <= k => start[j] <= start[k]

\* The chunks of a listener's queue, and how far they reach.
HasEnd(c)  == fed[c] # <<>> /\ fed[c][Len(fed[c])] = End
\* How far a listener is: what is fed to it and what it has heard, from where it joined.
Ahead(c)   == IF HasEnd(c) THEN Len(fed[c]) - 1 ELSE Len(fed[c])
Place(c)   == joined[c] + Len(heard[c])
Reached(c) == Place(c) + Ahead(c)

\* What it heard and what is fed to it are the chunks in their order.
InLine(c) ==
  /\ \A k \in 1 .. Len(heard[c]) : heard[c][k] = joined[c] + k
  /\ \A k \in 1 .. Ahead(c) : fed[c][k] = Place(c) + k

\* The listeners whose stream was ended for them.
Marked == satisfied \cup slow \cup terminated

\* Where a listener is, at each stage.
ListenerStands(c) ==
  /\ listener[c] = "away" => fed[c] = <<>> /\ heard[c] = <<>> /\ c \notin Marked
  /\ c \in subscribers =>
       listener[c] = "reading" /\ ~HasEnd(c) /\ Reached(c) = sent /\ c \notin Marked
  /\ listener[c] = "reading" \/ c \in satisfied =>
       /\ InLine(c) /\ Reached(c) <= sent
       /\ c \notin subscribers \cup slow => Reached(c) = sent /\ closed
  /\ c \in satisfied => listener[c] = "done" /\ fed[c] = <<>>

\* The inductive invariant.
PcmInv ==
  /\ PcmTyped /\ FileHolds /\ JobStands /\ Laid(pending, pendingBytes)
  /\ \A c \in Listeners : ListenerStands(c)

USE PcmAssumption DEF End

(* A queued item has a chunk and a length.                                 *)
LEMMA ItemFields == \A item \in Items : item.chunk \in Nat /\ item.bytes \in Nat
  BY DEF Items

(* Nothing is produced, and nobody listens.                                *)
LEMMA InitPcm == PcmInit => PcmInv
<1> SUFFICES ASSUME PcmInit PROVE PcmInv
  OBVIOUS
<1>1. PcmTyped
  <2>1. /\ <<>> \in Seq(Nat) /\ <<>> \in Seq(Items) /\ 0 \in 0 .. Budget
    OBVIOUS
  <2>2. /\ fed \in [Listeners -> Seq(Nat)] /\ heard \in [Listeners -> Seq(Nat)]
        /\ joined \in [Listeners -> Nat]
        /\ listener \in [Listeners -> {"away", "reading", "done"}]
    BY <2>1 DEF PcmInit
  <2> QED
    BY <2>1, <2>2 DEF PcmInit, PcmTyped
<1>2. FileHolds /\ JobStands
  BY DEF PcmInit, FileHolds, JobStands
<1>3. Laid(pending, pendingBytes)
  <2>1. Len(pending) = 0 /\ pendingBytes = 0
    BY DEF PcmInit
  <2> DEFINE start == [k \in 1 .. 1 |-> 0]
  <2>2. start \in [1 .. Len(pending) + 1 -> Nat] /\ start[1] = 0 /\ Len(pending) + 1 = 1
    BY <2>1
  <2>3. \A j, k \in 1 .. Len(pending) + 1 : start[j] <= start[k]
    BY <2>2
  <2> HIDE DEF start
  <2> QED
    BY <2>1, <2>2, <2>3 DEF Laid
<1>4. ASSUME NEW c \in Listeners PROVE ListenerStands(c)
  BY DEF PcmInit, ListenerStands, Marked
<1> QED
  BY <1>1, <1>2, <1>3, <1>4 DEF PcmInv

\* The counter of the queue stays the sum of its items when one is put or taken.
LEMMA PutIsCounted ==
  ASSUME NEW s \in Seq(Items), NEW n \in Nat, Laid(s, n), NEW item \in Items
  PROVE  Laid(Append(s, item), n + item.bytes)
<1>1. PICK start \in [1 .. Len(s) + 1 -> Nat] :
        /\ start[1] = 0 /\ start[Len(s) + 1] = n
        /\ \A k \in 1 .. Len(s) : start[k + 1] = start[k] + s[k].bytes
        /\ \A j, k \in 1 .. Len(s) + 1 : j <= k => start[j] <= start[k]
  BY DEF Laid
<1> DEFINE all == Append(s, item)
           end == n + item.bytes
           next == [k \in 1 .. Len(s) + 2 |-> IF k = Len(s) + 2 THEN end ELSE start[k]]
<1>2. /\ all \in Seq(Items) /\ Len(all) = Len(s) + 1 /\ all[Len(s) + 1] = item
      /\ \A k \in 1 .. Len(s) : all[k] = s[k]
  BY AppendProperties
<1>3. Len(s) \in Nat /\ item.bytes \in Nat /\ end \in Nat /\ end >= n
  BY ItemFields
<1>4. \A k \in 1 .. Len(s) + 1 : start[k] \in Nat /\ start[k] <= n
  <2> SUFFICES ASSUME NEW k \in 1 .. Len(s) + 1 PROVE start[k] \in Nat /\ start[k] <= n
    OBVIOUS
  <2>1. Len(s) + 1 \in 1 .. Len(s) + 1 /\ k <= Len(s) + 1
    BY <1>3
  <2> QED
    BY <1>1, <2>1
<1>5. /\ next \in [1 .. Len(s) + 2 -> Nat] /\ next[Len(s) + 2] = end
      /\ \A k \in 1 .. Len(s) + 1 : next[k] = start[k]
  <2>1. \A k \in 1 .. Len(s) + 2 : k = Len(s) + 2 \/ k \in 1 .. Len(s) + 1
    BY <1>3
  <2>2. \A k \in 1 .. Len(s) + 1 : k \in 1 .. Len(s) + 2 /\ k # Len(s) + 2
    BY <1>3
  <2>3. Len(s) + 2 \in 1 .. Len(s) + 2
    BY <1>3
  <2> HIDE DEF end
  <2> QED
    BY <1>3, <1>4, <2>1, <2>2, <2>3
<1>6. end = start[Len(s) + 1] + item.bytes
  BY <1>1
<1> HIDE DEF all, next, end
<1>7. next[1] = 0 /\ Len(all) + 1 = Len(s) + 2
  <2>1. 1 \in 1 .. Len(s) + 1
    BY <1>3
  <2> QED
    BY <1>1, <1>2, <1>3, <1>5, <2>1
<1>8. ASSUME NEW k \in 1 .. Len(all) PROVE next[k + 1] = next[k] + all[k].bytes
  <2>1. CASE k = Len(s) + 1
    <3>1. k + 1 = Len(s) + 2 /\ k \in 1 .. Len(s) + 1
      BY <1>3, <2>1
    <3> QED
      BY <1>2, <1>5, <1>6, <2>1, <3>1
  <2>2. CASE k \in 1 .. Len(s)
    <3>1. k \in 1 .. Len(s) + 1 /\ k + 1 \in 1 .. Len(s) + 1
      BY <1>3, <2>2
    <3> QED
      BY <1>1, <1>2, <1>5, <2>2, <3>1
  <2> QED
    BY <1>2, <1>3, <2>1, <2>2
<1>9. ASSUME NEW j \in 1 .. Len(all) + 1, NEW k \in 1 .. Len(all) + 1, j <= k
      PROVE  next[j] <= next[k]
  <2>1. CASE j = Len(s) + 2
    <3>1. k = j
      BY <1>3, <1>7, <1>9, <2>1
    <3> QED
      BY <1>3, <1>5, <2>1, <3>1
  <2>2. CASE j \in 1 .. Len(s) + 1 /\ k = Len(s) + 2
    <3>1. next[j] = start[j] /\ next[k] = end /\ start[j] \in Nat /\ start[j] <= n
      BY <1>4, <1>5, <2>2
    <3> QED
      BY <1>3, <3>1
  <2>3. CASE j \in 1 .. Len(s) + 1 /\ k \in 1 .. Len(s) + 1
    BY <1>1, <1>5, <1>9, <2>3
  <2> QED
    BY <1>3, <1>7, <2>1, <2>2, <2>3
<1>10. next \in [1 .. Len(all) + 1 -> Nat] /\ next[Len(all) + 1] = end
  BY <1>5, <1>7
<1>11. Laid(all, end)
  BY <1>7, <1>8, <1>9, <1>10 DEF Laid
<1> QED
  BY <1>11 DEF all, end

(* Taking the first item of the queue takes its bytes off the count.       *)
LEMMA GetIsCounted ==
  ASSUME NEW s \in Seq(Items), NEW n \in Nat, Laid(s, n), s # <<>>
  PROVE  n - Head(s).bytes \in 0 .. n /\ Laid(Tail(s), n - Head(s).bytes)
<1>1. PICK start \in [1 .. Len(s) + 1 -> Nat] :
        /\ start[1] = 0 /\ start[Len(s) + 1] = n
        /\ \A k \in 1 .. Len(s) : start[k + 1] = start[k] + s[k].bytes
        /\ \A j, k \in 1 .. Len(s) + 1 : j <= k => start[j] <= start[k]
  BY DEF Laid
<1> DEFINE rest == Tail(s)
           first == s[1].bytes
           next == [k \in 1 .. Len(s) |-> start[k + 1] - first]
<1>2. /\ rest \in Seq(Items) /\ Len(rest) = Len(s) - 1 /\ Head(s) = s[1] /\ Len(s) \in Nat
      /\ Len(s) >= 1 /\ \A k \in 1 .. Len(s) - 1 : rest[k] = s[k + 1]
  <2>1. Len(s) \in Nat /\ Len(s) >= 1 /\ Head(s) = s[1]
    OBVIOUS
  <2> QED
    BY <2>1, HeadTailProperties
<1>3. start[2] = first /\ first \in Nat /\ \A k \in 1 .. Len(s) : s[k].bytes \in Nat
  <2>1. 1 \in 1 .. Len(s) /\ \A k \in 1 .. Len(s) : s[k] \in Items
    BY <1>2
  <2>2. \A k \in 1 .. Len(s) : s[k].bytes \in Nat
    BY <2>1, ItemFields
  <2>3. start[1 + 1] = start[1] + s[1].bytes
    BY <1>1, <2>1
  <2> QED
    BY <1>1, <2>1, <2>2, <2>3
<1>4. \A k \in 1 .. Len(s) : start[k + 1] \in Nat /\ first <= start[k + 1]
  <2> SUFFICES ASSUME NEW k \in 1 .. Len(s) PROVE start[k + 1] \in Nat /\ first <= start[k + 1]
    OBVIOUS
  <2>1. k + 1 \in 1 .. Len(s) + 1 /\ 2 \in 1 .. Len(s) + 1 /\ 2 <= k + 1
    BY <1>2
  <2> QED
    BY <1>1, <1>3, <2>1
<1>5. n \in Nat /\ first <= n
  <2>1. Len(s) \in 1 .. Len(s)
    BY <1>2
  <2> QED
    BY <1>1, <1>4, <2>1
<1>6. next \in [1 .. Len(s) -> Nat] /\ \A k \in 1 .. Len(s) : next[k] = start[k + 1] - first
  <2>1. \A k \in 1 .. Len(s) : start[k + 1] - first \in Nat
    BY <1>3, <1>4
  <2> QED
    BY <2>1
<1> HIDE DEF rest, next, first
<1>7. /\ Len(rest) + 1 = Len(s) /\ next[1] = 0 /\ next[Len(s)] = n - first
  <2>1. 1 \in 1 .. Len(s) /\ Len(s) \in 1 .. Len(s)
    BY <1>2
  <2> QED
    BY SMTT(30), <1>1, <1>2, <1>3, <1>6, <2>1
<1>8. ASSUME NEW k \in 1 .. Len(rest) PROVE next[k + 1] = next[k] + rest[k].bytes
  <2>1. k + 1 \in 1 .. Len(s) /\ k \in 1 .. Len(s) /\ k \in 1 .. Len(s) - 1
    BY <1>2
  <2>2. next[k + 1] = start[k + 1 + 1] - first /\ next[k] = start[k + 1] - first
    BY <1>6, <2>1
  <2>3. start[k + 1 + 1] = start[k + 1] + s[k + 1].bytes /\ rest[k] = s[k + 1]
    BY <1>1, <1>2, <2>1
  <2>4. start[k + 1] \in Nat /\ s[k + 1].bytes \in Nat
    BY <1>3, <1>4, <2>1
  <2> QED
    BY <1>3, <2>2, <2>3, <2>4
<1>9. ASSUME NEW j \in 1 .. Len(rest) + 1, NEW k \in 1 .. Len(rest) + 1, j <= k
      PROVE  next[j] <= next[k]
  <2>1. j \in 1 .. Len(s) /\ k \in 1 .. Len(s)
    BY <1>7
  <2>2. j + 1 \in 1 .. Len(s) + 1 /\ k + 1 \in 1 .. Len(s) + 1 /\ j + 1 <= k + 1
    BY <1>2, <1>9, <2>1
  <2>3. start[j + 1] <= start[k + 1] /\ start[j + 1] \in Nat /\ start[k + 1] \in Nat
    BY <1>1, <2>2
  <2> QED
    BY <1>3, <1>6, <2>1, <2>3
<1>10. next \in [1 .. Len(rest) + 1 -> Nat] /\ next[Len(rest) + 1] = n - first
  BY <1>6, <1>7
<1>11. Laid(rest, n - first)
  BY <1>7, <1>8, <1>9, <1>10 DEF Laid
<1> QED
  BY <1>2, <1>3, <1>5, <1>11 DEF rest, first

(* A put that fits is counted.                                             *)
LEMMA LaidFills ==
  ASSUME NEW s \in Seq(Items), NEW n \in Nat, Laid(s, n)
  PROVE  Fills(s, n)
<1>1. PICK start \in [1 .. Len(s) + 1 -> Nat] :
        /\ start[1] = 0 /\ start[Len(s) + 1] = n
        /\ \A k \in 1 .. Len(s) : start[k + 1] = start[k] + s[k].bytes
        /\ \A j, k \in 1 .. Len(s) + 1 : j <= k => start[j] <= start[k]
  BY DEF Laid
<1>2. Len(s) \in Nat
  OBVIOUS
<1>3. ASSUME NEW k \in 1 .. Len(s) + 1 PROVE start[k] \in 0 .. n
  <2>1. Len(s) + 1 \in 1 .. Len(s) + 1 /\ k <= Len(s) + 1
    BY <1>2
  <2>2. start[k] \in Nat /\ start[k] <= n
    BY <1>1, <2>1
  <2> QED
    BY <2>2
<1>4. start \in [1 .. Len(s) + 1 -> 0 .. n]
  BY <1>1, <1>3
<1> QED
  BY <1>1, <1>4 DEF Fills

-----------------------------------------------------------------------------
\* What runs of a listener where nothing is handed out.
SameFor(c) ==
  /\ fed'[c] = fed[c] /\ heard'[c] = heard[c] /\ joined'[c] = joined[c]
  /\ listener'[c] = listener[c]
  /\ (c \in subscribers') = (c \in subscribers) /\ (c \in slow') = (c \in slow)
  /\ (c \in satisfied') = (c \in satisfied) /\ (c \in terminated' => c \in terminated)

(* What is not touched stands as before: a listener,                       *)
LEMMA LeftAlone ==
  ASSUME NEW c \in Listeners, ListenerStands(c), SameFor(c), UNCHANGED <<sent, closed>>
  PROVE  ListenerStands(c)'
  BY DEF ListenerStands, SameFor, Marked, InLine, Reached, Place, Ahead, HasEnd

(* all of the queue and the file,                                          *)
LEMMA QuietStep ==
  ASSUME PcmInv, UNCHANGED <<sent, closed, handout, clients>>
  PROVE  \A c \in Listeners : ListenerStands(c)'
<1> SUFFICES ASSUME NEW c \in Listeners PROVE ListenerStands(c)'
  OBVIOUS
<1>1. ListenerStands(c) /\ UNCHANGED <<sent, closed>>
  BY DEF PcmInv
<1>2. SameFor(c)
  BY DEF SameFor, handout, clients
<1> QED
  BY <1>1, <1>2, LeftAlone

(* or the job.                                                             *)
LEMMA JobUntouched ==
  ASSUME PcmInv, UNCHANGED <<recording, stream, closed>>
  PROVE  FileHolds' /\ Laid(pending, pendingBytes)'
  BY DEF PcmInv, FileHolds, Laid, stream

-----------------------------------------------------------------------------
\* A chunk that is put is the next one of the file and of every listener with space.
LEMMA HandOutKeepsFile ==
  ASSUME PcmInv, producer \in {"stream", "full"}, NEW w \in Widths, Room(w), HandOut(w),
         producer' = "stream", waiting' \in {0} \cup Widths
  PROVE  PcmTyped' /\ FileHolds' /\ JobStands' /\ Laid(pending, pendingBytes)'
<1> DEFINE item == [chunk |-> sent + 1, bytes |-> w]
<1>1. /\ PcmTyped /\ FileHolds /\ JobStands /\ Laid(pending, pendingBytes)
      /\ recording = "active" /\ ~closed
  BY DEF PcmInv, JobStands, PcmTyped
<1>2. /\ sent \in Nat /\ w \in Nat /\ pendingBytes \in Nat /\ item \in Items
      /\ pending \in Seq(Items)
  BY <1>1 DEF PcmTyped, Items
<1>3. pending' = Append(pending, item) /\ pendingBytes' = pendingBytes + w /\ item.bytes = w
  BY DEF HandOut
<1>4. Laid(pending, pendingBytes)'
  <2>1. Laid(Append(pending, item), pendingBytes + item.bytes)
    BY <1>1, <1>2, PutIsCounted
  <2> QED
    BY <1>3, <2>1 DEF Laid
<1>5. /\ Len(pending') = Len(pending) + 1 /\ pending'[Len(pending) + 1].chunk = sent + 1
      /\ \A k \in 1 .. Len(pending) : pending'[k] = pending[k]
      /\ pending' \in Seq(Items) /\ Len(pending) \in Nat /\ Len(written) \in Nat
  BY <1>1, <1>2, <1>3, AppendProperties DEF PcmTyped
<1>6. FileHolds'
  <2>1. /\ consumer = "on" /\ Len(written) + Len(pending) = sent
        /\ \A k \in 1 .. Len(pending) : pending[k].chunk = Len(written) + k
        /\ \A k \in 1 .. Len(written) : written[k] = k
    BY <1>1 DEF FileHolds
  <2>2. /\ written' = written /\ consumer' = consumer /\ sent' = sent + 1
    BY DEF HandOut
  <2>3. ASSUME NEW k \in 1 .. Len(pending') PROVE pending'[k].chunk = Len(written) + k
    <3>1. CASE k = Len(pending) + 1
      BY <1>2, <1>5, <2>1, <3>1
    <3>2. CASE k \in 1 .. Len(pending)
      BY <1>5, <2>1, <3>2
    <3> QED
      BY <1>5, <3>1, <3>2
  <2>4. Len(written) + Len(pending') = sent + 1
    <3>1. /\ Len(pending') = Len(pending) + 1 /\ Len(pending) \in Nat /\ Len(written) \in Nat
          /\ Len(written) + Len(pending) = sent /\ sent \in Nat
      BY <1>2, <1>5, <2>1
    <3> QED
      BY <3>1
  <2> QED
    BY <2>1, <2>2, <2>3, <2>4 DEF FileHolds
<1>7. JobStands'
  BY <1>1 DEF JobStands, HandOut
<1>8. pendingBytes' \in 0 .. Budget
  BY <1>2, <1>3 DEF Room
<1>9. replay' \in Seq(Nat)
  <2>1. Append(replay, sent + 1) \in Seq(Nat) /\ <<>> \in Seq(Nat) /\ replay \in Seq(Nat)
    BY <1>1, <1>2 DEF PcmTyped
  <2> QED
    BY <2>1 DEF HandOut, Keep
<1>10. fed' \in [Listeners -> Seq(Nat)]
  <2>1. ASSUME NEW c \in Listeners PROVE Fed(c) \in Seq(Nat) /\ fed[c] \in Seq(Nat)
    BY <1>1, <1>2 DEF PcmTyped, Fed
  <2> QED
    BY <2>1 DEF HandOut
<1>11. subscribers' \subseteq Listeners /\ sent' \in Nat
  BY <1>1, <1>2 DEF HandOut, PcmTyped
<1> QED
  BY <1>1, <1>4, <1>5, <1>6, <1>7, <1>8, <1>9, <1>10, <1>11 DEF PcmTyped, HandOut

(* A chunk that is handed out is next for every listener, or marks those   *)
(* that are too slow.                                                      *)
LEMMA HandOutReachesListeners ==
  ASSUME PcmInv, producer \in {"stream", "full"}, NEW w \in Widths, HandOut(w),
         NEW c \in Listeners
  PROVE  ListenerStands(c)'
<1>1. /\ PcmTyped /\ ListenerStands(c) /\ recording = "active" /\ ~closed
  BY DEF PcmInv, JobStands, PcmTyped
<1>2. /\ sent \in Nat /\ fed[c] \in Seq(Nat) /\ heard[c] \in Seq(Nat) /\ joined[c] \in Nat
      /\ Len(fed[c]) \in Nat /\ Len(heard[c]) \in Nat
  BY <1>1 DEF PcmTyped
<1>3. /\ sent' = sent + 1 /\ closed' = closed /\ listener' = listener /\ heard' = heard
      /\ joined' = joined /\ satisfied' = satisfied
      /\ fed'[c] = IF c \in subscribers THEN Fed(c) ELSE fed[c]
  BY DEF HandOut
<1>4. CASE c \in subscribers /\ HasSpace(c)
  <2>1. fed'[c] = Append(fed[c], sent + 1)
    BY <1>3, <1>4 DEF Fed
  <2>2. /\ Len(fed'[c]) = Len(fed[c]) + 1 /\ fed'[c][Len(fed[c]) + 1] = sent + 1
        /\ \A k \in 1 .. Len(fed[c]) : fed'[c][k] = fed[c][k]
    BY <1>2, <2>1, AppendProperties
  <2>3. ~HasEnd(c) /\ Reached(c) = sent /\ InLine(c) /\ listener[c] = "reading" /\ c \notin Marked
    BY <1>1, <1>4 DEF ListenerStands
  <2>4. ~HasEnd(c)' /\ Ahead(c) = Len(fed[c]) /\ Ahead(c)' = Len(fed[c]) + 1
    BY <1>2, <2>2, <2>3 DEF HasEnd, Ahead
  <2>5. Place(c)' = Place(c) /\ Place(c) \in Nat /\ Place(c) + Len(fed[c]) = sent
    BY <1>2, <1>3, <2>3, <2>4 DEF Place, Reached
  <2>6. Reached(c)' = sent'
    <3>1. Reached(c)' = Place(c) + (Len(fed[c]) + 1)
      BY <2>4, <2>5 DEF Reached
    <3> QED
      BY <1>2, <1>3, <2>5, <3>1
  <2>7. ASSUME NEW k \in 1 .. Len(fed[c]) + 1 PROVE fed'[c][k] = Place(c) + k
    <3>1. CASE k = Len(fed[c]) + 1
      <4>1. fed'[c][k] = sent + 1
        BY <2>2, <3>1
      <4> QED
        BY <1>2, <2>5, <3>1, <4>1
    <3>2. CASE k \in 1 .. Len(fed[c])
      BY <2>2, <2>3, <2>4, <3>2 DEF InLine
    <3>3. k = Len(fed[c]) + 1 \/ k \in 1 .. Len(fed[c])
      BY <1>2
    <3> QED
      BY <3>1, <3>2, <3>3
  <2>8. InLine(c)'
    BY <1>3, <2>3, <2>4, <2>5, <2>7 DEF InLine
  <2>9. c \in subscribers' /\ c \notin Marked'
    BY <1>4, <2>3 DEF HandOut, Overflowing, Marked
  <2>10. sent' \in Nat /\ c \notin satisfied'
    BY <1>2, <1>3, <2>9 DEF Marked
  <2> QED
    BY <1>3, <2>3, <2>4, <2>8, <2>9, <2>10, <2>6 DEF ListenerStands
<1>5. CASE ~(c \in subscribers /\ HasSpace(c))
  <2>1. fed'[c] = fed[c] /\ c \notin subscribers'
    BY <1>3, <1>5 DEF Fed, HandOut, Overflowing
  <2>2. /\ InLine(c)' = InLine(c) /\ Reached(c)' = Reached(c)
    BY <1>3, <2>1 DEF InLine, Reached, Place, Ahead, HasEnd
  <2>3. Reached(c) \in Int
    BY <1>2, SMTT(30) DEF Reached, Place, Ahead
  <2>4. /\ c \in slow => c \in slow'
        /\ c \in subscribers => c \in slow' /\ listener[c] # "away"
        /\ c \notin subscribers => (c \in Marked' <=> c \in Marked)
    BY <1>1, <1>5 DEF HandOut, Overflowing, Marked, ListenerStands
  <2>5. listener'[c] = "reading" \/ c \in satisfied' =>
          /\ InLine(c)' /\ Reached(c)' <= sent' /\ c \in slow'
    BY <1>1, <1>2, <1>3, <2>2, <2>3, <2>4 DEF ListenerStands
  <2> QED
    BY <1>1, <1>3, <2>1, <2>4, <2>5 DEF ListenerStands
<1> QED
  BY <1>4, <1>5

(* So a listener stands after it as before.                                *)
LEMMA HandOutKeeps ==
  ASSUME PcmInv, producer \in {"stream", "full"}, NEW w \in Widths, Room(w), HandOut(w),
         producer' = "stream", waiting' \in {0} \cup Widths
  PROVE  PcmInv'
  BY HandOutKeepsFile, HandOutReachesListeners DEF PcmInv

-----------------------------------------------------------------------------
(* Each action keeps the invariant.                                        *)
LEMMA BeginKeeps == ASSUME PcmInv, Begin PROVE PcmInv'
<1>1. PcmTyped' /\ FileHolds' /\ JobStands' /\ Laid(pending, pendingBytes)'
  BY DEF PcmInv, PcmTyped, FileHolds, JobStands, Laid, Begin, handout, clients
<1>2. \A c \in Listeners : ListenerStands(c)'
  BY QuietStep DEF Begin
<1> QED
  BY <1>1, <1>2 DEF PcmInv

LEMMA ChunkKeeps == ASSUME PcmInv, NEW w \in Widths, Chunk(w) PROVE PcmInv'
<1>1. CASE Room(w) /\ HandOut(w) /\ UNCHANGED <<producer, waiting>>
  <2>1. producer \in {"stream", "full"} /\ producer' = "stream" /\ waiting' \in {0} \cup Widths
    BY <1>1 DEF Chunk, PcmInv, PcmTyped
  <2> QED
    BY <1>1, <2>1, HandOutKeeps
<1>2. CASE ~Room(w) /\ producer' = "full" /\ waiting' = w
           /\ UNCHANGED <<recording, keep, consumer, pending, pendingBytes, sent, written, closed,
                          handout, clients>>
  <2>1. PcmTyped' /\ FileHolds' /\ JobStands' /\ Laid(pending, pendingBytes)'
    BY <1>2 DEF PcmInv, PcmTyped, FileHolds, JobStands, Laid, Chunk, handout, clients
  <2>2. \A c \in Listeners : ListenerStands(c)'
    BY <1>2, QuietStep
  <2> QED
    BY <2>1, <2>2 DEF PcmInv
<1> QED
  BY <1>1, <1>2 DEF Chunk

LEMMA PutResumesKeeps == ASSUME PcmInv, PutResumes PROVE PcmInv'
<1>1. waiting \in Widths
  BY DEF PcmInv, JobStands, PutResumes
<1> QED
  BY <1>1, HandOutKeeps DEF PutResumes

LEMMA StreamEndsKeeps == ASSUME PcmInv, StreamEnds PROVE PcmInv'
<1> DEFINE item == [chunk |-> 0, bytes |-> 0]
<1>1. /\ PcmTyped /\ FileHolds /\ JobStands /\ Laid(pending, pendingBytes)
      /\ pending' = Append(pending, item) /\ item \in Items /\ item.bytes = 0
      /\ pendingBytes \in Nat /\ pending \in Seq(Items) /\ written \in Seq(Nat) /\ sent \in Nat
      /\ UNCHANGED <<recording, keep, waiting, consumer, pendingBytes, sent, written, closed,
                     handout, clients>>
  BY DEF PcmInv, PcmTyped, StreamEnds, Items
<1>2. Laid(pending, pendingBytes)'
  <2>1. Laid(Append(pending, item), pendingBytes + 0)
    BY <1>1, PutIsCounted
  <2>2. pendingBytes + 0 = pendingBytes
    BY <1>1
  <2> QED
    BY <1>1, <2>1, <2>2 DEF Laid
<1>3. /\ Len(pending') = Len(pending) + 1 /\ pending'[Len(pending) + 1].chunk = 0
      /\ \A k \in 1 .. Len(pending) : pending'[k] = pending[k]
      /\ pending' \in Seq(Items) /\ Len(pending) \in Nat /\ Len(written) \in Nat
  BY <1>1, AppendProperties
<1> HIDE DEF item
<1>4. FileHolds'
  <2>1. /\ consumer = "on" /\ Len(written) + Len(pending) = sent
        /\ \A k \in 1 .. Len(pending) : pending[k].chunk = Len(written) + k
        /\ \A k \in 1 .. Len(written) : written[k] = k
    BY <1>1 DEF FileHolds, StreamEnds
  <2>2. Len(written) + Len(pending') = sent + 1
    <3>1. /\ Len(pending') = Len(pending) + 1 /\ Len(pending) \in Nat /\ Len(written) \in Nat
          /\ Len(written) + Len(pending) = sent
      BY <1>3, <2>1
    <3> QED
      BY <3>1
  <2>3. ASSUME NEW k \in 1 .. Len(pending')
        PROVE  pending'[k].chunk = IF k = Len(pending') THEN 0 ELSE Len(written) + k
    <3>1. k = Len(pending') \/ (k \in 1 .. Len(pending) /\ k # Len(pending'))
      BY <1>3
    <3> QED
      BY <1>3, <2>1, <3>1
  <2>4. producer' = "over" /\ written' = written /\ sent' = sent /\ consumer' = consumer
    BY <1>1 DEF StreamEnds
  <2> QED
    BY <2>1, <2>2, <2>3, <2>4 DEF FileHolds
<1>5. JobStands' /\ PcmTyped'
  BY <1>1, <1>3 DEF JobStands, PcmTyped, StreamEnds, handout, clients
<1>6. \A c \in Listeners : ListenerStands(c)'
  BY <1>1, QuietStep
<1> QED
  BY <1>2, <1>4, <1>5, <1>6 DEF PcmInv

(* A chunk is written to the file before it is handed out.                 *)
LEMMA ConsumeKeeps == ASSUME PcmInv, Consume PROVE PcmInv'
<1>1. /\ PcmTyped /\ FileHolds /\ JobStands /\ Laid(pending, pendingBytes)
      /\ pending # <<>> /\ consumer = "on" /\ pending' = Tail(pending)
      /\ pendingBytes' = pendingBytes - Head(pending).bytes
      /\ pendingBytes \in Nat /\ pendingBytes <= Budget
      /\ pending \in Seq(Items) /\ written \in Seq(Nat) /\ sent \in Nat
      /\ UNCHANGED <<recording, keep, producer, waiting, sent, closed, handout, clients>>
  BY DEF PcmInv, PcmTyped, Consume
<1>2. Laid(pending, pendingBytes)' /\ pendingBytes' \in 0 .. Budget
  <2>1. /\ pendingBytes - Head(pending).bytes \in 0 .. pendingBytes
        /\ Laid(Tail(pending), pendingBytes - Head(pending).bytes)
    BY <1>1, GetIsCounted
  <2>2. pendingBytes' \in 0 .. Budget
    BY <1>1, <2>1
  <2> QED
    BY <1>1, <2>1, <2>2 DEF Laid
<1>3. /\ Len(pending) \in Nat /\ Len(pending) >= 1 /\ Head(pending) = pending[1]
      /\ Head(pending) \in Items /\ Len(written) \in Nat
  BY <1>1
<1>4. /\ pending' \in Seq(Items) /\ Len(pending') = Len(pending) - 1
      /\ \A k \in 1 .. Len(pending) - 1 : pending'[k] = pending[k + 1]
  BY <1>1, HeadTailProperties
<1>5. Head(pending).chunk \in Nat
  BY <1>3, ItemFields
<1> DEFINE n == Head(pending).chunk
<1>6. FileHolds' /\ written' \in Seq(Nat)
  <2>1. CASE n = 0
    <3>1. consumer' = "over" /\ written' = written
      BY <2>1 DEF Consume
    <3>2. producer \notin {"idle", "stream", "full"}
      BY <1>1, <1>3, <2>1 DEF FileHolds
    <3>3. CASE producer = "over"
      <4>1. /\ Len(written) + Len(pending) = sent + 1
            /\ pending[1].chunk = IF 1 = Len(pending) THEN 0 ELSE Len(written) + 1
        <5>1. 1 \in 1 .. Len(pending)
          BY <1>3
        <5> QED
          BY <1>1, <3>3, <5>1 DEF FileHolds
      <4>2. Len(pending) = 1 /\ Len(written) = sent
        BY SMTT(30), <1>1, <1>3, <2>1, <4>1
      <4> QED
        BY <1>1, <3>1, <3>3, <4>2 DEF FileHolds
    <3>4. CASE producer = "broken"
      BY <1>1, <3>1, <3>4 DEF FileHolds
    <3> QED
      BY <1>1, <3>1, <3>2, <3>3, <3>4 DEF PcmTyped
  <2>2. CASE n # 0
    <3>1. consumer' = "on" /\ written' = Append(written, n)
      BY <1>1, <2>2 DEF Consume
    <3>2. /\ written' \in Seq(Nat) /\ Len(written') = Len(written) + 1
          /\ written'[Len(written) + 1] = n
          /\ \A k \in 1 .. Len(written) : written'[k] = written[k]
      BY <1>1, <1>5, <3>1, AppendProperties
    <3>3. \A k \in 1 .. Len(written') : k = Len(written) + 1 \/ k \in 1 .. Len(written)
      BY <1>3, <3>2
    <3>4. \A k \in 1 .. Len(pending') : k \in 1 .. Len(pending) - 1 /\ k + 1 \in 1 .. Len(pending)
      BY <1>3, <1>4
    <3>5. CASE producer \in {"idle", "stream", "full"}
      <4>1. /\ Len(written) + Len(pending) = sent
            /\ \A k \in 1 .. Len(pending) : pending[k].chunk = Len(written) + k
            /\ \A k \in 1 .. Len(written) : written[k] = k
        BY <1>1, <3>5 DEF FileHolds
      <4>2. n = Len(written) + 1
        BY <1>3, <4>1
      <4>3. \A k \in 1 .. Len(written') : written'[k] = k
        BY <3>2, <3>3, <4>1, <4>2
      <4>4. Len(written') + Len(pending') = sent
        <5>1. /\ Len(written') = Len(written) + 1 /\ Len(pending') = Len(pending) - 1
              /\ Len(written) \in Nat /\ Len(pending) \in Nat /\ Len(written) + Len(pending) = sent
          BY <1>3, <1>4, <3>2, <4>1
        <5> QED
          BY <5>1
      <4>5. ASSUME NEW k \in 1 .. Len(pending') PROVE pending'[k].chunk = Len(written') + k
        <5>1. pending'[k].chunk = Len(written) + (k + 1)
          BY <1>4, <3>4, <4>1
        <5> QED
          BY <1>3, <3>2, <5>1
      <4> QED
        BY <1>1, <3>1, <3>5, <4>3, <4>4, <4>5, SMTT(30) DEF FileHolds
    <3>6. CASE producer = "over"
      <4>1. /\ Len(written) + Len(pending) = sent + 1
            /\ \A k \in 1 .. Len(pending) :
                 pending[k].chunk = IF k = Len(pending) THEN 0 ELSE Len(written) + k
            /\ \A k \in 1 .. Len(written) : written[k] = k
        BY <1>1, <3>6 DEF FileHolds
      <4>2. n = Len(written) + 1
        BY <1>3, <2>2, <4>1
      <4>3. \A k \in 1 .. Len(written') : written'[k] = k
        BY <3>2, <3>3, <4>1, <4>2
      <4>4. Len(written') + Len(pending') = sent + 1
        <5>1. /\ Len(written') = Len(written) + 1 /\ Len(pending') = Len(pending) - 1
              /\ Len(written) \in Nat /\ Len(pending) \in Nat
              /\ Len(written) + Len(pending) = sent + 1
          BY <1>3, <1>4, <3>2, <4>1
        <5> QED
          BY <5>1
      <4>5. ASSUME NEW k \in 1 .. Len(pending')
            PROVE  pending'[k].chunk = IF k = Len(pending') THEN 0 ELSE Len(written') + k
        <5>1. pending'[k].chunk = IF k + 1 = Len(pending) THEN 0 ELSE Len(written) + (k + 1)
          BY <1>4, <3>4, <4>1
        <5>2. (k + 1 = Len(pending)) = (k = Len(pending'))
          BY <1>3, <1>4
        <5> QED
          BY <1>3, <3>2, <5>1, <5>2
      <4> QED
        BY <1>1, <3>1, <3>6, <4>3, <4>4, <4>5, SMTT(30) DEF FileHolds
    <3>7. CASE producer = "broken"
      <4>1. producer' = "broken"
        BY <1>1, <3>7
      <4> QED
        BY <3>2, <4>1 DEF FileHolds
    <3> QED
      BY <1>1, <3>2, <3>5, <3>6, <3>7 DEF PcmTyped
  <2> QED
    BY <1>1, <2>1, <2>2 DEF PcmTyped
<1>7. JobStands'
  BY <1>1 DEF JobStands, handout, PcmTyped
<1>8. PcmTyped'
  BY <1>1, <1>2, <1>4, <1>6 DEF PcmTyped, Consume, handout, clients
<1>9. \A c \in Listeners : ListenerStands(c)'
  BY <1>1, QuietStep
<1> QED
  BY <1>2, <1>6, <1>7, <1>8, <1>9 DEF PcmInv

LEMMA BreakKeeps == ASSUME PcmInv, Break PROVE PcmInv'
<1>1. Laid(<<>>, 0)
  <2> DEFINE start == [k \in 1 .. 1 |-> 0]
  <2>1. Len(<<>>) = 0 /\ start \in [1 .. 1 -> Nat] /\ start[1] = 0 /\ 1 .. 0 = {}
    OBVIOUS
  <2>2. \A j, k \in 1 .. 1 : start[j] <= start[k]
    OBVIOUS
  <2> HIDE DEF start
  <2> QED
    BY <2>1, <2>2 DEF Laid
<1>2. Laid(pending, pendingBytes)'
  BY <1>1 DEF Laid, Break
<1>3. PcmTyped' /\ FileHolds' /\ JobStands'
  BY DEF PcmInv, PcmTyped, FileHolds, JobStands, Break, handout, clients
<1>4. \A c \in Listeners : ListenerStands(c)'
  BY QuietStep DEF Break
<1> QED
  BY <1>2, <1>3, <1>4 DEF PcmInv

LEMMA CompleteKeeps == ASSUME PcmInv, Complete PROVE PcmInv'
<1>1. PcmTyped' /\ FileHolds' /\ JobStands' /\ Laid(pending, pendingBytes)'
  BY DEF PcmInv, PcmTyped, FileHolds, JobStands, Laid, Complete, stream, handout, clients
<1>2. \A c \in Listeners : ListenerStands(c)'
  BY QuietStep DEF Complete, stream
<1> QED
  BY <1>1, <1>2 DEF PcmInv

LEMMA CancelQueuedKeeps == ASSUME PcmInv, CancelQueued PROVE PcmInv'
<1>1. PcmTyped' /\ FileHolds' /\ JobStands' /\ Laid(pending, pendingBytes)'
  BY DEF PcmInv, PcmTyped, FileHolds, JobStands, Laid, CancelQueued, handout, clients
<1>2. \A c \in Listeners : ListenerStands(c)'
  BY QuietStep DEF CancelQueued
<1> QED
  BY <1>1, <1>2 DEF PcmInv

LEMMA CloseKeeps == ASSUME PcmInv, Close PROVE PcmInv'
<1>1. /\ PcmTyped /\ JobStands
      /\ closed' = TRUE /\ subscribers' = {} /\ terminated' = terminated \cup subscribers
      /\ UNCHANGED <<stream, clients>>
      /\ fed' = [c \in Listeners |->
                   IF c \in subscribers /\ HasSpace(c) THEN Append(fed[c], 0) ELSE fed[c]]
  BY DEF PcmInv, Close, Remaining
<1>2. Laid(pending, pendingBytes)' /\ FileHolds'
  BY DEF PcmInv, FileHolds, Laid, Close, stream
<1>3. JobStands'
  BY DEF PcmInv, PcmTyped, JobStands, Close, stream
<1>4. PcmTyped'
  <2>1. replay' \in Seq(Nat)
    <3>1. <<>> \in Seq(Nat) /\ replay \in Seq(Nat)
      BY <1>1 DEF PcmTyped
    <3> QED
      BY <3>1 DEF Close
  <2>2. fed' \in [Listeners -> Seq(Nat)]
    <3>1. \A c \in Listeners : fed[c] \in Seq(Nat) /\ Append(fed[c], 0) \in Seq(Nat)
      BY <1>1 DEF PcmTyped
    <3> QED
      BY <1>1, <3>1
  <2>3. recording' \in {"active", "completed", "ended"}
    BY DEF Close
  <2> QED
    BY <1>1, <2>1, <2>2, <2>3 DEF PcmTyped, stream, clients
<1>5. ASSUME NEW c \in Listeners PROVE ListenerStands(c)'
  <2>1. /\ ListenerStands(c) /\ fed[c] \in Seq(Nat) /\ Len(fed[c]) \in Nat /\ sent \in Nat
        /\ sent' = sent /\ listener' = listener /\ heard' = heard /\ joined' = joined
        /\ slow' = slow /\ satisfied' = satisfied
        /\ heard[c] \in Seq(Nat) /\ Len(heard[c]) \in Nat /\ joined[c] \in Nat
    BY <1>1 DEF PcmInv, PcmTyped, stream, clients
  <2>2. CASE c \in subscribers /\ HasSpace(c)
    <3>1. fed'[c] = Append(fed[c], 0)
      BY <1>1, <2>2
    <3>2. /\ Len(fed'[c]) = Len(fed[c]) + 1 /\ fed'[c][Len(fed[c]) + 1] = 0
          /\ \A k \in 1 .. Len(fed[c]) : fed'[c][k] = fed[c][k]
      BY <2>1, <3>1, AppendProperties
    <3>3. ~HasEnd(c) /\ Reached(c) = sent /\ InLine(c) /\ listener[c] = "reading" /\ c \notin Marked
      BY <2>1, <2>2 DEF ListenerStands
    <3>4. Ahead(c) = Len(fed[c]) /\ Ahead(c)' = Len(fed[c])
      <4>1. HasEnd(c)'
        BY <2>1, <3>2 DEF HasEnd
      <4> QED
        BY <2>1, <3>2, <3>3, <4>1 DEF Ahead
    <3>5. Place(c)' = Place(c) /\ Reached(c)' = Reached(c)
      BY <2>1, <3>4 DEF Place, Reached
    <3>6. InLine(c)'
      BY <2>1, <3>2, <3>3, <3>4, <3>5 DEF InLine
    <3> QED
      BY <1>1, <2>1, <3>3, <3>5, <3>6 DEF ListenerStands, Marked
  <2>3. CASE ~(c \in subscribers /\ HasSpace(c))
    <3>1. fed'[c] = fed[c]
      BY <1>1, <2>3
    <3>2. InLine(c)' = InLine(c) /\ Reached(c)' = Reached(c)
      BY <2>1, <3>1 DEF InLine, Reached, Place, Ahead, HasEnd
    <3> QED
      BY <1>1, <2>1, <3>1, <3>2 DEF ListenerStands, Marked
  <2> QED
    BY <2>2, <2>3
<1> QED
  BY <1>2, <1>3, <1>4, <1>5 DEF PcmInv

-----------------------------------------------------------------------------
(* A listener joins behind what is written.                                *)
LEMMA SubscribeKeeps == ASSUME PcmInv, NEW c \in Listeners, Subscribe(c) PROVE PcmInv'
<1>1. /\ PcmTyped /\ JobStands /\ ListenerStands(c) /\ listener[c] = "away"
      /\ UNCHANGED <<recording, stream, closed, terminated, fed, slow, satisfied>>
  BY DEF PcmInv, Subscribe
<1>2. FileHolds' /\ Laid(pending, pendingBytes)'
  BY <1>1, JobUntouched
<1>3. sent' = sent /\ sent \in Nat /\ closed' = closed
  BY <1>1 DEF stream, PcmTyped
<1>4. fed[c] = <<>> /\ heard[c] = <<>> /\ c \notin Marked /\ c \notin subscribers
  BY <1>1 DEF ListenerStands
<1>5. CASE /\ recording = "active"
           /\ listener' = [listener EXCEPT ![c] = "reading"]
           /\ subscribers' = subscribers \cup {c}
           /\ joined' = [joined EXCEPT ![c] = sent]
           /\ UNCHANGED <<replay, replaySize, disabled, heard>>
  <2>1. PcmTyped' /\ JobStands'
    BY <1>1, <1>3, <1>5 DEF PcmTyped, JobStands, stream
  <2>2. ListenerStands(c)'
    <3>1. /\ fed'[c] = <<>> /\ heard'[c] = <<>> /\ joined'[c] = sent /\ listener'[c] = "reading"
          /\ c \in subscribers' /\ c \notin Marked' /\ Len(<<>>) = 0
      BY <1>1, <1>4, <1>5 DEF PcmTyped, Marked
    <3>2. ~HasEnd(c)' /\ Ahead(c)' = 0 /\ Place(c)' = sent /\ Reached(c)' = sent
      BY <1>3, <3>1 DEF HasEnd, Ahead, Place, Reached
    <3>3. InLine(c)'
      BY <3>1, <3>2 DEF InLine
    <3> QED
      BY <1>3, <3>1, <3>2, <3>3 DEF ListenerStands, Marked
  <2>3. ASSUME NEW d \in Listeners \ {c} PROVE ListenerStands(d)'
    <3>1. SameFor(d)
      BY <1>1, <1>5 DEF SameFor, PcmTyped
    <3> QED
      BY <1>3, <3>1, LeftAlone DEF PcmInv
  <2> QED
    BY <1>2, <2>1, <2>2, <2>3 DEF PcmInv
<1>6. CASE /\ recording # "active"
           /\ listener' = [listener EXCEPT ![c] = "done"]
           /\ heard' = [heard EXCEPT ![c] = replay]
           /\ replay' = <<>> /\ replaySize' = 0 /\ disabled' = FALSE
           /\ UNCHANGED <<subscribers, joined>>
  <2>1. PcmTyped' /\ JobStands'
    <3>1. replay \in Seq(Nat) /\ <<>> \in Seq(Nat)
      BY <1>1 DEF PcmTyped
    <3>2. heard' \in [Listeners -> Seq(Nat)] /\ replay' \in Seq(Nat)
      BY <1>1, <1>6, <3>1 DEF PcmTyped
    <3>3. listener' \in [Listeners -> {"away", "reading", "done"}]
      BY <1>1, <1>6 DEF PcmTyped
    <3> QED
      BY <1>1, <1>6, <3>2, <3>3 DEF PcmTyped, JobStands, stream
  <2>2. ListenerStands(c)'
    <3>1. listener'[c] = "done" /\ c \notin subscribers' /\ c \notin satisfied'
      BY <1>1, <1>4, <1>6 DEF PcmTyped, Marked
    <3> QED
      BY <3>1 DEF ListenerStands
  <2>3. ASSUME NEW d \in Listeners \ {c} PROVE ListenerStands(d)'
    <3>1. SameFor(d)
      BY <1>1, <1>6 DEF SameFor, PcmTyped
    <3> QED
      BY <1>3, <3>1, LeftAlone DEF PcmInv
  <2> QED
    BY <1>2, <2>1, <2>2, <2>3 DEF PcmInv
<1> QED
  BY <1>1, <1>5, <1>6 DEF Subscribe

\* What the end of a subscription leaves as it was.
LEMMA GoneKeeps ==
  ASSUME PcmInv, NEW c \in Listeners, listener[c] = "reading", Gone(c),
         fed' \in [Listeners -> Seq(Nat)],
         \A d \in Listeners \ {c} :
           fed'[d] = fed[d] /\ (d \in satisfied') = (d \in satisfied),
         ListenerStands(c)'
  PROVE  PcmInv'
<1>1. /\ PcmTyped /\ JobStands
      /\ UNCHANGED <<recording, stream, closed, replay, replaySize, disabled, heard, joined, slow>>
      /\ listener' = [listener EXCEPT ![c] = "done"] /\ subscribers' = subscribers \ {c}
      /\ terminated' = terminated \ {c}
  BY DEF PcmInv, Gone, Forgotten
<1>2. FileHolds' /\ Laid(pending, pendingBytes)'
  BY <1>1, JobUntouched
<1>3. PcmTyped' /\ JobStands'
  BY <1>1 DEF PcmTyped, JobStands, stream
<1>4. ASSUME NEW d \in Listeners \ {c} PROVE ListenerStands(d)'
  <2>1. SameFor(d)
    BY <1>1 DEF SameFor, PcmTyped
  <2>2. UNCHANGED <<sent, closed>> /\ ListenerStands(d)
    BY <1>1 DEF PcmInv, stream
  <2> QED
    BY <2>1, <2>2, LeftAlone
<1> QED
  BY <1>2, <1>3, <1>4 DEF PcmInv

(* A sequence that is not empty has a first element.                       *)
LEMMA AtLeastOne ==
  ASSUME NEW n \in Nat, n >= 1
  PROVE  (n = 1 \/ (n > 1 /\ n - 1 >= 1)) /\ (n > 1 => n - 1 # 0)
  OBVIOUS

(* A listener hears what is fed to it, or reads up from the file.          *)
LEMMA HearKeeps == ASSUME PcmInv, NEW c \in Listeners, Hear(c) PROVE PcmInv'
<1>1. /\ PcmTyped /\ JobStands /\ ListenerStands(c) /\ listener[c] = "reading" /\ fed[c] # <<>>
      /\ fed' = [fed EXCEPT ![c] = Tail(fed[c])]
  BY DEF PcmInv, Hear
<1>2. /\ fed[c] \in Seq(Nat) /\ heard[c] \in Seq(Nat) /\ joined[c] \in Nat
      /\ Len(heard[c]) \in Nat /\ sent \in Nat
  BY <1>1 DEF PcmTyped
<1>3. /\ Len(fed[c]) \in Nat /\ Len(fed[c]) >= 1 /\ Head(fed[c]) = fed[c][1] /\ Head(fed[c]) \in Nat
  BY <1>1, <1>2
<1>4. /\ Len(fed[c]) = 1 \/ (Len(fed[c]) > 1 /\ Len(fed[c]) - 1 >= 1)
      /\ Len(fed[c]) > 1 => Len(fed[c]) - 1 # 0
  BY <1>3, AtLeastOne
<1>5. /\ Tail(fed[c]) \in Seq(Nat) /\ Len(Tail(fed[c])) = Len(fed[c]) - 1
      /\ \A k \in 1 .. Len(fed[c]) - 1 : Tail(fed[c])[k] = fed[c][k + 1]
  BY <1>1, <1>2, HeadTailProperties
<1>6. fed' \in [Listeners -> Seq(Nat)] /\ fed'[c] = Tail(fed[c])
  BY <1>1, <1>5 DEF PcmTyped
<1>7. /\ Place(c) = joined[c] + Len(heard[c]) /\ Place(c) \in Nat
      /\ InLine(c) /\ Reached(c) <= sent
  BY <1>1, <1>2 DEF Place, ListenerStands
<1>8. CASE /\ Head(fed[c]) # 0
           /\ heard' = [heard EXCEPT ![c] = Append(heard[c], Head(fed[c]))]
           /\ UNCHANGED <<recording, stream, closed, subscribers, terminated, replay, replaySize,
                          disabled, listener, joined, slow, satisfied>>
  <2>1. FileHolds' /\ Laid(pending, pendingBytes)'
    BY <1>8, JobUntouched
  <2>2. /\ heard'[c] = Append(heard[c], Head(fed[c])) /\ heard' \in [Listeners -> Seq(Nat)]
        /\ heard'[c] \in Seq(Nat) /\ Len(heard'[c]) = Len(heard[c]) + 1
        /\ heard'[c][Len(heard[c]) + 1] = Head(fed[c])
        /\ \A k \in 1 .. Len(heard[c]) : heard'[c][k] = heard[c][k]
    <3>1. Append(heard[c], Head(fed[c])) \in Seq(Nat)
      BY <1>2, <1>3
    <3>2. heard'[c] = Append(heard[c], Head(fed[c])) /\ heard' \in [Listeners -> Seq(Nat)]
      BY <1>1, <1>8, <3>1 DEF PcmTyped
    <3> QED
      BY <1>2, <1>3, <3>1, <3>2, AppendProperties
  <2>3. PcmTyped' /\ JobStands'
    BY <1>1, <1>6, <1>8, <2>2 DEF PcmTyped, JobStands, stream
  <2>4. /\ HasEnd(c)' = HasEnd(c) /\ Ahead(c) >= 1 /\ Ahead(c)' = Ahead(c) - 1 /\ Ahead(c) \in Nat
        /\ Ahead(c) <= Len(fed[c])
    <3>1. CASE Len(fed[c]) = 1
      <4>1. ~HasEnd(c) /\ Len(fed'[c]) = 0 /\ fed'[c] = <<>>
        <5>1. fed[c][Len(fed[c])] # 0
          BY <1>3, <1>8, <3>1
        <5>2. Len(Tail(fed[c])) = 0 /\ Tail(fed[c]) \in Seq(Nat)
          BY <1>5, <3>1
        <5> QED
          BY <1>6, <5>1, <5>2, EmptySeq DEF HasEnd
      <4> QED
        BY <3>1, <4>1 DEF HasEnd, Ahead
    <3>2. CASE Len(fed[c]) > 1
      <4>1. Len(fed'[c]) = Len(fed[c]) - 1 /\ fed'[c] # <<>> /\ fed[c] # <<>>
        <5>1. Len(fed'[c]) = Len(fed[c]) - 1 /\ fed'[c] \in Seq(Nat)
          BY <1>5, <1>6
        <5>2. Len(fed[c]) - 1 # 0
          BY <1>4, <3>2
        <5> QED
          BY <1>1, <5>1, <5>2, EmptySeq
      <4>2. fed'[c][Len(fed'[c])] = fed[c][Len(fed[c])]
        <5>1. /\ Len(fed[c]) - 1 \in 1 .. Len(fed[c]) - 1
              /\ (Len(fed[c]) - 1) + 1 = Len(fed[c])
          BY <1>3, <3>2
        <5>2. Tail(fed[c])[Len(fed[c]) - 1] = fed[c][(Len(fed[c]) - 1) + 1]
          BY <1>5, <5>1
        <5> QED
          BY <1>6, <4>1, <5>1, <5>2
      <4>3. HasEnd(c)' = HasEnd(c)
        BY <4>1, <4>2 DEF HasEnd
      <4> QED
        BY <1>3, <3>2, <4>1, <4>3 DEF Ahead
    <3>3. Len(fed[c]) = 1 \/ Len(fed[c]) > 1
      BY <1>4
    <3> QED
      BY <3>1, <3>2, <3>3
  <2>5. Head(fed[c]) = Place(c) + 1
    <3>1. 1 \in 1 .. Ahead(c)
      BY <2>4
    <3> QED
      BY <1>3, <1>7, <3>1 DEF InLine
  <2>6. /\ joined' = joined /\ listener' = listener /\ sent' = sent /\ closed' = closed
        /\ subscribers' = subscribers /\ slow' = slow /\ satisfied' = satisfied
        /\ terminated' = terminated
    BY <1>8 DEF stream
  <2>7. Place(c)' = Place(c) + 1 /\ Reached(c)' = Reached(c)
    <3>1. Place(c)' = joined[c] + (Len(heard[c]) + 1)
      BY <2>2, <2>6 DEF Place
    <3>2. Place(c)' = Place(c) + 1
      BY <1>2, <1>7, <3>1
    <3>3. Reached(c)' = (Place(c) + 1) + (Ahead(c) - 1)
      BY <2>4, <3>2 DEF Reached
    <3> QED
      BY <1>7, <2>4, <3>2, <3>3 DEF Reached
  <2>8. InLine(c)'
    <3>1. ASSUME NEW k \in 1 .. Len(heard'[c]) PROVE heard'[c][k] = joined[c] + k
      <4>1. k = Len(heard[c]) + 1 \/ k \in 1 .. Len(heard[c])
        BY <1>2, <2>2
      <4>2. heard'[c][Len(heard[c]) + 1] = joined[c] + (Len(heard[c]) + 1)
        BY SMTT(30), <1>2, <1>7, <2>2, <2>5
      <4> QED
        BY <1>7, <2>2, <4>1, <4>2 DEF InLine
    <3>2. ASSUME NEW k \in 1 .. Ahead(c)' PROVE fed'[c][k] = (Place(c) + 1) + k
      <4>1. k \in 1 .. Len(fed[c]) - 1 /\ k + 1 \in 1 .. Ahead(c)
        BY <1>3, <2>4
      <4>2. fed'[c][k] = Place(c) + (k + 1)
        BY <1>5, <1>6, <1>7, <4>1 DEF InLine
      <4> QED
        BY <1>7, <4>2
    <3> QED
      BY <2>6, <2>7, <3>1, <3>2 DEF InLine
  <2>9. ListenerStands(c)'
    <3>1. c \in satisfied => FALSE
      BY <1>1 DEF ListenerStands
    <3> QED
      BY <1>1, <1>7, <2>4, <2>6, <2>7, <2>8, <3>1 DEF ListenerStands, Marked
  <2>10. ASSUME NEW d \in Listeners \ {c} PROVE ListenerStands(d)'
    <3>1. SameFor(d)
      BY <1>1, <1>8 DEF SameFor, PcmTyped
    <3> QED
      BY <2>6, <3>1, LeftAlone DEF PcmInv
  <2> QED
    BY <2>1, <2>3, <2>9, <2>10 DEF PcmInv
<1>9. CASE Head(fed[c]) = 0 /\ Gone(c) /\ satisfied' = satisfied \cup {c}
  <2>1. /\ listener'[c] = "done" /\ c \notin subscribers' /\ sent' = sent /\ closed' = closed
        /\ heard' = heard /\ joined' = joined /\ slow' = slow
    BY <1>1, <1>9 DEF Gone, stream, PcmTyped
  <2>2. Ahead(c) = 0 /\ HasEnd(c) /\ Len(fed[c]) = 1
    <3>1. Ahead(c) \in Int /\ (HasEnd(c) => Ahead(c) = Len(fed[c]) - 1)
          /\ (~HasEnd(c) => Ahead(c) = Len(fed[c]))
      BY <1>3 DEF Ahead
    <3>2. 1 \notin 1 .. Ahead(c)
      BY <1>3, <1>7, <1>9 DEF InLine
    <3>3. ~HasEnd(c) => 1 \in 1 .. Ahead(c)
      BY <1>3, <3>1
    <3>4. HasEnd(c) /\ Ahead(c) = Len(fed[c]) - 1
      BY <3>1, <3>2, <3>3
    <3>5. ~(Len(fed[c]) - 1 >= 1)
      BY <1>4, <3>2, <3>4
    <3>6. Len(fed[c]) = 1
      BY <1>4, <3>5
    <3> QED
      BY <3>4, <3>6
  <2>3. fed'[c] = <<>> /\ Len(<<>>) = 0
    <3>1. Len(Tail(fed[c])) = 0 /\ Tail(fed[c]) \in Seq(Nat)
      BY <1>5, <2>2
    <3> QED
      BY <1>6, <3>1, EmptySeq
  <2>4. Ahead(c)' = 0 /\ Place(c)' = Place(c) /\ Reached(c)' = Reached(c)
    BY <2>1, <2>2, <2>3 DEF Ahead, HasEnd, Place, Reached
  <2>5. InLine(c)'
    BY <1>7, <2>1, <2>4 DEF InLine
  <2>6. c \notin slow => Reached(c) = sent /\ closed
    BY <1>1, <2>2 DEF ListenerStands
  <2>7. ListenerStands(c)'
    BY <1>7, <2>1, <2>3, <2>4, <2>5, <2>6 DEF ListenerStands
  <2>8. \A d \in Listeners \ {c} : fed'[d] = fed[d] /\ (d \in satisfied') = (d \in satisfied)
    BY <1>1, <1>9 DEF PcmTyped
  <2> QED
    BY <1>1, <1>6, <1>9, <2>7, <2>8, GoneKeeps
<1> QED
  BY <1>8, <1>9 DEF Hear

LEMMA DrainedKeeps == ASSUME PcmInv, NEW c \in Listeners, Drained(c) PROVE PcmInv'
<1>1. /\ PcmTyped /\ ListenerStands(c) /\ listener[c] = "reading" /\ fed[c] = <<>>
      /\ c \in terminated /\ Gone(c) /\ satisfied' = satisfied \cup {c} /\ fed' = fed
  BY DEF PcmInv, Drained
<1>2. /\ listener'[c] = "done" /\ c \notin subscribers' /\ sent' = sent /\ closed' = closed
      /\ heard' = heard /\ joined' = joined /\ slow' = slow
  BY <1>1 DEF Gone, stream, PcmTyped
<1>3. InLine(c)' = InLine(c) /\ Reached(c)' = Reached(c)
  BY <1>1, <1>2 DEF InLine, Reached, Place, Ahead, HasEnd
<1>4. ListenerStands(c)'
  BY <1>1, <1>2, <1>3 DEF ListenerStands, Marked
<1>5. /\ fed' \in [Listeners -> Seq(Nat)]
      /\ \A d \in Listeners \ {c} : fed'[d] = fed[d] /\ (d \in satisfied') = (d \in satisfied)
  BY <1>1 DEF PcmTyped
<1> QED
  BY <1>1, <1>4, <1>5, GoneKeeps

LEMMA LeaveKeeps == ASSUME PcmInv, NEW c \in Listeners, Leave(c) PROVE PcmInv'
<1>1. /\ PcmTyped /\ ListenerStands(c) /\ listener[c] = "reading"
      /\ Gone(c) /\ satisfied' = satisfied /\ fed' = fed
  BY DEF PcmInv, Leave
<1>2. listener'[c] = "done" /\ c \notin subscribers'
  BY <1>1 DEF Gone, PcmTyped
<1>3. ListenerStands(c)'
  BY <1>1, <1>2 DEF ListenerStands
<1>4. /\ fed' \in [Listeners -> Seq(Nat)]
      /\ \A d \in Listeners \ {c} : fed'[d] = fed[d] /\ (d \in satisfied') = (d \in satisfied)
  BY <1>1 DEF PcmTyped
<1> QED
  BY <1>1, <1>3, <1>4, GoneKeeps

-----------------------------------------------------------------------------
(* Every step keeps the invariant.                                         *)
LEMMA PcmNextKeeps == PcmInv /\ [PcmNext]_pcmVars => PcmInv'
<1> SUFFICES ASSUME PcmInv, [PcmNext]_pcmVars PROVE PcmInv'
  OBVIOUS
<1>1. CASE UNCHANGED pcmVars
  <2>1. UNCHANGED <<recording, stream, closed, handout, clients, sent>>
    BY <1>1 DEF pcmVars, stream
  <2>2. FileHolds' /\ Laid(pending, pendingBytes)' /\ \A c \in Listeners : ListenerStands(c)'
    BY <2>1, JobUntouched, QuietStep
  <2>3. PcmTyped' /\ JobStands'
    BY <2>1 DEF PcmInv, PcmTyped, JobStands, stream, handout, clients
  <2> QED
    BY <2>2, <2>3 DEF PcmInv
<1>2. CASE JobStep
  BY <1>2, BeginKeeps, ChunkKeeps, PutResumesKeeps, StreamEndsKeeps, ConsumeKeeps,
     BreakKeeps,
     CompleteKeeps, CancelQueuedKeeps, CloseKeeps DEF JobStep
<1>3. CASE \E c \in Listeners : Subscribe(c) \/ ListenerStep(c) \/ Leave(c)
  BY <1>3, SubscribeKeeps, HearKeeps, DrainedKeeps, LeaveKeeps DEF ListenerStep
<1> QED
  BY <1>1, <1>2, <1>3 DEF PcmNext

\* What a listener has and will have is the run from where it joined.
LEMMA LineIsARun ==
  ASSUME NEW c \in Listeners, PcmTyped, InLine(c)
  PROVE  /\ heard[c] \o Chunks(fed[c]) = Run(joined[c], Reached(c))
         /\ heard[c] = Run(joined[c], Place(c))
<1>1. /\ fed[c] \in Seq(Nat) /\ heard[c] \in Seq(Nat) /\ joined[c] \in Nat
      /\ Len(fed[c]) \in Nat /\ Len(heard[c]) \in Nat
  BY DEF PcmTyped
<1> DEFINE rest == Chunks(fed[c])
           m == Len(heard[c])
           n == Ahead(c)
<1>2. rest \in Seq(Nat) /\ Len(rest) = n /\ n \in Nat /\ \A k \in 1 .. n : rest[k] = fed[c][k]
  <2>1. CASE HasEnd(c)
    <3>1. Len(fed[c]) >= 1 /\ n = Len(fed[c]) - 1 /\ rest = SubSeq(fed[c], 1, n)
      BY <1>1, <2>1 DEF HasEnd, Ahead, Chunks
    <3>2. n \in Nat /\ n <= Len(fed[c])
      BY <1>1, <3>1
    <3> HIDE DEF n
    <3>3. SubSeq(fed[c], 1, n) \in Seq(Nat)
      BY <1>1, <3>2
    <3>4. /\ Len(SubSeq(fed[c], 1, n)) = n
          /\ \A k \in 1 .. n : SubSeq(fed[c], 1, n)[k] = fed[c][k]
      BY <1>1, <3>2
    <3> QED
      BY <3>1, <3>2, <3>3, <3>4
  <2>2. CASE ~HasEnd(c)
    BY <1>1, <2>2 DEF HasEnd, Ahead, Chunks
  <2> QED
    BY <2>1, <2>2
<1> HIDE DEF rest, n
<1>3. Place(c) = joined[c] + m /\ Reached(c) = joined[c] + m + n /\ Place(c) \in Nat
  BY <1>1 DEF Place, Reached, n
<1>4. /\ \A k \in 1 .. m : heard[c][k] = joined[c] + k
      /\ \A k \in 1 .. n : rest[k] = Place(c) + k
  BY <1>2 DEF InLine, n
<1> DEFINE all == heard[c] \o rest
<1>5. /\ all \in Seq(Nat) /\ Len(all) = m + n
      /\ \A k \in 1 .. m + n : all[k] = IF k <= m THEN heard[c][k] ELSE rest[k - m]
  BY ZenonT(40), <1>1, <1>2, ConcatProperties
<1> HIDE DEF all
<1>6. \A k \in 1 .. m + n : all[k] = joined[c] + k
  <2> SUFFICES ASSUME NEW k \in 1 .. m + n PROVE all[k] = joined[c] + k
    OBVIOUS
  <2>1. CASE k <= m
    BY <1>1, <1>4, <1>5, <2>1
  <2>2. CASE k > m
    <3>1. k - m \in 1 .. n
      BY <1>1, <1>2, <2>2
    <3>2. ~(k <= m)
      BY <1>1, <2>2
    <3>3. all[k] = rest[k - m]
      BY ZenonT(40), <1>5, <3>2
    <3>4. rest[k - m] = (joined[c] + m) + (k - m)
      BY <1>3, <1>4, <3>1
    <3> QED
      BY <1>1, <3>1, <3>3, <3>4
  <2> QED
    BY <1>1, <2>1, <2>2
<1>7. all = [k \in 1 .. m + n |-> joined[c] + k]
  BY <1>1, <1>2, <1>5, <1>6
<1>8. heard[c] = [k \in 1 .. m |-> joined[c] + k]
  <2>1. heard[c] = [k \in 1 .. m |-> heard[c][k]]
    BY <1>1, LenProperties
  <2> QED
    BY <1>4, <2>1
<1>9. Reached(c) - joined[c] = m + n /\ Place(c) - joined[c] = m
  BY <1>1, <1>2, <1>3
<1> QED
  BY <1>7, <1>8, <1>9 DEF Run, all, rest

(* And it says what the property does.                                     *)
LEMMA ArrivalFollows == PcmInv => ChunksArriveInOrder
<1> SUFFICES ASSUME PcmInv PROVE ChunksArriveInOrder
  OBVIOUS
<1>1. PcmTyped /\ FileHolds /\ JobStands /\ Laid(pending, pendingBytes)
  BY DEF PcmInv
<1>2. WavIsWhole
  <2>1. Fills(pending, pendingBytes) /\ pendingBytes <= Budget
    <3>1. pending \in Seq(Items) /\ pendingBytes \in Nat /\ pendingBytes <= Budget
      BY <1>1 DEF PcmTyped
    <3> QED
      BY <1>1, <3>1, LaidFills
  <2>2. ASSUME recording = "completed" PROVE written = Run(0, sent)
    <3>1. Len(written) = sent /\ \A k \in 1 .. Len(written) : written[k] = k
      BY <1>1, <2>2 DEF JobStands, FileHolds
    <3>2. written \in Seq(Nat) /\ sent \in Nat
      BY <1>1 DEF PcmTyped
    <3>3. written = [k \in 1 .. sent |-> k]
      BY <3>1, <3>2
    <3>4. sent - 0 = sent /\ \A k \in 1 .. sent : 0 + k = k
      BY <3>2
    <3> QED
      BY <3>3, <3>4 DEF Run
  <2> QED
    BY <2>1, <2>2 DEF WavIsWhole
<1>3. ASSUME NEW c \in Listeners
      PROVE  LET all == heard[c] \o Chunks(fed[c]) IN
             /\ c \in subscribers => all = Run(joined[c], sent)
             /\ listener[c] = "reading" \/ c \in satisfied => IsPrefix(all, Run(joined[c], sent))
             /\ c \in satisfied \ slow /\ recording = "completed" => heard[c] = Run(joined[c], sent)
  <2> DEFINE all == heard[c] \o Chunks(fed[c])
  <2>1. ListenerStands(c)
    BY DEF PcmInv
  <2>2. CASE listener[c] = "reading" \/ c \in satisfied
    <3>1. InLine(c) /\ Reached(c) <= sent /\ (c \in subscribers => Reached(c) = sent)
      BY <2>1, <2>2 DEF ListenerStands
    <3>2. all = Run(joined[c], Reached(c)) /\ heard[c] = Run(joined[c], Place(c))
      BY <1>1, <3>1, LineIsARun
    <3>3. /\ joined[c] \in Nat /\ sent \in Nat /\ Place(c) \in Nat /\ Reached(c) \in Nat
          /\ joined[c] <= Reached(c)
      <4>1. /\ joined[c] \in Nat /\ sent \in Nat /\ fed[c] \in Seq(Nat) /\ heard[c] \in Seq(Nat)
            /\ Len(fed[c]) \in Nat /\ Len(heard[c]) \in Nat
        BY <1>1 DEF PcmTyped
      <4>2. Ahead(c) \in Nat
        <5>1. HasEnd(c) => Len(fed[c]) # 0
          BY <4>1, EmptySeq DEF HasEnd
        <5> QED
          BY <4>1, <5>1 DEF Ahead
      <4> QED
        BY <4>1, <4>2, SMTT(30) DEF Place, Reached
    <3>4. IsPrefix(Run(joined[c], Reached(c)), Run(joined[c], sent))
      <4> DEFINE n == Reached(c) - joined[c]
                 m == sent - joined[c]
      <4>1. n \in Nat /\ m \in Nat /\ n <= m
        BY <3>1, <3>3
      <4>2. Run(joined[c], Reached(c)) = [k \in 1 .. n |-> joined[c] + k]
            /\ Run(joined[c], sent) = [k \in 1 .. m |-> joined[c] + k]
        BY DEF Run
      <4> HIDE DEF n, m
      <4>3. /\ Len([k \in 1 .. n |-> joined[c] + k]) = n
            /\ Len([k \in 1 .. m |-> joined[c] + k]) = m
        BY <4>1
      <4> QED
        BY <4>1, <4>2, <4>3 DEF IsPrefix
    <3>5. ASSUME c \in satisfied \ slow PROVE heard[c] = Run(joined[c], sent)
      <4>1. fed[c] = <<>> /\ c \notin subscribers /\ Reached(c) = sent
        BY <2>1, <3>5 DEF ListenerStands
      <4>2. Place(c) = sent
        <5>1. Ahead(c) = 0
          BY <4>1 DEF Ahead, HasEnd
        <5> QED
          BY <3>3, <4>1, <5>1 DEF Reached
      <4> QED
        BY <3>2, <4>2
    <3> HIDE DEF all
    <3>6. c \in subscribers => all = Run(joined[c], sent)
      BY <3>1, <3>2
    <3>7. IsPrefix(all, Run(joined[c], sent))
      BY <3>2, <3>4
    <3> QED
      BY <3>5, <3>6, <3>7 DEF all
  <2>3. CASE ~(listener[c] = "reading" \/ c \in satisfied)
    BY <2>1, <2>3 DEF ListenerStands
  <2> QED
    BY <2>2, <2>3
<1> QED
  BY <1>2, <1>3 DEF ChunksArriveInOrder, ListenersHearARun

(* The inductive invariant of the stream holds.                            *)
LEMMA PcmInvariant == PcmSpec => []PcmInv
  BY InitPcm, PcmNextKeeps, PTL DEF PcmSpec

\* No chunk is lost, repeated or overtaken on the way to the file and to those who listen,
\* for any number of listeners, any sizes of chunks and any budget and queue length.
THEOREM ChunksAlwaysArriveInOrder == PcmSpec => []ChunksArriveInOrder
  BY PcmInvariant, ArrivalFollows, PTL

\* Types with their bounds; a chunk that waits is one that there may be.
PcmBounds ==
  /\ sent \in 0 .. MaxChunks /\ (producer = "full" => sent < MaxChunks)
  /\ pending \in Seq([chunk : 0 .. MaxChunks, bytes : {0} \cup Widths])
  /\ written \in Seq(1 .. MaxChunks)
  /\ fed \in [Listeners -> Seq(0 .. MaxChunks)] /\ \A c \in Listeners : Len(fed[c]) <= QueueSize
  /\ replay \in Seq(1 .. MaxChunks) /\ replaySize \in 0 .. ReplayBytes /\ disabled \in BOOLEAN
  /\ heard \in [Listeners -> Seq(1 .. MaxChunks)] /\ joined \in [Listeners -> 0 .. MaxChunks]
  /\ terminated \subseteq Listeners /\ slow \subseteq Listeners /\ satisfied \subseteq Listeners
  /\ keep \in BOOLEAN

(* One chunk more leaves every queue within its bounds.                    *)
LEMMA HandOutIsBounded ==
  ASSUME PcmInv, PcmBounds, sent < MaxChunks, NEW w \in Widths, HandOut(w),
         producer' # "full"
  PROVE  PcmBounds'
<1>1. sent + 1 \in 1 .. MaxChunks /\ sent' = sent + 1
  BY DEF PcmBounds, HandOut
<1>2. pending' \in Seq([chunk : 0 .. MaxChunks, bytes : {0} \cup Widths])
  <2>1. [chunk |-> sent + 1, bytes |-> w] \in [chunk : 0 .. MaxChunks, bytes : {0} \cup Widths]
    BY <1>1
  <2> QED
    BY <2>1, AppendProperties DEF PcmBounds, HandOut
<1>3. /\ fed' \in [Listeners -> Seq(0 .. MaxChunks)]
      /\ \A c \in Listeners : Len(fed'[c]) <= QueueSize
  <2> SUFFICES ASSUME NEW c \in Listeners
               PROVE  fed'[c] \in Seq(0 .. MaxChunks) /\ Len(fed'[c]) <= QueueSize
    BY DEF HandOut
  <2>1. fed[c] \in Seq(0 .. MaxChunks) /\ Len(fed[c]) <= QueueSize /\ sent + 1 \in 0 .. MaxChunks
    BY <1>1 DEF PcmBounds
  <2>2. /\ Append(fed[c], sent + 1) \in Seq(0 .. MaxChunks)
        /\ Len(Append(fed[c], sent + 1)) = Len(fed[c]) + 1 /\ Len(fed[c]) \in Nat
    BY <2>1, AppendProperties, LenProperties
  <2>3. fed'[c] = fed[c] \/ (fed'[c] = Append(fed[c], sent + 1) /\ Len(fed[c]) < QueueSize)
    BY DEF HandOut, Fed, HasSpace
  <2>4. CASE fed'[c] = fed[c]
    BY <2>1, <2>4
  <2>5. ASSUME fed'[c] = Append(fed[c], sent + 1), Len(fed[c]) < QueueSize
        PROVE  fed'[c] \in Seq(0 .. MaxChunks) /\ Len(fed'[c]) <= QueueSize
    <3>1. Len(fed[c]) + 1 <= QueueSize
      BY <2>2, <2>5
    <3> QED
      BY <2>2, <2>5, <3>1
  <2> QED
    BY <2>3, <2>4, <2>5
<1>4. replay' \in Seq(1 .. MaxChunks) /\ replaySize' \in 0 .. ReplayBytes /\ disabled' \in BOOLEAN
  <2>1. Append(replay, sent + 1) \in Seq(1 .. MaxChunks)
    BY <1>1, AppendProperties DEF PcmBounds
  <2>2. Keep(w) /\ w \in Nat
    BY DEF HandOut
  <2>3. CASE UNCHANGED <<replay, replaySize, disabled>>
    BY <2>3 DEF PcmBounds
  <2>4. CASE replay' = Append(replay, sent + 1) /\ replaySize + w <= ReplayBytes
             /\ replaySize' = replaySize + w /\ UNCHANGED disabled
    BY <2>1, <2>2, <2>4 DEF PcmBounds
  <2>5. CASE replay' = <<>> /\ replaySize' = 0 /\ disabled' = TRUE
    BY <2>5, EmptySeq
  <2> QED
    BY <2>2, <2>3, <2>4, <2>5 DEF Keep
<1>5. UNCHANGED <<keep, written, heard, joined, satisfied>>
  BY DEF HandOut
<1>6. terminated' \subseteq Listeners /\ slow' \subseteq Listeners
  BY DEF HandOut, Overflowing, PcmInv, PcmTyped, PcmBounds
<1> QED
  BY <1>1, <1>2, <1>3, <1>4, <1>5, <1>6 DEF PcmBounds

(* So do the steps of the job                                              *)
LEMMA JobIsBounded == ASSUME PcmInv, PcmBounds, JobStep PROVE PcmBounds'
<1>1. CASE Begin
  BY <1>1 DEF Begin, PcmBounds, handout, clients
<1>2. ASSUME NEW w \in Widths, Chunk(w) PROVE PcmBounds'
  <2>1. CASE HandOut(w) /\ UNCHANGED <<producer, waiting>>
    BY <1>2, <2>1, HandOutIsBounded DEF Chunk
  <2>2. CASE UNCHANGED <<keep, pending, sent, written, handout, clients>>
    BY <1>2, <2>2 DEF Chunk, PcmBounds, handout, clients
  <2> QED
    BY <1>2, <2>1, <2>2 DEF Chunk
<1>3. CASE PutResumes
  <2>1. waiting \in Widths
    BY <1>3 DEF PutResumes, PcmInv, JobStands
  <2> QED
    BY <1>3, <2>1, HandOutIsBounded DEF PutResumes, PcmBounds
<1>4. CASE StreamEnds
  <2>1. pending' \in Seq([chunk : 0 .. MaxChunks, bytes : {0} \cup Widths])
    <3>1. [chunk |-> End, bytes |-> 0] \in [chunk : 0 .. MaxChunks, bytes : {0} \cup Widths]
      OBVIOUS
    <3> QED
      BY <1>4, <3>1, AppendProperties DEF StreamEnds, PcmBounds
  <2> QED
    BY <1>4, <2>1 DEF StreamEnds, PcmBounds, handout, clients
<1>5. CASE Consume
  <2>1. pending \in Seq([chunk : 0 .. MaxChunks, bytes : {0} \cup Widths]) /\ pending # <<>>
    BY <1>5 DEF Consume, PcmBounds
  <2>2. /\ Head(pending) \in [chunk : 0 .. MaxChunks, bytes : {0} \cup Widths]
        /\ Tail(pending) \in Seq([chunk : 0 .. MaxChunks, bytes : {0} \cup Widths])
    BY <2>1, HeadTailProperties
  <2>3. written' \in Seq(1 .. MaxChunks)
    <3>1. CASE Head(pending).chunk = End
      BY <1>5, <3>1 DEF Consume, PcmBounds
    <3>2. CASE Head(pending).chunk # End
      <4>1. Head(pending).chunk \in 1 .. MaxChunks
        BY <2>2, <3>2
      <4> QED
        <5>1. Append(written, Head(pending).chunk) \in Seq(1 .. MaxChunks)
          BY <4>1, AppendProperties DEF PcmBounds
        <5> QED
          BY <1>5, <3>2, <5>1 DEF Consume
    <3> QED
      BY <3>1, <3>2
  <2> QED
    BY <1>5, <2>2, <2>3 DEF Consume, PcmBounds, handout, clients
<1>6. CASE Break
  BY <1>6 DEF Break, PcmBounds, handout, clients
<1>7. CASE Complete
  BY <1>7 DEF Complete, PcmBounds, stream, handout, clients
<1>8. CASE CancelQueued
  BY <1>8 DEF CancelQueued, PcmBounds, handout, clients
<1>9. CASE Close
  <2>1. /\ fed' \in [Listeners -> Seq(0 .. MaxChunks)]
        /\ \A c \in Listeners : Len(fed'[c]) <= QueueSize
    <3> SUFFICES ASSUME NEW c \in Listeners
                 PROVE  fed'[c] \in Seq(0 .. MaxChunks) /\ Len(fed'[c]) <= QueueSize
      BY <1>9 DEF Close
    <3>1. fed[c] \in Seq(0 .. MaxChunks) /\ Len(fed[c]) <= QueueSize /\ End \in 0 .. MaxChunks
      BY DEF PcmBounds
    <3>2. /\ Append(fed[c], End) \in Seq(0 .. MaxChunks)
          /\ Len(Append(fed[c], End)) = Len(fed[c]) + 1 /\ Len(fed[c]) \in Nat
      BY <3>1, AppendProperties, LenProperties
    <3>3. fed'[c] = fed[c] \/ (fed'[c] = Append(fed[c], End) /\ Len(fed[c]) < QueueSize)
      BY <1>9 DEF Close, HasSpace
    <3>4. CASE fed'[c] = fed[c]
      BY <3>1, <3>4
    <3>5. ASSUME fed'[c] = Append(fed[c], End), Len(fed[c]) < QueueSize
          PROVE  fed'[c] \in Seq(0 .. MaxChunks) /\ Len(fed'[c]) <= QueueSize
      <4>1. Len(fed[c]) + 1 <= QueueSize
        BY <3>2, <3>5
      <4> QED
        BY <3>2, <3>5, <4>1
    <3> QED
      BY <3>3, <3>4, <3>5
  <2>2. replay' \in Seq(1 .. MaxChunks) /\ replaySize' \in 0 .. ReplayBytes /\ disabled' \in BOOLEAN
    <3>1. CASE UNCHANGED <<replay, replaySize, disabled>>
      BY <3>1 DEF PcmBounds
    <3>2. CASE replay' = <<>> /\ replaySize' = 0 /\ disabled' = FALSE
      <4>1. replay' \in Seq(1 .. MaxChunks)
        BY <3>2, EmptySeq
      <4>2. replaySize' \in 0 .. ReplayBytes
        BY <3>2
      <4>3. disabled' \in BOOLEAN
        BY <3>2, Zenon
      <4> QED
        BY <4>1, <4>2, <4>3
    <3> QED
      BY <1>9, <3>1, <3>2 DEF Close
  <2>3. terminated' \subseteq Listeners
    BY <1>9 DEF Close, Remaining, PcmInv, PcmTyped, PcmBounds
  <2> QED
    BY <1>9, <2>1, <2>2, <2>3 DEF Close, PcmBounds, stream, clients
<1> QED
  BY <1>1, <1>2, <1>3, <1>4, <1>5, <1>6, <1>7, <1>8, <1>9 DEF JobStep

(* and those of a listener.                                                *)
LEMMA ListenerIsBounded ==
  ASSUME PcmInv, PcmBounds, NEW c \in Listeners, Subscribe(c) \/ ListenerStep(c) \/ Leave(c)
  PROVE  PcmBounds'
<1>1. CASE Subscribe(c)
  <2>1. /\ UNCHANGED <<stream, terminated, fed, slow, satisfied>>
        /\ \/ /\ joined' = [joined EXCEPT ![c] = sent]
              /\ UNCHANGED <<replay, replaySize, disabled, heard>>
           \/ /\ heard' = [heard EXCEPT ![c] = replay] /\ UNCHANGED joined
              /\ replay' = <<>> /\ replaySize' = 0 /\ disabled' = FALSE
    BY <1>1 DEF Subscribe
  <2>2. CASE /\ joined' = [joined EXCEPT ![c] = sent]
             /\ UNCHANGED <<replay, replaySize, disabled, heard>>
    BY <2>1, <2>2 DEF stream, PcmBounds
  <2>3. CASE /\ heard' = [heard EXCEPT ![c] = replay] /\ UNCHANGED joined
             /\ replay' = <<>> /\ replaySize' = 0 /\ disabled' = FALSE
    <3>1. replay' \in Seq(1 .. MaxChunks) /\ replaySize' \in 0 .. ReplayBytes
      BY <2>3, EmptySeq
    <3>2. heard' \in [Listeners -> Seq(1 .. MaxChunks)]
      BY <2>3 DEF PcmBounds
    <3> QED
      BY <2>1, <2>3, <3>1, <3>2 DEF stream, PcmBounds
  <2> QED
    BY <2>1, <2>2, <2>3
<1>2. CASE Hear(c)
  <2>1. fed[c] \in Seq(0 .. MaxChunks) /\ fed[c] # <<>> /\ Len(fed[c]) <= QueueSize
    BY <1>2 DEF Hear, PcmBounds
  <2>2. /\ Head(fed[c]) \in 0 .. MaxChunks /\ Tail(fed[c]) \in Seq(0 .. MaxChunks)
        /\ Len(Tail(fed[c])) = Len(fed[c]) - 1 /\ Len(fed[c]) \in Nat
    BY <2>1, HeadTailProperties, LenProperties
  <2>3. /\ fed' \in [Listeners -> Seq(0 .. MaxChunks)]
        /\ \A d \in Listeners : Len(fed'[d]) <= QueueSize
    BY <1>2, <2>1, <2>2 DEF Hear, PcmBounds
  <2>4. heard' \in [Listeners -> Seq(1 .. MaxChunks)]
    <3>1. CASE Head(fed[c]) = End
      BY <1>2, <3>1 DEF Hear, Gone, PcmBounds
    <3>2. CASE Head(fed[c]) # End
      <4>1. Append(heard[c], Head(fed[c])) \in Seq(1 .. MaxChunks)
        BY <2>2, <3>2, AppendProperties DEF PcmBounds
      <4> QED
        BY <1>2, <3>2, <4>1 DEF Hear, PcmBounds
    <3> QED
      BY <3>1, <3>2
  <2> QED
    BY <1>2, <2>3, <2>4 DEF Hear, Gone, Forgotten, stream, PcmBounds
<1>3. CASE Drained(c)
  BY <1>3 DEF Drained, Gone, Forgotten, stream, PcmBounds
<1>4. CASE Leave(c)
  BY <1>4 DEF Leave, Gone, Forgotten, stream, PcmBounds
<1> QED
  BY <1>1, <1>2, <1>3, <1>4 DEF ListenerStep

(* The types of the stream hold.                                           *)
LEMMA PcmIsTyped == PcmSpec => []PcmTypeOK
<1>1. PcmInit => PcmBounds
  <2>1. \A S : <<>> \in Seq(S)
    BY EmptySeq
  <2>2. <<>> \in Seq(0 .. MaxChunks) /\ <<>> \in Seq(1 .. MaxChunks) /\ Len(<<>>) = 0
        /\ <<>> \in Seq([chunk : 0 .. MaxChunks, bytes : {0} \cup Widths])
    BY <2>1
  <2> SUFFICES ASSUME PcmInit PROVE PcmBounds
    OBVIOUS
  <2>3. /\ fed \in [Listeners -> Seq(0 .. MaxChunks)]
        /\ \A c \in Listeners : Len(fed[c]) <= QueueSize
    BY <2>2 DEF PcmInit
  <2>4. heard \in [Listeners -> Seq(1 .. MaxChunks)] /\ joined \in [Listeners -> 0 .. MaxChunks]
    BY <2>2 DEF PcmInit
  <2>5. /\ sent = 0 /\ producer # "full" /\ keep \in BOOLEAN /\ replaySize = 0 /\ disabled = FALSE
        /\ pending = <<>> /\ written = <<>> /\ replay = <<>>
        /\ terminated = {} /\ slow = {} /\ satisfied = {}
    BY DEF PcmInit
  <2>6. sent \in 0 .. MaxChunks /\ replaySize \in 0 .. ReplayBytes
    BY <2>5
  <2>7. disabled \in BOOLEAN
    BY <2>5, Zenon
  <2>8. /\ pending \in Seq([chunk : 0 .. MaxChunks, bytes : {0} \cup Widths])
        /\ written \in Seq(1 .. MaxChunks) /\ replay \in Seq(1 .. MaxChunks)
    BY <2>2, <2>5
  <2> QED
    BY <2>3, <2>4, <2>5, <2>6, <2>7, <2>8 DEF PcmBounds
<1>2. PcmInv /\ PcmBounds /\ [PcmNext]_pcmVars => PcmBounds'
  <2>1. ASSUME PcmBounds, UNCHANGED pcmVars PROVE PcmBounds'
    BY <2>1 DEF PcmBounds, pcmVars, stream, handout, clients
  <2> QED
    BY <2>1, JobIsBounded, ListenerIsBounded DEF PcmNext
<1>3. PcmInv /\ PcmBounds => PcmTypeOK
  BY DEF PcmInv, PcmTyped, PcmBounds, PcmTypeOK
<1> QED
  BY PcmInvariant, <1>1, <1>2, <1>3, PTL DEF PcmSpec

HIDE PcmAssumption DEF End

-----------------------------------------------------------------------------
(* EventStream.  No feed skips an event, for any number of feeds, streams  *)
(* and events.                                                             *)

\* What goes to a client.
Frames == [kind : {"event", "reset"}, id : 0 .. MaxEvents]

\* Types, with the bounds that order the events of the log and those on the way.
EventTyped ==
  /\ last \in 0 .. MaxEvents /\ source \in [Ids -> Streams \cup {All}]
  /\ scope \in [Feeds -> Streams \cup {All}]
  /\ feed \in [Feeds -> {"off", "opening", "open", "ending"}]
  /\ cursor \in [Feeds -> Nat] /\ since \in [Feeds -> Nat]
  /\ batch \in [Feeds -> Seq(Ids)] /\ wire \in [Feeds -> Seq(Frames)]

\* The log holds its newest Window events.
Newest == kept = {i \in 1 .. last : i + Window > last}

\* Where the reading of a feed stands, once all on the wire is rendered.
Position(c) == IF wire[c] = <<>> THEN since[c] ELSE wire[c][Len(wire[c])].id

\* The frames on the wire and the events of the batch behind them follow one another.
WireFollows(c) ==
  \A k \in 1 .. Len(wire[c]) :
    /\ wire[c][k].id <= last
    /\ wire[c][k].kind = "event" => NextOf(c, Before(c, k), wire[c][k].id)

\* A page that was read goes on where the feed is.
BatchFollows(c) ==
  \A k \in 1 .. Len(batch[c]) :
    /\ batch[c][k] <= last
    /\ NextOf(c, IF k = 1 THEN cursor[c] ELSE batch[c][k - 1], batch[c][k])

\* What a feed has at each stage.
FeedStands(c) ==
  /\ feed[c] = "open" => cursor[c] = Position(c)
  /\ feed[c] # "open" => batch[c] = <<>>
  /\ feed[c] \in {"off", "opening"} => wire[c] = <<>>

\* The inductive invariant.
EventInv ==
  /\ EventTyped /\ Newest
  /\ \A c \in Feeds : WireFollows(c) /\ BatchFollows(c) /\ FeedStands(c)

USE EventAssumption DEF Ids

(* A frame has a number.                                                   *)
LEMMA FrameIds == \A f \in Frames : f.id \in Nat
  BY DEF Frames

(* The log is empty, and nobody listens.                                   *)
LEMMA InitEvents == EventInit => EventInv
<1> SUFFICES ASSUME EventInit PROVE EventInv
  OBVIOUS
<1>1. EventTyped
  BY DEF EventInit, EventTyped
<1>2. Newest
  BY DEF EventInit, Newest
<1>3. ASSUME NEW c \in Feeds PROVE WireFollows(c) /\ BatchFollows(c) /\ FeedStands(c)
  BY DEF EventInit, WireFollows, BatchFollows, FeedStands
<1> QED
  BY <1>1, <1>2, <1>3 DEF EventInv

\* The DELETE leaves the newest Window events again.
LEMMA PrunedToWindow ==
  ASSUME Newest, last \in Nat
  PROVE  Pruned(kept \cup {last + 1}) = {i \in 1 .. last + 1 : i + Window > last + 1}
<1> DEFINE ids == kept \cup {last + 1}
<1>1. ASSUME NEW i \in ids PROVE Cardinality({k \in ids : k >= i}) = last + 1 - i + 1
  <2>1. i \in 1 .. last + 1 /\ {k \in ids : k >= i} = i .. last + 1
    BY <1>1 DEF Newest
  <2>2. Cardinality(i .. last + 1) = last + 1 - i + 1
    BY <2>1, FS_Interval
  <2> QED
    BY <2>1, <2>2
<1>2. ids = {i \in 1 .. last + 1 : i + Window > last}
  BY DEF Newest
<1> HIDE DEF ids
<1>3. Pruned(ids) = {i \in ids : last + 1 - i + 1 <= Window}
  BY <1>1 DEF Pruned
<1>4. ASSUME NEW i \in ids
      PROVE  i \in 1 .. last + 1 /\ (last + 1 - i + 1 <= Window <=> i + Window > last + 1)
  BY <1>2
<1>5. ASSUME NEW i \in 1 .. last + 1, i + Window > last + 1 PROVE i \in ids
  BY <1>2, <1>5
<1>6. Pruned(ids) = {i \in 1 .. last + 1 : i + Window > last + 1}
  BY <1>3, <1>4, <1>5
<1> QED
  BY <1>6 DEF ids

(* The oldest event that is kept is the first one of the log.              *)
LEMMA OldestIsFirst ==
  ASSUME Newest, last \in Nat, kept # {}
  PROVE  Oldest \in kept /\ \A k \in kept : Oldest <= k
<1> DEFINE first == IF last >= Window THEN last - Window + 1 ELSE 1
<1>1. first \in kept /\ \A k \in kept : first <= k
  BY DEF Newest
<1> QED
  BY <1>1 DEF Oldest, Min

(* A new event is after all that is on the way.                            *)
LEMMA AppendKeeps == ASSUME EventInv, NEW s \in Streams, AppendEvent(s) PROVE EventInv'
<1>1. /\ last \in 0 .. MaxEvents /\ last < MaxEvents /\ last' = last + 1
      /\ source' = [source EXCEPT ![last + 1] = s]
      /\ kept' = Pruned(kept \cup {last + 1})
      /\ UNCHANGED <<scope, feed, cursor, batch, wire, since, known, opens>>
  BY DEF EventInv, EventTyped, AppendEvent, server, client
<1>2. EventTyped'
  <2>1. last' \in 0 .. MaxEvents /\ source' \in [Ids -> Streams \cup {All}]
    BY <1>1 DEF EventInv, EventTyped
  <2> QED
    BY <1>1, <2>1 DEF EventInv, EventTyped
<1>3. Newest'
  BY <1>1, PrunedToWindow DEF EventInv, Newest
<1>4. ASSUME NEW c \in Feeds, NEW id \in Nat, NEW i \in 1 .. last, NextOf(c, id, i)
      PROVE  NextOf(c, id, i)'
  <2>1. \A k \in 1 .. last : source'[k] = source[k]
    BY <1>1 DEF EventInv, EventTyped
  <2>2. \A k \in 1 .. last : Matches(c, k)' <=> Matches(c, k)
    BY <1>1, <2>1 DEF Matches
  <2>3. \A k \in id + 1 .. i - 1 : k \in 1 .. last
    BY <1>1
  <2> QED
    BY <1>4, <2>2, <2>3 DEF NextOf
<1>5. ASSUME NEW c \in Feeds PROVE WireFollows(c)'
  <2>1. WireFollows(c) /\ wire'[c] = wire[c] /\ since'[c] = since[c] /\ wire[c] \in Seq(Frames)
        /\ since[c] \in Nat
    BY <1>1 DEF EventInv, EventTyped, client
  <2>2. ASSUME NEW k \in 1 .. Len(wire[c])
        PROVE  /\ wire[c][k].id <= last'
               /\ wire[c][k].kind = "event" => NextOf(c, Before(c, k), wire[c][k].id)'
    <3>1. \A j \in 1 .. Len(wire[c]) : wire[c][j] \in Frames
      BY <2>1, ElementOfSeq
    <3>2. Before(c, k) \in Nat /\ Before(c, k)' = Before(c, k)
      BY <2>1, <3>1, FrameIds DEF Before
    <3>3. ASSUME wire[c][k].kind = "event" PROVE NextOf(c, Before(c, k), wire[c][k].id)'
      <4>1. NextOf(c, Before(c, k), wire[c][k].id)
        BY <2>1, <3>3 DEF WireFollows
      <4>2. wire[c][k].id \in 1 .. last
        BY <2>1, <3>1, <3>2, <4>1, FrameIds DEF NextOf, WireFollows
      <4> QED
        BY <1>1, <1>4, <3>2, <4>1, <4>2, SMTT(30) DEF NextOf, Matches, server
    <3>4. wire[c][k].id <= last' /\ last \in Nat /\ wire[c][k].id \in Nat
      BY <1>1, <2>1, <3>1, FrameIds DEF WireFollows
    <3> QED
      BY <3>3, <3>4
  <2> QED
    BY <2>1, <2>2 DEF WireFollows
<1>6. ASSUME NEW c \in Feeds PROVE BatchFollows(c)'
  <2>1. BatchFollows(c) /\ UNCHANGED <<batch, cursor>> /\ batch[c] \in Seq(Ids) /\ cursor[c] \in Nat
    BY <1>1 DEF EventInv, EventTyped, server
  <2>2. ASSUME NEW k \in 1 .. Len(batch[c])
        PROVE  /\ batch[c][k] <= last'
               /\ NextOf(c, IF k = 1 THEN cursor[c] ELSE batch[c][k - 1], batch[c][k])'
    <3> DEFINE id == IF k = 1 THEN cursor[c] ELSE batch[c][k - 1]
    <3>1. id \in Nat /\ batch[c][k] \in 1 .. last /\ NextOf(c, id, batch[c][k])
      BY <2>1, SMTT(30) DEF BatchFollows
    <3>2. NextOf(c, id, batch[c][k])'
      BY <1>1, <1>4, <2>1, <3>1, SMTT(30) DEF NextOf, Matches, server
    <3> QED
      BY <1>1, <3>1, <3>2
  <2> QED
    BY <2>1, <2>2 DEF BatchFollows
<1>7. ASSUME NEW c \in Feeds PROVE FeedStands(c)'
  BY <1>1 DEF EventInv, FeedStands, Position, server, client
<1> QED
  BY <1>2, <1>3, <1>5, <1>6, <1>7 DEF EventInv

\* A feed that a step does not touch stands as before.
LEMMA OthersFollow ==
  ASSUME EventInv, NEW e \in Feeds,
         UNCHANGED <<store, scope[e], feed[e], cursor[e], batch[e], wire[e], since[e]>>
  PROVE  WireFollows(e)' /\ BatchFollows(e)' /\ FeedStands(e)'
<1>1. \A i, id : NextOf(e, id, i)' <=> NextOf(e, id, i)
  BY DEF store, NextOf, Matches
<1>2. WireFollows(e)'
  BY <1>1 DEF EventInv, store, WireFollows, Before
<1>3. BatchFollows(e)'
  BY <1>1 DEF EventInv, store, BatchFollows
<1>4. FeedStands(e)'
  BY DEF EventInv, FeedStands, Position
<1> QED
  BY <1>2, <1>3, <1>4

(* A feed begins where the client says, or at the end of the log.          *)
LEMMA OpenKeeps ==
  ASSUME EventInv, NEW c \in Feeds, NEW s \in Streams \cup {All}, Open(c, s) PROVE EventInv'
<1>1. EventTyped'
  <2>1. scope' \in [Feeds -> Streams \cup {All}] /\ UNCHANGED <<store, batch, wire>>
    BY DEF EventInv, EventTyped, Open
  <2>2. feed' \in [Feeds -> {"off", "opening", "open", "ending"}]
    BY DEF EventInv, EventTyped, Open
  <2>3. cursor' \in [Feeds -> Nat] /\ since' \in [Feeds -> Nat]
    <3>1. EventTyped
      BY DEF EventInv
    <3>2. CASE UNCHANGED <<cursor, since>>
      BY <3>1, <3>2 DEF EventTyped
    <3>3. CASE \E id \in Nat : cursor' = [cursor EXCEPT ![c] = id]
                 /\ since' = [since EXCEPT ![c] = id]
      BY <3>1, <3>3 DEF EventTyped
    <3>4. \A id \in IF c \in known THEN {since[c]} ELSE 0 .. MaxEvents + 1 : id \in Nat
      BY <3>1 DEF EventTyped
    <3> QED
      BY <3>2, <3>3, <3>4 DEF Open
  <2> QED
    BY <2>1, <2>2, <2>3 DEF EventInv, EventTyped, store
<1>2. Newest'
  BY DEF EventInv, Newest, Open, store
<1>3. WireFollows(c)' /\ BatchFollows(c)' /\ FeedStands(c)'
  BY DEF EventInv, EventTyped, Open, WireFollows, BatchFollows, FeedStands, Position
<1>4. ASSUME NEW e \in Feeds, e # c PROVE WireFollows(e)' /\ BatchFollows(e)' /\ FeedStands(e)'
  <2>1. UNCHANGED <<store, scope[e], feed[e], cursor[e], batch[e], wire[e], since[e]>>
    BY <1>4 DEF EventInv, EventTyped, Open
  <2> QED
    BY <2>1, OthersFollow
<1> QED
  BY <1>1, <1>2, <1>3, <1>4 DEF EventInv

LEMMA ReadInitialCursorKeeps ==
  ASSUME EventInv, NEW c \in Feeds, ReadInitialCursor(c) PROVE EventInv'
<1>1. InitialCursor \in Nat
  BY OldestIsFirst DEF EventInv, EventTyped, Newest, InitialCursor
<1>2. EventTyped'
  BY <1>1 DEF EventInv, EventTyped, ReadInitialCursor, store
<1>3. Newest'
  BY DEF EventInv, Newest, ReadInitialCursor, store
<1>4. WireFollows(c)' /\ BatchFollows(c)' /\ FeedStands(c)'
  BY DEF EventInv, EventTyped, ReadInitialCursor, WireFollows, BatchFollows, FeedStands,
         Position
<1>5. ASSUME NEW e \in Feeds, e # c PROVE WireFollows(e)' /\ BatchFollows(e)' /\ FeedStands(e)'
  <2>1. UNCHANGED <<store, scope[e], feed[e], cursor[e], batch[e], wire[e], since[e]>>
    BY <1>5 DEF EventInv, EventTyped, ReadInitialCursor
  <2> QED
    BY <2>1, OthersFollow
<1> QED
  BY <1>2, <1>3, <1>4, <1>5 DEF EventInv

(* A feed ends, or its client goes away.                                   *)
LEMMA FinishKeeps == ASSUME EventInv, NEW c \in Feeds, Finish(c) PROVE EventInv'
<1>1. EventTyped'
  BY DEF EventInv, EventTyped, Finish, store, client
<1>2. Newest'
  BY DEF EventInv, Newest, Finish, store
<1>3. WireFollows(c)' /\ BatchFollows(c)' /\ FeedStands(c)'
  BY DEF EventInv, EventTyped, Finish, client, WireFollows, BatchFollows, FeedStands
<1>4. ASSUME NEW e \in Feeds, e # c PROVE WireFollows(e)' /\ BatchFollows(e)' /\ FeedStands(e)'
  <2>1. UNCHANGED <<store, scope[e], feed[e], cursor[e], batch[e], wire[e], since[e]>>
    BY <1>4 DEF EventInv, EventTyped, Finish, client
  <2> QED
    BY <2>1, OthersFollow
<1> QED
  BY <1>1, <1>2, <1>3, <1>4 DEF EventInv

LEMMA DisconnectKeeps == ASSUME EventInv, NEW c \in Feeds, Disconnect(c) PROVE EventInv'
<1>1. EventTyped'
  <2>1. /\ feed' = [feed EXCEPT ![c] = "off"] /\ batch' = [batch EXCEPT ![c] = <<>>]
        /\ wire' = [wire EXCEPT ![c] = <<>>] /\ UNCHANGED <<last, source, scope, cursor, since>>
    BY DEF Disconnect, store, client
  <2>2. <<>> \in Seq(Ids) /\ <<>> \in Seq(Frames)
    OBVIOUS
  <2> QED
    BY <2>1, <2>2 DEF EventInv, EventTyped
<1>2. Newest'
  BY DEF EventInv, Newest, Disconnect, store
<1>3. WireFollows(c)' /\ BatchFollows(c)' /\ FeedStands(c)'
  BY DEF EventInv, EventTyped, Disconnect, client, WireFollows, BatchFollows, FeedStands
<1>4. ASSUME NEW e \in Feeds, e # c PROVE WireFollows(e)' /\ BatchFollows(e)' /\ FeedStands(e)'
  <2>1. UNCHANGED <<store, scope[e], feed[e], cursor[e], batch[e], wire[e], since[e]>>
    BY <1>4 DEF EventInv, EventTyped, Disconnect, client
  <2> QED
    BY <2>1, OthersFollow
<1> QED
  BY <1>1, <1>2, <1>3, <1>4 DEF EventInv

\* What the query returns are the next events of the feed, each after the one before it.
LEMMA PageFollows ==
  ASSUME EventInv, NEW c \in Feeds, ~Expired(c), NEW n \in 1 .. Batch,
         NEW s \in [1 .. n -> After(c)], FirstOf(After(c), s), NEW k \in 1 .. n
  PROVE  s[k] \in 1 .. last /\ NextOf(c, IF k = 1 THEN cursor[c] ELSE s[k - 1], s[k])
<1> DEFINE id == IF k = 1 THEN cursor[c] ELSE s[k - 1]
<1>1. Len(s) = n /\ \A j \in 1 .. n : s[j] \in After(c) /\ s[j] \in 1 .. last
  BY DEF EventInv, Newest, After
<1>2. id \in Nat /\ id >= cursor[c] /\ s[k] > id /\ Matches(c, s[k]) /\ cursor[c] \in Nat
  BY <1>1 DEF EventInv, EventTyped, After, FirstOf
<1>3. ASSUME NEW i \in id + 1 .. s[k] - 1, Matches(c, i) PROVE FALSE
  <2>1. i \in 1 .. last /\ i > cursor[c] /\ kept # {}
    <3>1. s[k] \in After(c) /\ s[k] \in 1 .. last /\ i \in Nat /\ i > id /\ i < s[k]
      BY <1>1, <1>2
    <3>2. i <= last /\ i >= 1 /\ i > cursor[c] /\ last \in Nat
      BY <1>2, <3>1 DEF EventInv, EventTyped
    <3> QED
      BY <3>1, <3>2 DEF After
  <2>2. i \in kept
    <3>1. Oldest \in kept /\ cursor[c] >= Oldest - 1
      BY <1>2, <2>1, OldestIsFirst, SMTT(30) DEF EventInv, EventTyped, Expired, Newest
    <3> QED
      BY <2>1, <3>1 DEF EventInv, EventTyped, Newest
  <2>3. i \in After(c)
    BY <1>3, <2>1, <2>2 DEF After
  <2>4. CASE \E j \in 1 .. n : s[j] = i
    <3>1. PICK j \in 1 .. n : s[j] = i
      BY <2>4
    <3>2. \A l, m \in 1 .. n : l < m => s[l] < s[m]
      BY <1>1 DEF FirstOf
    <3>3. i \in Nat /\ id < i /\ i < s[k] /\ s[j] = i
      BY <1>1, <1>2, <3>1
    <3>4. j < k
      BY <1>1, <3>2, <3>3
    <3>5. CASE k = 1
      BY <3>4, <3>5
    <3>6. CASE k # 1
      <4>1. id = s[k - 1] /\ k - 1 \in 1 .. n /\ (j < k - 1 \/ j = k - 1)
        BY <3>4, <3>6
      <4>2. s[j] <= s[k - 1]
        BY <1>1, <3>2, <4>1
      <4>3. s[j] \in Nat /\ s[k - 1] \in Nat
        BY <1>1, <4>1
      <4> QED
        BY <3>3, <4>1, <4>2, <4>3
    <3> QED
      BY <3>5, <3>6
  <2>5. CASE Len(s) = Batch /\ s[Batch] < i
    <3>1. n = Batch /\ s[k] <= s[n]
      BY <1>1, <2>5 DEF FirstOf
    <3> QED
      BY <1>1, <1>3, <2>5, <3>1
  <2> QED
    BY <1>1, <2>3, <2>4, <2>5 DEF FirstOf
<1> QED
  BY <1>1, <1>2, <1>3 DEF NextOf

(* A page is read, or it turns out that events are gone.                   *)
LEMMA ReadAfterKeeps == ASSUME EventInv, NEW c \in Feeds, ReadAfter(c) PROVE EventInv'
<1>1. /\ feed[c] = "open" /\ batch[c] = <<>>
      /\ UNCHANGED <<last, source, kept, scope, cursor, since>> /\ EventTyped
  BY DEF EventInv, ReadAfter, store, client
<1>2. ASSUME NEW e \in Feeds, NEW i, NEW id PROVE NextOf(e, id, i)' <=> NextOf(e, id, i)
  BY <1>1 DEF NextOf, Matches
<1>3. ASSUME NEW e \in Feeds, e # c PROVE WireFollows(e)' /\ BatchFollows(e)' /\ FeedStands(e)'
  <2>1. UNCHANGED <<store, scope[e], feed[e], cursor[e], batch[e], wire[e], since[e]>>
    BY <1>3 DEF EventInv, EventTyped, ReadAfter, client
  <2> QED
    BY <2>1, OthersFollow
<1>4. CASE /\ wire' = [wire EXCEPT ![c] = Append(@, [kind |-> "reset", id |-> last])]
           /\ feed' = [feed EXCEPT ![c] = "ending"]
           /\ UNCHANGED batch
  <2> DEFINE frame == [kind |-> "reset", id |-> last]
  <2>1. frame \in Frames /\ wire[c] \in Seq(Frames) /\ wire'[c] = Append(wire[c], frame)
    BY <1>1, <1>4 DEF EventTyped, Frames
  <2>2. wire' = [wire EXCEPT ![c] = Append(wire[c], frame)]
    BY <1>1, <1>4 DEF EventTyped
  <2>3. EventTyped'
    <3>1. Append(wire[c], frame) \in Seq(Frames)
      BY <2>1, AppendProperties
    <3>2. feed' \in [Feeds -> {"off", "opening", "open", "ending"}] /\ UNCHANGED batch
      BY <1>1, <1>4 DEF EventTyped
    <3> HIDE DEF frame
    <3> QED
      BY <1>1, <2>2, <3>1, <3>2 DEF EventTyped
  <2>4. WireFollows(c)'
    <3>1. WireFollows(c) /\ last \in Nat
      BY <1>1 DEF EventInv, EventTyped
    <3>2. /\ Len(wire'[c]) = Len(wire[c]) + 1 /\ wire'[c][Len(wire[c]) + 1] = frame
          /\ \A k \in 1 .. Len(wire[c]) : wire'[c][k] = wire[c][k]
      BY <2>1, AppendProperties
    <3>3. frame.kind = "reset" /\ frame.id = last /\ Len(wire[c]) \in Nat
      BY <2>1
    <3> HIDE DEF frame
    <3>4. ASSUME NEW k \in 1 .. Len(wire[c]) + 1
          PROVE  /\ wire'[c][k].id <= last
                 /\ wire'[c][k].kind = "event" =>
                      k # Len(wire[c]) + 1 /\ NextOf(c, Before(c, k), wire'[c][k].id)
      BY <3>1, <3>2, <3>3, SMTT(30) DEF WireFollows
    <3>5. ASSUME NEW k \in 1 .. Len(wire[c]) PROVE Before(c, k)' = Before(c, k)
      <4>1. k = 1 \/ k - 1 \in 1 .. Len(wire[c])
        BY <3>3
      <4> QED
        BY <1>1, <3>2, <4>1 DEF Before
    <3>6. \A k \in 1 .. Len(wire[c]) + 1 : k = Len(wire[c]) + 1 \/ k \in 1 .. Len(wire[c])
      BY <3>3
    <3> QED
      BY <1>1, <1>2, <3>2, <3>4, <3>5, <3>6 DEF WireFollows
  <2>5. BatchFollows(c)' /\ FeedStands(c)'
    BY <1>1, <1>4 DEF BatchFollows, FeedStands, EventTyped
  <2> QED
    BY <1>1, <1>3, <2>3, <2>4, <2>5 DEF EventInv, Newest
<1>5. ASSUME ~Expired(c), NEW n \in 1 .. Batch, NEW s \in [1 .. n -> After(c)],
             FirstOf(After(c), s), batch' = [batch EXCEPT ![c] = s], UNCHANGED <<feed, wire>>
      PROVE  EventInv'
  <2>1. \A k \in 1 .. n : s[k] \in 1 .. last
          /\ NextOf(c, IF k = 1 THEN cursor[c] ELSE s[k - 1], s[k])
    BY <1>5, PageFollows
  <2>2. s \in Seq(Ids) /\ Len(s) = n /\ batch'[c] = s
    <3>1. last <= MaxEvents /\ s \in [1 .. n -> Ids]
      BY <1>1, <1>5, <2>1, SMTT(30) DEF EventTyped
    <3> QED
      BY <1>1, <1>5, <3>1, SMTT(30) DEF EventTyped
  <2>3. EventTyped'
    BY <1>1, <1>5, <2>2 DEF EventTyped
  <2>4. WireFollows(c)' /\ FeedStands(c)'
    BY <1>1, <1>2, <1>5 DEF EventInv, WireFollows, Before, FeedStands, Position
  <2>5. BatchFollows(c)'
    BY <1>1, <1>2, <2>1, <2>2 DEF BatchFollows, EventTyped
  <2> QED
    BY <1>1, <1>3, <2>3, <2>4, <2>5 DEF EventInv, Newest
<1> QED
  BY <1>4, <1>5 DEF ReadAfter

(* One event of the page goes to the client.                               *)
LEMMA YieldKeeps == ASSUME EventInv, NEW c \in Feeds, Yield(c) PROVE EventInv'
<1> DEFINE event == Head(batch[c])
           frame == [kind |-> "event", id |-> event]
<1>1. /\ feed[c] = "open" /\ batch[c] # <<>> /\ EventTyped
      /\ wire' = [wire EXCEPT ![c] = Append(wire[c], frame)]
      /\ cursor' = [cursor EXCEPT ![c] = event]
      /\ UNCHANGED <<last, source, final, kept, scope, since>>
      /\ \/ feed' = [feed EXCEPT ![c] = "ending"] /\ batch' = [batch EXCEPT ![c] = <<>>]
         \/ batch' = [batch EXCEPT ![c] = Tail(batch[c])] /\ UNCHANGED feed
  BY DEF EventInv, Yield, store, client
<1>2. ASSUME NEW e \in Feeds, NEW i, NEW id PROVE NextOf(e, id, i)' <=> NextOf(e, id, i)
  BY <1>1 DEF NextOf, Matches
<1>3. ASSUME NEW e \in Feeds, e # c PROVE WireFollows(e)' /\ BatchFollows(e)' /\ FeedStands(e)'
  <2> DEFINE frames == Append(wire[c], frame)
             others == Tail(batch[c])
  <2> HIDE DEF frames, others, event
  <2>1. wire' = [wire EXCEPT ![c] = frames] /\ cursor' = [cursor EXCEPT ![c] = event]
        /\ (batch' = [batch EXCEPT ![c] = <<>>] \/ batch' = [batch EXCEPT ![c] = others])
        /\ (feed' = [feed EXCEPT ![c] = "ending"] \/ UNCHANGED feed)
    BY <1>1 DEF frames, others
  <2>2. UNCHANGED <<store, scope[e], feed[e], cursor[e], batch[e], wire[e], since[e]>>
    BY <1>1, <1>3, <2>1 DEF EventTyped, store
  <2> QED
    BY <2>2, OthersFollow
<1>4. /\ batch[c] \in Seq(Ids) /\ wire[c] \in Seq(Frames) /\ event = batch[c][1]
      /\ Len(batch[c]) >= 1 /\ event \in Ids /\ event <= last /\ NextOf(c, cursor[c], event)
  <2>1. /\ batch[c] \in Seq(Ids) /\ wire[c] \in Seq(Frames) /\ batch[c] # <<>>
    BY <1>1 DEF EventTyped
  <2>2. Len(batch[c]) \in Nat /\ Len(batch[c]) >= 1 /\ event = batch[c][1]
    BY <2>1
  <2> HIDE DEF event
  <2>3. event \in Ids
    BY <2>1, <2>2, ElementOfSeq
  <2>4. event <= last /\ NextOf(c, cursor[c], event)
    BY <2>2 DEF EventInv, BatchFollows
  <2> QED
    BY <2>1, <2>3, <2>4, <2>2
<1>5. frame \in Frames /\ wire'[c] = Append(wire[c], frame) /\ cursor'[c] = event
  BY <1>1, <1>4 DEF EventTyped, Frames
<1>6. EventTyped'
  <2>1. Append(wire[c], frame) \in Seq(Frames) /\ Tail(batch[c]) \in Seq(Ids) /\ <<>> \in Seq(Ids)
    <3>1. Append(wire[c], frame) \in Seq(Frames)
      BY <1>4, <1>5, AppendProperties
    <3>2. Tail(batch[c]) \in Seq(Ids)
      BY <1>1, <1>4, HeadTailProperties
    <3> QED
      BY <3>1, <3>2
  <2>2. event \in Nat
    BY <1>4
  <2> HIDE DEF frame, event
  <2> QED
    BY <1>1, <2>1, <2>2, ZenonT(40) DEF EventTyped
<1>7. WireFollows(c)'
  <2>1. cursor[c] = Position(c) /\ WireFollows(c)
    BY <1>1 DEF EventInv, FeedStands
  <2> QED
    BY <1>1, <1>2, <1>4, <1>5, <2>1 DEF WireFollows, Before, Position
<1>8. BatchFollows(c)'
  <2>1. CASE batch' = [batch EXCEPT ![c] = <<>>]
    BY <1>1, <2>1 DEF BatchFollows, EventTyped
  <2>2. CASE batch' = [batch EXCEPT ![c] = Tail(batch[c])]
    <3>1. batch'[c] = Tail(batch[c]) /\ BatchFollows(c)
      BY <1>1, <2>2 DEF EventTyped, EventInv
    <3>2. Len(batch'[c]) = Len(batch[c]) - 1
          /\ \A k \in 1 .. Len(batch[c]) - 1 : batch'[c][k] = batch[c][k + 1]
      BY <1>1, <1>4, <3>1
    <3> HIDE DEF frame, event
    <3>3. ASSUME NEW k \in 1 .. Len(batch'[c])
          PROVE  /\ batch'[c][k] <= last
                 /\ NextOf(c, IF k = 1 THEN event ELSE batch'[c][k - 1], batch'[c][k])
      <4>1. k + 1 \in 1 .. Len(batch[c]) /\ k \in 1 .. Len(batch[c]) - 1
        BY <1>4, <3>2
      <4>2. batch[c][k + 1] <= last /\ NextOf(c, batch[c][k], batch[c][k + 1])
        BY <3>1, <4>1 DEF BatchFollows
      <4>3. k = 1 \/ k - 1 \in 1 .. Len(batch[c]) - 1
        BY <4>1
      <4>4. (IF k = 1 THEN event ELSE batch'[c][k - 1]) = batch[c][k]
        BY <1>4, <3>2, <4>1, <4>3
      <4> QED
        BY <3>2, <4>1, <4>2, <4>4
    <3> QED
      BY <1>1, <1>2, <1>5, <3>3 DEF BatchFollows
  <2> QED
    BY <1>1, <2>1, <2>2
<1>9. FeedStands(c)'
  <2>1. wire'[c] # <<>> /\ wire'[c][Len(wire'[c])] = frame /\ frame.id = event
    <3>1. frame.id = event /\ Len(wire[c]) \in Nat
      BY <1>4
    <3>2. wire[c] \in Seq(Frames) /\ frame \in Frames /\ wire'[c] = Append(wire[c], frame)
      BY <1>4, <1>5
    <3> HIDE DEF frame
    <3>3. wire'[c] # <<>> /\ Len(wire'[c]) = Len(wire[c]) + 1 /\ wire'[c][Len(wire[c]) + 1] = frame
      BY <3>2, AppendProperties
    <3> QED
      BY <3>1, <3>3
  <2>2. feed'[c] \in {"open", "ending"} /\ (feed'[c] # "open" => batch'[c] = <<>>)
    BY <1>1 DEF EventTyped
  <2> HIDE DEF frame, event
  <2> QED
    BY <1>5, <2>1, <2>2 DEF FeedStands, Position
<1> QED
  BY <1>1, <1>3, <1>6, <1>7, <1>8, <1>9 DEF EventInv, Newest

(* Frames are written to the wire.                                         *)
LEMMA RenderKeeps == ASSUME EventInv, NEW c \in Feeds, Render(c) PROVE EventInv'
<1> DEFINE rest == Tail(wire[c])
           id == Head(wire[c]).id
<1>1. /\ wire[c] # <<>> /\ wire' = [wire EXCEPT ![c] = rest] /\ EventTyped
      /\ since' = [since EXCEPT ![c] = id]
      /\ UNCHANGED <<last, source, final, kept, scope, feed, cursor, batch>>
  BY DEF EventInv, Render, store, server
<1>2. ASSUME NEW e \in Feeds, NEW i, NEW j PROVE NextOf(e, j, i)' <=> NextOf(e, j, i)
  BY <1>1 DEF NextOf, Matches
<1>3. ASSUME NEW e \in Feeds, e # c PROVE WireFollows(e)' /\ BatchFollows(e)' /\ FeedStands(e)'
  <2> HIDE DEF rest, id
  <2>1. UNCHANGED <<store, scope[e], feed[e], cursor[e], batch[e], wire[e], since[e]>>
    BY <1>1, <1>3 DEF EventTyped, store
  <2> QED
    BY <2>1, OthersFollow
<1>4. /\ wire[c] \in Seq(Frames) /\ id = wire[c][1].id /\ Len(wire[c]) \in Nat /\ Len(wire[c]) >= 1
      /\ wire[c][1] \in Frames /\ rest \in Seq(Frames) /\ Len(rest) = Len(wire[c]) - 1
      /\ \A k \in 1 .. Len(wire[c]) - 1 : rest[k] = wire[c][k + 1]
  <2>1. wire[c] \in Seq(Frames) /\ wire[c] # <<>>
    BY <1>1 DEF EventTyped
  <2>2. Len(wire[c]) \in Nat /\ Len(wire[c]) >= 1
    BY <2>1
  <2>3. 1 \in 1 .. Len(wire[c])
    BY <2>2
  <2>4. wire[c][1] \in Frames
    BY <2>1, <2>3, ElementOfSeq
  <2>5. /\ rest \in Seq(Frames) /\ Len(rest) = Len(wire[c]) - 1
        /\ \A k \in 1 .. Len(rest) : rest[k] = wire[c][k + 1]
    BY <2>1, HeadTailProperties
  <2> QED
    BY <2>1, <2>2, <2>4, <2>5
<1>5. wire'[c] = rest /\ since'[c] = id /\ id \in Nat
  BY <1>1, <1>4, FrameIds DEF EventTyped
<1> HIDE DEF rest, id
<1>6. EventTyped'
  BY <1>1, <1>4, <1>5 DEF EventTyped
<1>7. WireFollows(c)'
  <2>1. WireFollows(c)
    BY DEF EventInv
  <2>2. ASSUME NEW k \in 1 .. Len(rest)
        PROVE  /\ rest[k].id <= last
               /\ rest[k].kind = "event"
                    => NextOf(c, IF k = 1 THEN id ELSE rest[k - 1].id, rest[k].id)
    <3>1. k + 1 \in 1 .. Len(wire[c]) /\ k \in 1 .. Len(wire[c]) - 1 /\ rest[k] = wire[c][k + 1]
      BY <1>4
    <3>2. (IF k = 1 THEN id ELSE rest[k - 1].id) = Before(c, k + 1)
      <4>1. k = 1 \/ (k - 1 \in 1 .. Len(wire[c]) - 1 /\ k - 1 + 1 = k)
        BY <3>1
      <4>2. k + 1 # 1 /\ k + 1 - 1 = k
        BY <3>1
      <4> QED
        BY <1>4, <4>1, <4>2 DEF Before
    <3> QED
      BY <2>1, <3>1, <3>2 DEF WireFollows
  <2> QED
    BY <1>1, <1>2, <1>5, <2>2 DEF WireFollows, Before
<1>8. BatchFollows(c)'
  BY <1>1, <1>2 DEF EventInv, BatchFollows
<1>9. FeedStands(c)'
  <2>1. FeedStands(c) /\ (rest = <<>> <=> Len(wire[c]) = 1)
    <3>1. rest = <<>> <=> Len(rest) = 0
      BY <1>4, EmptySeq
    <3> QED
      BY <1>4, <3>1 DEF EventInv
  <2>2. rest # <<>> => rest[Len(rest)] = wire[c][Len(wire[c])]
    BY <1>4, <1>5, <2>1
  <2> QED
    BY <1>1, <1>4, <1>5, <2>1, <2>2 DEF FeedStands, Position
<1> QED
  BY <1>1, <1>3, <1>6, <1>7, <1>8, <1>9 DEF EventInv, Newest

(* The inductive invariant of the log and its feeds holds.                 *)
LEMMA EventInvariant == EventSpec => []EventInv
<1>1. EventInv /\ [EventNext]_eventVars => EventInv'
  <2> SUFFICES ASSUME EventInv, [EventNext]_eventVars PROVE EventInv'
    OBVIOUS
  <2>1. CASE UNCHANGED eventVars
    <3>1. EventTyped' /\ Newest'
      BY <2>1 DEF eventVars, store, server, client, EventInv, EventTyped, Newest
    <3>2. ASSUME NEW e \in Feeds PROVE WireFollows(e)' /\ BatchFollows(e)' /\ FeedStands(e)'
      BY <2>1, OthersFollow DEF eventVars, server, client
    <3> QED
      BY <3>1, <3>2 DEF EventInv
  <2>2. CASE EventNext
    BY <2>2, AppendKeeps, OpenKeeps, ReadInitialCursorKeeps, ReadAfterKeeps, YieldKeeps,
       RenderKeeps,
       FinishKeeps, DisconnectKeeps DEF EventNext, FeedStep
  <2> QED
    BY <2>1, <2>2
<1> QED
  BY InitEvents, <1>1, PTL DEF EventSpec

(* Every event a client renders is the next one of its feed after what it  *)
(* rendered before, in this connection or an earlier one, whatever was     *)
(* pruned or lost, unless it was told to refresh: nothing is skipped and   *)
(* nothing comes twice.                                                    *)
THEOREM NoEventIsSkipped == EventSpec => []NothingSkipped
<1>1. EventInv => NothingSkipped
  BY DEF EventInv, WireFollows, NothingSkipped
<1> QED
  BY EventInvariant, <1>1, PTL

\* What is left of the types: bounds of cursors, pages and connections.
EventBounds ==
  /\ final \subseteq 1 .. last /\ known \subseteq Feeds /\ opens \in [Feeds -> 0 .. MaxOpens]
  /\ cursor \in [Feeds -> 0 .. MaxEvents + 1] /\ since \in [Feeds -> 0 .. MaxEvents + 1]
  /\ \A c \in Feeds : Len(batch[c]) <= Batch

(* A step of the log or of a feed keeps them.                              *)
LEMMA EventBoundsKept == ASSUME EventInv, EventBounds, EventNext PROVE EventBounds'
<1> USE DEF EventBounds, EventInv, EventTyped, store, server, client
<1>1. ASSUME NEW s \in Streams, AppendEvent(s) PROVE EventBounds'
  BY <1>1 DEF AppendEvent
<1>2. ASSUME NEW c \in Feeds, NEW s \in Streams \cup {All}, Open(c, s) PROVE EventBounds'
  <2>1. /\ UNCHANGED <<last, final, batch>> /\ opens[c] < MaxOpens
        /\ opens' = [opens EXCEPT ![c] = @ + 1]
        /\ \/ UNCHANGED <<cursor, since, known>>
           \/ \E id \in IF c \in known THEN {since[c]} ELSE 0 .. MaxEvents + 1 :
                /\ cursor' = [cursor EXCEPT ![c] = id]
                /\ since' = [since EXCEPT ![c] = id]
                /\ known' = known \cup {c}
    BY <1>2 DEF Open
  <2>2. opens' \in [Feeds -> 0 .. MaxOpens]
    BY <2>1
  <2>3. CASE UNCHANGED <<cursor, since, known>>
    BY <2>1, <2>2, <2>3
  <2>4. ASSUME NEW id \in 0 .. MaxEvents + 1, cursor' = [cursor EXCEPT ![c] = id],
               since' = [since EXCEPT ![c] = id], known' = known \cup {c}
        PROVE  EventBounds'
    BY <2>1, <2>2, <2>4
  <2>5. since[c] \in 0 .. MaxEvents + 1
    OBVIOUS
  <2> QED
    BY <2>1, <2>3, <2>4, <2>5
<1>3. ASSUME NEW c \in Feeds, ReadInitialCursor(c) PROVE EventBounds'
  <2>1. InitialCursor \in 0 .. MaxEvents + 1
    <3>1. kept \subseteq 1 .. last /\ last \in Nat
      BY DEF Newest
    <3>2. CASE kept = {}
      BY <3>2 DEF InitialCursor
    <3>3. CASE kept # {}
      <4>1. Oldest \in 1 .. last /\ last \in 0 .. MaxEvents
        BY <3>1, <3>3, OldestIsFirst
      <4>2. InitialCursor = Oldest - 1
        BY <3>3 DEF InitialCursor
      <4> HIDE DEF EventBounds, EventInv
      <4> QED
        BY <4>1, <4>2
    <3> QED
      BY <3>2, <3>3
  <2> QED
    BY <1>3, <2>1 DEF ReadInitialCursor
<1>4. ASSUME NEW c \in Feeds, ReadAfter(c) PROVE EventBounds'
  <2>1. /\ UNCHANGED <<last, source, final, kept, scope, cursor, since, known, opens>>
        /\ \/ batch' = batch
           \/ \E n \in 1 .. Batch : \E s \in [1 .. n -> After(c)] :
                batch' = [batch EXCEPT ![c] = s]
    BY <1>4 DEF ReadAfter
  <2>2. CASE batch' = batch
    BY <2>1, <2>2
  <2>3. ASSUME NEW n \in 1 .. Batch, NEW s \in [1 .. n -> After(c)],
               batch' = [batch EXCEPT ![c] = s]
        PROVE  EventBounds'
    <3>1. s \in Seq(After(c)) /\ Len(s) <= Batch
      OBVIOUS
    <3> QED
      BY <2>1, <2>3, <3>1
  <2> QED
    BY <2>1, <2>2, <2>3
<1>5. ASSUME NEW c \in Feeds, Yield(c) PROVE EventBounds'
  <2>1. batch[c] \in Seq(Ids) /\ batch[c] # <<>>
    BY <1>5 DEF Yield
  <2>2. Head(batch[c]) \in Ids /\ Len(Tail(batch[c])) <= Batch /\ Len(<<>>) <= Batch
    BY <2>1, HeadTailProperties
  <2>3. /\ cursor' = [cursor EXCEPT ![c] = Head(batch[c])]
        /\ batch' = [batch EXCEPT ![c] = <<>>] \/ batch' = [batch EXCEPT ![c] = Tail(@)]
        /\ UNCHANGED <<last, source, final, kept, scope, since, known, opens>>
    BY <1>5 DEF Yield
  <2>4. cursor' \in [Feeds -> 0 .. MaxEvents + 1]
    BY <2>2, <2>3
  <2>5. \A f \in Feeds : Len(batch'[f]) <= Batch
    BY <2>2, <2>3
  <2> QED
    BY <2>3, <2>4, <2>5
<1>6. ASSUME NEW c \in Feeds, Render(c) PROVE EventBounds'
  <2>1. Head(wire[c]) \in Frames
    BY <1>6, HeadTailProperties DEF Render
  <2>2. Head(wire[c]).id \in 0 .. MaxEvents
    BY <2>1 DEF Frames
  <2> QED
    BY <1>6, <2>2 DEF Render
<1>7. ASSUME NEW c \in Feeds, Finish(c) PROVE EventBounds'
  BY <1>7 DEF Finish
<1>8. ASSUME NEW c \in Feeds, Disconnect(c) PROVE EventBounds'
  BY <1>8 DEF Disconnect
<1> QED
  BY <1>1, <1>2, <1>3, <1>4, <1>5, <1>6, <1>7, <1>8 DEF EventNext, FeedStep

(* The types of the log and its feeds hold.                                *)
LEMMA EventsAreTyped == EventSpec => []EventTypeOK
<1>1. EventInit => EventBounds
  BY DEF EventInit, EventBounds
<1>2. EventInv /\ EventBounds /\ [EventNext]_eventVars => EventBounds'
  <2>1. ASSUME EventBounds, UNCHANGED eventVars PROVE EventBounds'
    BY <2>1 DEF EventBounds, eventVars, store, server, client
  <2> QED
    BY <2>1, EventBoundsKept
<1>3. EventInv /\ EventBounds => EventTypeOK
  BY DEF EventInv, EventTyped, EventBounds, Newest, EventTypeOK, Frames
<1> QED
  BY EventInvariant, <1>1, <1>2, <1>3, PTL DEF EventSpec

HIDE EventAssumption DEF Ids

-----------------------------------------------------------------------------
(* ProviderRequest.  No request goes on unknown, for any number of calls   *)
(* and threads.                                                            *)

Answering == {"attaching", "between", "reading"}

\* A coroutine that sends has its answer; a thread that reads has left its response where
\* cancel() finds it; a call in cancel() is told.
RequestInv ==
  /\ coroutine \in [Calls -> {"none", "waiting", "sending", "ended"} \cup Drains]
  /\ exchange \in [Calls -> {"none", "queued", "over"} \cup Busy]
  /\ \A o \in Calls :
       /\ coroutine[o] = "sending" => exchange[o] = "over"
       /\ exchange[o] \in Answering => o \in attached
       /\ o \in closing => o \in told
  /\ NoRequestIsForgotten

USE DEF RequestInv, NoRequestIsForgotten, Answering, Busy, Drains, CoroutineAt, ExchangeAt

LEMMA InitRequest == ProviderInit => RequestInv
  BY DEF ProviderInit

(* The event loop: whoever ends a coroutine has the answer or quarantines.     *)
LEMMA LoopKeeps == ASSUME RequestInv, NEW o \in Calls, LoopStep(o) PROVE RequestInv'
<1>1. CASE CloseTold(o)
  BY <1>1 DEF CloseTold
<1>2. CASE DoneCallback(o)
  BY <1>2 DEF DoneCallback, Tell, exchangeVars
<1>3. CASE ThrowInto(o)
  BY <1>3 DEF ThrowInto, Tell, ThrownOut, exchangeVars
<1>4. CASE SeeCancelled(o)
  BY <1>4 DEF SeeCancelled, exchangeVars
<1>5. CASE SeeDeadline(o)
  BY <1>5 DEF SeeDeadline, Tell, exchangeVars
<1>6. CASE SeeAnswer(o)
  BY <1>6 DEF SeeAnswer, exchangeVars
<1>7. CASE EndDrain(o)
  BY <1>7 DEF EndDrain, DrainEnded, exchangeVars
<1>8. CASE SendAudio(o)
  BY <1>8 DEF SendAudio, exchangeVars
<1> QED
  BY <1>1, <1>2, <1>3, <1>4, <1>5, <1>6, <1>7, <1>8 DEF LoopStep

(* The thread: it reads only after a look at the event.                        *)
LEMMA ThreadKeeps == ASSUME RequestInv, NEW o \in Calls, ThreadStep(o) PROVE RequestInv'
<1> USE DEF EndThread, loopVars
<1>1. CASE BeginRequest(o)
  BY <1>1 DEF BeginRequest
<1>2. CASE ResolveAddress(o)
  BY <1>2 DEF ResolveAddress
<1>3. CASE OpenResponse(o)
  BY <1>3 DEF OpenResponse
<1>4. CASE AttachResponse(o)
  BY <1>4 DEF AttachResponse
<1>5. CASE LookAfterAttach(o)
  BY <1>5 DEF LookAfterAttach, Attached
<1>6. CASE BeginRead(o)
  BY <1>6 DEF BeginRead
<1>7. CASE ReadReturns(o)
  BY <1>7 DEF ReadReturns
<1> QED
  BY <1>1, <1>2, <1>3, <1>4, <1>5, <1>6, <1>7 DEF ThreadStep

(* The inductive invariant of the calls holds.                             *)
LEMMA RequestInvariant == ProviderSpec => []RequestInv
<1>1. ASSUME RequestInv, [ProviderNext]_providerVars PROVE RequestInv'
  <2>1. ASSUME NEW o \in Calls, CallProvider(o) PROVE RequestInv'
    BY <1>1, <2>1 DEF CallProvider
  <2>2. ASSUME NEW o \in Calls, CancelCall(o) PROVE RequestInv'
    BY <1>1, <2>2 DEF CancelCall, exchangeVars
  <2>3. CASE ReplaceProviderWorker
    BY <1>1, <2>3 DEF ReplaceProviderWorker
  <2>4. CASE UNCHANGED providerVars
    BY <1>1, <2>4 DEF providerVars
  <2> QED
    BY <1>1, <2>1, <2>2, <2>3, <2>4, LoopKeeps, ThreadKeeps DEF ProviderNext
<1> QED
  BY InitRequest, <1>1, PTL DEF ProviderSpec

(* A request that outlives its call is known to the Worker, and none reads on  *)
(* in the open response of a call that was cancelled.                          *)
THEOREM RequestsAreRemembered == ProviderSpec => []NoRequestIsForgotten
<1>1. RequestInv => NoRequestIsForgotten
  OBVIOUS
<1> QED
  BY RequestInvariant, <1>1, PTL

\* The types; the loop is at one call at a time.
ProviderTyped ==
  /\ caller \in [Calls -> {"none", "open", "cancelled", "answered"}]
  /\ coroutine \in [Calls -> {"none", "waiting", "sending", "ended"} \cup Drains]
  /\ toThrow \subseteq Calls /\ toCall \subseteq Calls /\ told \subseteq Calls
  /\ closing \subseteq told /\ (closing = {} \/ \E o \in Calls : closing = {o})
  /\ exchange \in [Calls -> {"none", "queued", "over"} \cup Busy]
  /\ attached \subseteq Calls /\ shut \subseteq told
  /\ ending \in [Calls -> {"nothing", "audio", "failure"}]
  /\ refusing \in BOOLEAN

(* What the loop does is typed, and begins one cancellation at a time.     *)
LEMMA LoopIsTyped ==
  ASSUME ProviderTyped, NEW o \in Calls, CallProvider(o) \/ CancelCall(o) \/ LoopStep(o)
  PROVE  ProviderTyped'
<1> USE DEF ProviderTyped, exchangeVars
<1>1. CASE CallProvider(o)
  BY <1>1 DEF CallProvider, LoopIsFree
<1>2. CASE CancelCall(o)
  BY <1>2 DEF CancelCall
<1>3. CASE CloseTold(o)
  BY <1>3 DEF CloseTold
<1>4. CASE DoneCallback(o)
  BY <1>4 DEF DoneCallback, Tell, LoopIsFree
<1>5. CASE ThrowInto(o)
  BY <1>5 DEF ThrowInto, Tell, ThrownOut, LoopIsFree
<1>6. CASE SeeCancelled(o)
  BY <1>6 DEF SeeCancelled
<1>7. CASE SeeDeadline(o)
  BY <1>7 DEF SeeDeadline, Tell, LoopIsFree
<1>8. CASE SeeAnswer(o)
  BY <1>8 DEF SeeAnswer
<1>9. CASE EndDrain(o)
  BY <1>9 DEF EndDrain
<1>10. CASE SendAudio(o)
  BY <1>10 DEF SendAudio
<1> QED
  BY <1>1, <1>2, <1>3, <1>4, <1>5, <1>6, <1>7, <1>8, <1>9, <1>10 DEF LoopStep

(* What a thread does is typed; it closes only what the loop has told it.  *)
LEMMA ThreadIsTyped == ASSUME ProviderTyped, NEW o \in Calls, ThreadStep(o) PROVE ProviderTyped'
<1> USE DEF ProviderTyped, EndThread, loopVars
<1>1. CASE BeginRequest(o)
  BY <1>1 DEF BeginRequest
<1>2. CASE ResolveAddress(o)
  BY <1>2 DEF ResolveAddress
<1>3. CASE OpenResponse(o)
  BY <1>3 DEF OpenResponse
<1>4. CASE AttachResponse(o)
  BY <1>4 DEF AttachResponse
<1>5. CASE LookAfterAttach(o)
  BY <1>5 DEF LookAfterAttach, Attached
<1>6. CASE BeginRead(o)
  BY <1>6 DEF BeginRead
<1>7. CASE ReadReturns(o)
  BY <1>7 DEF ReadReturns
<1> QED
  BY <1>1, <1>2, <1>3, <1>4, <1>5, <1>6, <1>7 DEF ThreadStep

(* The types of the calls hold.                                            *)
LEMMA ProviderIsTyped == ProviderSpec => []ProviderTypeOK
<1>1. ProviderInit => ProviderTyped
  BY DEF ProviderInit, ProviderTyped
<1>2. ProviderTyped /\ [ProviderNext]_providerVars => ProviderTyped'
  <2>1. ASSUME ProviderTyped, UNCHANGED providerVars PROVE ProviderTyped'
    BY <2>1 DEF ProviderTyped, providerVars
  <2>2. ASSUME ProviderTyped, ReplaceProviderWorker PROVE ProviderTyped'
    BY <2>2 DEF ProviderTyped, ReplaceProviderWorker
  <2> QED
    BY <2>1, <2>2, LoopIsTyped, ThreadIsTyped DEF ProviderNext
<1>3. ProviderTyped => ProviderTypeOK
  <2>1. ASSUME ProviderTyped PROVE Cardinality(closing) <= 1
    <3>1. CASE closing = {}
      BY <3>1, FS_EmptySet
    <3>2. ASSUME NEW o \in Calls, closing = {o} PROVE Cardinality(closing) <= 1
      BY <3>2, FS_Singleton
    <3> QED
      BY <2>1, <3>1, <3>2 DEF ProviderTyped
  <2> QED
    BY <2>1 DEF ProviderTyped, ProviderTypeOK
<1> QED
  BY <1>1, <1>2, <1>3, PTL DEF ProviderSpec

HIDE DEF RequestInv, NoRequestIsForgotten, Answering, Busy, Drains, CoroutineAt, ExchangeAt
=============================================================================
