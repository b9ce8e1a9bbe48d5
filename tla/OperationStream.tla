--------------------------- MODULE OperationStream ---------------------------
(***************************************************************************)
(* The event side of the operation store and the SSE streams that read it, *)
(* around one operation: the event log and the publish that every          *)
(* store_event does before it touches the metadata (middleware/sse/        *)
(* event_storage.py), the pub/sub relay of the API process                 *)
(* (redis_subscriber.py), its connection manager and the streams           *)
(* (streaming.py).  The metadata is EventStore's, with its compare-and-set *)
(* writers.  The API process is one event loop: a step of a stream or of   *)
(* the relay is what runs between two awaits that suspend.                 *)
(***************************************************************************)
EXTENDS EventStore, Sequences, SequencesExt, FiniteSets

CONSTANTS
  Streams,         \* open requests of one user for this operation's stream
  MaxConnections,  \* max_connections_per_user
  QueueSize,       \* queue_size, the bound of a connection's queue
  MaxEvents,       \* bound: events stored in a behaviour
  Stored           \* bound: the kinds of event that are stored

ASSUME StreamsAssumption ==
  /\ {MaxConnections, QueueSize, MaxEvents} \subseteq Nat \ {0}
  /\ Stored \subseteq Event \union {"progress"}
  /\ SyncWriters \intersect Reapers = {}

VARIABLES
  log,        \* the kinds of event in the operation's sorted set
  published,  \* history: what was published, in order
  pipe,       \* published messages the relay has not read, by their number
  channel,    \* the relay's connection is subscribed to the operation
  known,      \* subscriptions has the channel
  conns,      \* the streams with a queue in the connection manager
  slots,      \* user_connections: the streams counted against the user
  queue,      \* queue[t]: numbers of the messages waiting for stream t
  outgoing,   \* outgoing[w]: the event a writer is storing
  sp,         \* where each stream is
  found,      \* found[t]: the status stream t read when it connected
  seen,       \* seen[t]: the kinds of event its client was sent
  fed,        \* history: streams fed without a break since they subscribed
  upto,       \* history: the message before the first one t is owed
  reaped      \* history: the reaper failed the operation

relay == <<pipe, channel, known, conns, slots, queue>>
streams == <<sp, found, seen, fed, upto>>
streamVars == <<log, published, relay, outgoing, streams, reaped>>
allVars == <<vars, streamVars>>

\* A progress event moves no status.
Kind == Event \union {"progress"}
EndingKinds == {"completed", "error", "cancelled", "awaiting_input"}
EndingStatuses == TerminalStatuses \union {"awaiting_input"}
NoEvent == [stage |-> "none", event |-> "started", asked |-> NoRequest]
Phases == {"new", "connected", "replayed", "subscribing", "subscribed", "live",
           "ended", "closing", "unsubscribing", "closed"}

StreamTypeOK ==
  /\ log \subseteq Kind
  /\ published \in Seq(Kind)
  /\ pipe \in Seq(1 .. Len(published))
  /\ channel \in BOOLEAN /\ known \in BOOLEAN
  /\ conns \subseteq slots /\ slots \subseteq Streams
  /\ queue \in [Streams -> Seq(1 .. Len(published))]
  /\ \A t \in Streams : Len(queue[t]) <= QueueSize
  /\ outgoing \in [SyncWriters -> [stage : {"none", "logged", "published"},
                                   event : Kind, asked : Requests]]
  /\ sp \in [Streams -> Phases]
  /\ found \in [Streams -> Status \union {Absent}]
  /\ seen \in [Streams -> SUBSET Kind]
  /\ fed \subseteq conns
  /\ upto \in [Streams -> 0 .. Len(published)]
  /\ reaped \in BOOLEAN

StreamInit ==
  /\ Init
  /\ log = {} /\ published = <<>> /\ pipe = <<>>
  /\ channel = FALSE /\ known = FALSE
  /\ conns = {} /\ slots = {}
  /\ queue = [t \in Streams |-> <<>>]
  /\ outgoing = [w \in SyncWriters |-> NoEvent]
  /\ sp = [t \in Streams |-> "new"]
  /\ found = [t \in Streams |-> Absent]
  /\ seen = [t \in Streams |-> {}]
  /\ fed = {}
  /\ upto = [t \in Streams |-> 0]
  /\ reaped = FALSE

-----------------------------------------------------------------------------
(* store_event_sync: the log, the channel, then the metadata *)

\* Events published or on their way.
Begun == Len(published) + Cardinality({w \in SyncWriters : outgoing[w].stage = "logged"})

\* EXISTS, INCR and ZADD; a missing operation is only warned about.  The
\* sequence numbers order a replay, and are left out.
AppendEvent(w, e, k) ==
  /\ pc[w] = "idle" /\ outgoing[w].stage = "none"
  /\ Begun < MaxEvents
  /\ (e = "awaiting_input") = (k # NoRequest)
  /\ log' = log \union {e}
  /\ outgoing' = [outgoing EXCEPT ![w] = [stage |-> "logged", event |-> e, asked |-> k]]
  /\ UNCHANGED <<vars, published, relay, streams, reaped>>

\* PUBLISH, to whoever is subscribed at this moment.
PublishEvent(w) ==
  /\ outgoing[w].stage = "logged"
  /\ published' = Append(published, outgoing[w].event)
  /\ pipe' = IF channel THEN Append(pipe, Len(published')) ELSE pipe
  /\ outgoing' = [outgoing EXCEPT ![w] =
       IF @.event = "progress" THEN NoEvent ELSE [@ EXCEPT !.stage = "published"]]
  /\ UNCHANGED <<vars, log, channel, known, conns, slots, queue, streams, reaped>>

\* The metadata update starts; a missing key ends it.
UpdateMetadata(w) ==
  /\ outgoing[w].stage = "published"
  /\ \/ SyncRead(w, outgoing[w].event, outgoing[w].asked)
     \/ status = Absent /\ UNCHANGED vars
  /\ outgoing' = [outgoing EXCEPT ![w] = NoEvent]
  /\ UNCHANGED <<log, published, relay, streams, reaped>>

WriteMetadata(w) ==
  /\ \/ \E carried \in SUBSET ResultKeys : SyncWrite(w, carried)
     \/ Evict(w) \/ EvictionFails(w)
  /\ UNCHANGED streamVars

\* The reaper writes the metadata alone: no event.
ReapMetadata ==
  /\ ReaperStep
  /\ reaped' = (reaped \/ status' # status)
  /\ UNCHANGED <<log, published, relay, outgoing, streams>>

-----------------------------------------------------------------------------
(* The relay *)

\* Mutants: a connection dropped for its full queue gives its slot back; the
\* message is put before the queue's bound is looked at.
RelayFreesSlot ==
  LET full == {t \in conns : Len(queue[t]) = QueueSize} IN
  /\ pipe # <<>>
  /\ pipe' = Tail(pipe)
  /\ queue' = [t \in Streams |->
                 IF t \in conns \ full THEN Append(queue[t], Head(pipe)) ELSE queue[t]]
  /\ conns' = conns \ full /\ slots' = slots \ full /\ fed' = fed \ full
  /\ UNCHANGED <<vars, log, published, channel, known, outgoing, sp, found, seen, upto, reaped>>

RelayUnbounded ==
  /\ pipe # <<>>
  /\ pipe' = Tail(pipe)
  /\ queue' = [t \in Streams |->
                 IF t \in conns THEN Append(queue[t], Head(pipe)) ELSE queue[t]]
  /\ UNCHANGED <<vars, log, published, channel, known, conns, slots, outgoing, streams, reaped>>

\* _listen_for_events and broadcast_event: the next message goes to every
\* connection.  One whose queue is full is dropped: its queue leaves the manager,
\* the error it should have been sent finds no room, its slot stays.
Relay ==
  LET full == {t \in conns : Len(queue[t]) = QueueSize} IN
  /\ pipe # <<>>
  /\ pipe' = Tail(pipe)
  /\ queue' = [t \in Streams |->
                 IF t \in conns \ full THEN Append(queue[t], Head(pipe)) ELSE queue[t]]
  /\ conns' = conns \ full /\ fed' = fed \ full
  /\ UNCHANGED <<vars, log, published, channel, known, slots, outgoing, sp, found,
                 seen, upto, reaped>>

-----------------------------------------------------------------------------
(* create_sse_stream_starlette *)

Go(t, next) == sp' = [sp EXCEPT ![t] = next]

\* The metadata is read, once; an operation that is not there ends the stream.
Connect(t) ==
  /\ sp[t] = "new"
  /\ found' = [found EXCEPT ![t] = status]
  /\ Go(t, IF status = Absent THEN "closing" ELSE "connected")
  /\ UNCHANGED <<vars, log, published, relay, outgoing, seen, fed, upto, reaped>>

\* With from_sequence, what is stored so far is sent.
Replay(t) ==
  /\ sp[t] = "connected"
  /\ seen' = [seen EXCEPT ![t] = log]
  /\ Go(t, "replayed")
  /\ UNCHANGED <<vars, log, published, relay, outgoing, found, fed, upto, reaped>>

\* Mutant: the status the stream found is not looked at.
FollowsHistory(t) == "subscribed"

\* Over, or paused, when the stream connected: it will not go live.
Following(t) == IF found[t] \in EndingStatuses THEN "subscribed" ELSE "live"

\* Mutant: the queue is registered only when the subscription stands.
SubscribesFirst(t) ==
  /\ sp[t] \in {"connected", "replayed"}
  /\ IF Cardinality(slots) >= MaxConnections
     THEN Go(t, "closing") /\ UNCHANGED <<channel, slots, fed, upto>>
     ELSE /\ slots' = slots \union {t}
          /\ channel' = (channel \/ ~known)
          /\ fed' = IF channel' THEN fed \union {t} ELSE fed
          /\ upto' = [upto EXCEPT ![t] = Len(published)]
          /\ Go(t, IF known THEN Following(t) ELSE "subscribing")
  /\ conns' = IF sp'[t] \in {"subscribed", "live"} THEN conns \union {t} ELSE conns
  /\ UNCHANGED <<vars, log, published, pipe, known, queue, outgoing, found, seen, reaped>>

\* add_connection, or 429; then subscribe_to_operation: SUBSCRIBE unless the
\* table has the channel already.  The table is written after the await.
Enter(t) ==
  /\ sp[t] \in {"connected", "replayed"}
  /\ IF Cardinality(slots) >= MaxConnections
     THEN Go(t, "closing") /\ UNCHANGED <<channel, conns, slots, fed, upto>>
     ELSE /\ conns' = conns \union {t} /\ slots' = slots \union {t}
          /\ channel' = (channel \/ ~known)
          /\ fed' = IF channel' THEN fed \union {t} ELSE fed
          /\ upto' = [upto EXCEPT ![t] = Len(published)]
          /\ Go(t, IF known THEN Following(t) ELSE "subscribing")
  /\ UNCHANGED <<vars, log, published, pipe, known, queue, outgoing, found, seen, reaped>>

Subscribed(t) ==
  /\ sp[t] = "subscribing"
  /\ known' = TRUE
  /\ Go(t, Following(t))
  /\ UNCHANGED <<vars, log, published, pipe, channel, conns, slots, queue, outgoing,
                 found, seen, fed, upto, reaped>>

\* The whole log, and the end.
ReplayAll(t) ==
  /\ sp[t] = "subscribed"
  /\ seen' = [seen EXCEPT ![t] = @ \union log]
  /\ Go(t, "ended")
  /\ UNCHANGED <<vars, log, published, relay, outgoing, found, fed, upto, reaped>>

\* The next event of the queue; an ending one is followed by stream_end.
Deliver(t) ==
  LET i == Head(queue[t]) IN
  /\ sp[t] = "live" /\ queue[t] # <<>>
  /\ queue' = [queue EXCEPT ![t] = Tail(@)]
  /\ seen' = [seen EXCEPT ![t] = @ \union {published[i]}]
  /\ upto' = [upto EXCEPT ![t] = IF i = @ + 1 THEN i ELSE @]
  /\ Go(t, IF published[i] \in EndingKinds THEN "ended" ELSE "live")
  /\ UNCHANGED <<vars, log, published, pipe, channel, known, conns, slots, outgoing,
                 found, fed, reaped>>

\* The client goes away; the generator is closed where it waits.
Disconnect(t) ==
  /\ sp[t] \in {"connected", "replayed", "subscribing", "subscribed", "live"}
  /\ Go(t, "closing")
  /\ UNCHANGED <<vars, log, published, relay, outgoing, found, seen, fed, upto, reaped>>

\* The finally clause: remove_connection, then unsubscribe_from_operation,
\* whoever else is listening.  UNSUBSCRIBE if the table has the channel, which
\* is taken out after the await.
Leave(t) ==
  /\ sp[t] \in {"ended", "closing"}
  /\ conns' = conns \ {t} /\ slots' = slots \ {t}
  /\ queue' = [queue EXCEPT ![t] = <<>>]
  /\ channel' = (channel /\ ~known)
  /\ fed' = IF known THEN {} ELSE fed \ {t}
  /\ Go(t, IF known THEN "unsubscribing" ELSE "closed")
  /\ found' = [found EXCEPT ![t] = Absent]
  /\ seen' = [seen EXCEPT ![t] = {}]
  /\ upto' = [upto EXCEPT ![t] = 0]
  /\ UNCHANGED <<vars, log, published, pipe, known, outgoing, reaped>>

\* A second removal raises, and is swallowed.
Unsubscribed(t) ==
  /\ sp[t] = "unsubscribing"
  /\ known' = FALSE
  /\ Go(t, "closed")
  /\ UNCHANGED <<vars, log, published, pipe, channel, conns, slots, queue, outgoing,
                 found, seen, fed, upto, reaped>>

-----------------------------------------------------------------------------

WriterStep(w) ==
  \/ \E e \in Stored, k \in Requests : AppendEvent(w, e, k)
  \/ PublishEvent(w) \/ UpdateMetadata(w) \/ WriteMetadata(w)

StreamStep(t) ==
  \/ Connect(t) \/ Replay(t) \/ Enter(t) \/ Subscribed(t) \/ ReplayAll(t)
  \/ Deliver(t) \/ Disconnect(t) \/ Leave(t) \/ Unsubscribed(t)

ExpireMetadata == Expire /\ UNCHANGED streamVars

StreamNext ==
  \/ \E w \in SyncWriters : WriterStep(w)
  \/ ReapMetadata
  \/ ExpireMetadata
  \/ Relay
  \/ \E t \in Streams : StreamStep(t)

StreamSpec == StreamInit /\ [][StreamNext]_allVars

-----------------------------------------------------------------------------
(* Properties *)

OpenStreams == {t \in Streams : sp[t] \in {"subscribing", "subscribed", "live"}}

\* A user never has more streams open than the limit: the slot of a connection
\* that was dropped for its full queue stays taken until its stream ends, and
\* every way out of a stream gives it back.
OpenStreamsWithinLimit ==
  /\ OpenStreams \subseteq slots
  /\ \A t \in slots \ OpenStreams : sp[t] \in {"ended", "closing"}
  /\ Cardinality(slots) <= MaxConnections

\* A stream that ends normally has sent its client the event that decided it:
\* the one behind the status it found, from the log, or the last one it relayed.
\* The log is written before the metadata, so the replay cannot miss it.  Only an
\* operation the reaper failed has no such event.
EndedStreamSawOutcome ==
  \A t \in Streams : sp[t] = "ended" =>
    IF found[t] \in EndingStatuses
    THEN (\E e \in seen[t] \intersect Event : NextStatus[e] = found[t])
         \/ (found[t] = "failed" /\ reaped)
    ELSE seen[t] \intersect EndingKinds # {}

\* While a stream is fed, nothing published since it subscribed is lost on the
\* way: it was sent, waits in the stream's queue, or is about to be relayed.
NothingMissedWhileFed ==
  \A t \in fed : \A i \in upto[t] + 1 .. Len(published) :
    i \in ToSet(queue[t]) \union ToSet(pipe)

\* A live stream listens to its operation for as long as it is open
\* (streaming.py: it "streams live ones until the operation reaches a terminal
\* state").
LiveStreamListens == \A t \in Streams : sp[t] = "live" => channel

=============================================================================
