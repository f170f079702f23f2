----------------------------- MODULE SSEResume -----------------------------
(***************************************************************************)
(* One client's event stream, from PublishEvent to the application.        *)
(*                                                                         *)
(* Server (internal/httpapi/handlers.go, internal/meshnode/node_publish.go *)
(* and node_peer_events.go, and the routing table): publishers append to   *)
(* the log, look up who subscribes and put the event in the bounded        *)
(* channels they found.  They hold the node lock as readers, so they       *)
(* overlap each other and StreamEvents, which does not take it, but not    *)
(* Subscribe and Unsubscribe, which take it as writers.  StreamEvents      *)
(* registers a fresh channel under the client's ID, replays from the       *)
(* client's cursor, then forwards live events.  The routing table has one  *)
(* entry per pattern and client ID, so a newer stream, a                   *)
(* CreateSubscription request or an older stream's teardown changes the    *)
(* entry of whoever holds it.  Forwarding to peers, the last step of a     *)
(* publish, leaves this state alone and is not here.                       *)
(*                                                                         *)
(* Client (pkg/httpclient/streaming.go): records the highest offset seen   *)
(* of each topic, hands the event to the application if its buffer has     *)
(* room, and reconnects with the recorded offsets when the stream breaks.  *)
(***************************************************************************)
EXTENDS Integers, Sequences, FiniteSets, FiniteSetsExt

CONSTANTS
  Topics,
  Publishers,   \* goroutines that run PublishEventWithResult, and ...
  Inbound,      \* ... among them the one that runs processIncomingUserEvent
  Patterns, Covers,  \* subscription patterns, and the topics each one covers
  ChanCap,      \* HTTPClient.eventChan (100)
  BufCap,       \* StreamConfig.BufferSize (100)
  Batch,        \* sseReplayBatchSize (1000)
  MaxReplay,    \* maxSSEResumeReplayEvents (10000)
  MaxTopics,    \* maxSSEResumeTopics (64)
  Oversized,    \* the events whose SSE line is over the 64 KB that the client's
                \* bufio.Scanner takes; the server accepts payloads of up to 1 MB
  MaxEvents,    \* bound: events published, on all topics together
  MaxStreams,   \* bound: connections the client makes
  MaxUpsets     \* bound: subscription requests and restarts of the server

ASSUME SSECapsAssumption ==
  /\ ChanCap \in Nat /\ BufCap \in Nat /\ Batch \in Nat \ {0}
  /\ MaxReplay \in Nat /\ MaxTopics \in Nat

ASSUME SSEBoundsAssumption ==
  /\ MaxEvents \in Nat /\ MaxStreams \in Nat
  /\ MaxUpsets \in Nat

ASSUME InboundAssumption == Inbound \subseteq Publishers

ASSUME CoversAssumption == Covers \in [Patterns -> SUBSET Topics]

VARIABLES
  log,      \* log[t]: the end offset of topic t; its events are 0 .. log[t]-1
  pub,      \* pub[p]: where p stands in PublishEventWithResult
  subs,     \* the patterns the client has subscription metadata for
  route,    \* route[k]: the stream whose channel is the client's routing entry
            \* for k; 0: no entry, or that of a request that has no stream
  str,      \* str[s]: the handler of the client's s-th connection
  ensured,  \* the patterns the client has checked since it was last connected
  conn,     \* the connection the client is on, 0 when it has none
  wire,     \* written by conn's handler and not yet read by the client
  cursor,   \* StreamClient.resumeOffsets, -1 when the topic has no entry
  buf,      \* events in StreamClient.events
  got,      \* ghost: events the application was given
  base,     \* ghost: the first offset of each topic the client recorded
  excused,  \* ghost: events the client may miss, by cause
  used      \* ghost: how much of each bound is used up

serverVars == <<log, pub, subs, route, str>>
clientVars == <<ensured, conn, wire, cursor, buf, got, base>>
vars == <<serverVars, clientVars, excused, used>>

Streams == 1 .. MaxStreams
Events == {<<t, o>> : t \in Topics, o \in 0 .. MaxEvents - 1}
IdlePub == [pc |-> "idle"]
Unused == [pc |-> "unused"]
Bounds == {"events", "streams", "upsets"}

\* Why an event may pass a client by:
\*   full      - the channel of its live stream was full when the event came
\*   catchup   - the channel of its resuming stream was full before the replay
\*               was over
\*   unrouted  - the stream was no longer the client's routing entry
\*   overtaken - a publisher with a later event of the topic was faster
\*   buffer    - the application's buffer was full
\*   fresh     - the client had no offset for the topic to resume from
\*   cancelled - the publisher's request ended before its delivery loop did
Causes == {"full", "catchup", "unrouted", "overtaken", "buffer", "fresh", "cancelled"}
Excuse(cause, E) == excused' = [excused EXCEPT ![cause] = @ \cup E]

Init ==
  /\ log = [t \in Topics |-> 0]
  /\ pub = [p \in Publishers |-> IdlePub]
  /\ subs = Patterns
  /\ route = [k \in Patterns |-> 0]
  /\ str = [s \in Streams |-> Unused]
  /\ ensured = {}
  /\ conn = 0
  /\ wire = <<>>
  /\ cursor = [t \in Topics |-> -1]
  /\ buf = 0
  /\ got = {}
  /\ base = [t \in Topics |-> -1]
  /\ excused = [c \in Causes |-> {}]
  /\ used = [b \in Bounds |-> 0]

Spend(what, max) ==
  /\ used[what] < max
  /\ used' = [used EXCEPT ![what] = @ + 1]

-----------------------------------------------------------------------------
(* PublishEventWithResult and processIncomingUserEvent *)

\* Subscribe and Unsubscribe can take the node lock: a local publisher holds it
\* from before the append to its return, the inbound one from the lookup on.
NodeLockFree ==
  \A p \in Publishers : \/ pub[p].pc = "idle"
                        \/ p \in Inbound /\ pub[p].pc = "persisted"

\* The event is persisted first; the log assigns its offset.
Persist(p, t) ==
  /\ pub[p].pc = "idle"
  /\ Spend("events", MaxEvents)
  /\ log' = [log EXCEPT ![t] = @ + 1]
  /\ pub' = [pub EXCEPT ![p] = [pc |-> "persisted", topic |-> t, offset |-> log[t]]]
  /\ UNCHANGED <<subs, route, str, clientVars, excused>>

\* The stream the client reads has registered a pattern for t.
Attached(t) ==
  /\ conn # 0
  /\ \E k \in str[conn].topics \ str[conn].todo :
       str[conn].pc \in {"register", "replay", "live"} /\ t \in Covers[k]

\* Nothing of t will be replayed to the client: it has no offset for t, or had
\* none when it opened the connection it is on.
Fresh(t) == cursor[t] = -1 \/ (conn # 0 /\ str[conn].from[t] = -1)

\* GetSubscribers: the client's entry of every matching pattern.
GetSubscribers(p) ==
  LET t == pub[p].topic
      e == <<t, pub[p].offset>>
      found == {k \in Patterns : t \in Covers[k] /\ route[k] # 0}
      routed == conn \in {route[k] : k \in found}
  IN  /\ pub[p].pc = "persisted"
      /\ pub' = [pub EXCEPT ![p] =
           [pc |-> "deliver", topic |-> t, offset |-> pub[p].offset,
            to |-> {<<k, route[k]>> : k \in found}]]
      /\ excused' = [excused EXCEPT
           !["unrouted"] = IF Attached(t) /\ ~routed THEN @ \cup {e} ELSE @,
           !["fresh"] = IF Fresh(t) /\ ~routed THEN @ \cup {e} ELSE @]
      /\ UNCHANGED <<log, subs, route, str, clientVars, used>>

\* The events of t that other publishers still hold although a later one is
\* already being delivered.
Overtaken(p) ==
  {<<pub[q].topic, pub[q].offset>> :
     q \in {q \in Publishers \ {p} : /\ pub[q].pc # "idle"
                                     /\ pub[q].topic = pub[p].topic
                                     /\ pub[q].offset < pub[p].offset}}

\* The handler of s has an offset to resume t from and is not live yet.
CatchingUp(s, t) == str[s].pc \in {"register", "replay"} /\ str[s].from[t] # -1

\* Mutant: the channel is not bounded.
DeliverEventUnbounded(p) ==
  /\ pub[p].pc = "deliver"
  /\ \E d \in pub[p].to :
       /\ pub' = [pub EXCEPT ![p].to = @ \ {d}]
       /\ str' = [str EXCEPT ![d[2]].chan = Append(@, <<pub[p].topic, pub[p].offset>>)]
  /\ UNCHANGED <<log, subs, route, clientVars, excused, used>>

\* DeliverEvent: a non-blocking send to the channel that was found.
DeliverEvent(p) ==
  /\ pub[p].pc = "deliver"
  /\ \E d \in pub[p].to :
       LET s == d[2]
           e == <<pub[p].topic, pub[p].offset>>
           room == Len(str[s].chan) < ChanCap
       IN  /\ pub' = [pub EXCEPT ![p].to = @ \ {d}]
           /\ str' = IF room THEN [str EXCEPT ![s].chan = Append(@, e)] ELSE str
           /\ excused' = [excused EXCEPT
                !["full"] = IF room \/ CatchingUp(s, e[1]) THEN @ ELSE @ \cup {e},
                !["catchup"] = IF ~room /\ CatchingUp(s, e[1]) THEN @ \cup {e} ELSE @,
                !["overtaken"] = @ \cup Overtaken(p),
                !["fresh"] = IF s # conn /\ Fresh(e[1]) THEN @ \cup {e} ELSE @]
  /\ UNCHANGED <<log, subs, route, clientVars, used>>

\* The loop looks at the request's context before every entry and gives up on
\* the rest; the event stays in the log.  Inbound events have no such check.
PublishCancelled(p) ==
  LET e == <<pub[p].topic, pub[p].offset>>
      missed == \E d \in pub[p].to : Fresh(e[1]) \/ d[2] = conn
  IN  /\ p \notin Inbound
      /\ pub[p].pc = "deliver" /\ pub[p].to # {}
      /\ pub' = [pub EXCEPT ![p] = IdlePub]
      /\ Excuse("cancelled", IF missed THEN {e} ELSE {})
      /\ UNCHANGED <<log, subs, route, str, clientVars, used>>

\* Every entry has been tried.
PublishReturn(p) ==
  /\ pub[p].pc = "deliver" /\ pub[p].to = {}
  /\ pub' = [pub EXCEPT ![p] = IdlePub]
  /\ UNCHANGED <<log, subs, route, str, clientVars, excused, used>>

-----------------------------------------------------------------------------
(* StreamEvents *)

\* resumeCursorHeader: the topics the client has an offset for, and nothing when
\* there is none.
ResumeCursorHeader ==
  LET recorded == {t \in Topics : cursor[t] # -1}
  IN  [t \in recorded |-> cursor[t]]

\* decodeSSECursor: the offset to resume each topic after, -1 when not named.
DecodeSSECursor(header) ==
  [t \in Topics |-> IF t \in DOMAIN header THEN header[t] ELSE -1]

\* Its subscriptions checked, the client connects with its cursor; the handler
\* makes a channel and reads the client's subscriptions.
Open ==
  LET s == used["streams"] + 1
  IN  /\ conn = 0 /\ ensured = Patterns
      /\ Spend("streams", MaxStreams)
      /\ conn' = s
      /\ ensured' = {}
      /\ str' = [str EXCEPT ![s] =
           [pc |-> "register", topics |-> subs, todo |-> subs,
            from |-> DecodeSSECursor(ResumeCursorHeader), replay |-> {}, chan |-> <<>>]]
      /\ UNCHANGED <<log, pub, subs, route, wire, cursor, buf, got, base, excused>>

\* registerSSEClient: the new channel replaces the client's entry for k.
Register(s, k) ==
  /\ str[s].pc = "register" /\ k \in str[s].todo
  /\ route' = [route EXCEPT ![k] = s]
  /\ str' = [str EXCEPT ![s].todo = @ \ {k}]
  /\ UNCHANGED <<log, pub, subs, clientVars, excused, used>>

\* Mutant: a cursor of several topics is read as a cursor of one.
ReplayableOne(s) ==
  LET all == {t \in Topics : str[s].from[t] # -1 /\ \E k \in str[s].topics : t \in Covers[k]}
  IN  IF all = {} THEN {} ELSE {CHOOSE t \in all : TRUE}

\* topicCoveredBySubscriptions, for the topics the cursor names.
Replayable(s) ==
  {t \in Topics : str[s].from[t] # -1 /\ \E k \in str[s].topics : t \in Covers[k]}

\* What validateSSEReplayPlan adds up.
Missed(s, t) == IF log[t] > str[s].from[t] + 1 THEN log[t] - str[s].from[t] - 1 ELSE 0

Total(s) == MapThenSumSet(LAMBDA t : Missed(s, t), Replayable(s))

\* The limits of a resume: the topics the cursor names, covered or not, and the
\* events to replay.
WithinLimits(s) ==
  /\ Cardinality({t \in Topics : str[s].from[t] # -1}) <= MaxTopics
  /\ Total(s) <= MaxReplay

\* The replay plan is within the limits.
ValidateSSEReplayPlan(s) ==
  /\ str[s].pc = "register" /\ str[s].todo = {}
  /\ WithinLimits(s)
  /\ str' = [str EXCEPT ![s].pc = "replay", ![s].replay = Replayable(s)]
  /\ UNCHANGED <<log, pub, subs, route, clientVars, excused, used>>

EndedWith(s) == [str EXCEPT ![s].pc = "closing", ![s].todo = str[s].topics]

\* What the client loses with its connection: events written or queued for it
\* of a topic it has no offset for are not replayed.
Unread ==
  LET pending == {wire[i] : i \in DOMAIN wire}
                   \cup {str[conn].chan[i] : i \in DOMAIN str[conn].chan}
  IN  {e \in pending : cursor[e[1]] = -1}

\* The client is without a connection, with what it had not read.
Disconnect ==
  /\ conn' = 0
  /\ wire' = <<>>
  /\ Excuse("fresh", Unread)
  /\ UNCHANGED <<serverVars, ensured, cursor, buf, got, base, used>>

\* 413: the handler returns, and the client is without a connection again.
RefuseReplay(s) ==
  /\ str[s].pc = "register" /\ str[s].todo = {}
  /\ ~WithinLimits(s)
  /\ str' = EndedWith(s)
  /\ IF conn = s THEN conn' = 0 /\ Excuse("fresh", Unread)
                  ELSE UNCHANGED <<conn, excused>>
  /\ UNCHANGED <<log, pub, subs, route, ensured, wire, cursor, buf, got, base, used>>

\* What the handler writes reaches the client while it is on this connection.
WriteTo(s, events) == wire' = IF conn = s THEN wire \o events ELSE wire

\* Mutant: the replay starts one event late.
ReplayBatchLate(s, t) ==
  LET first == str[s].from[t] + 2
      left == IF log[t] > first THEN log[t] - first ELSE 0
      n == IF left < Batch THEN left ELSE Batch
  IN  /\ str[s].pc = "replay" /\ t \in str[s].replay
      /\ WriteTo(s, [i \in 1 .. n |-> <<t, first + i - 1>>])
      /\ str' = [str EXCEPT
           ![s].from[t] = @ + n,
           ![s].replay = IF n < Batch THEN @ \ {t} ELSE @]
      /\ UNCHANGED <<log, pub, subs, route, ensured, conn, cursor, buf, got, base, excused, used>>

\* replaySSECursor: one batch of one topic; a short batch is the topic's last.
ReplayBatch(s, t) ==
  LET first == str[s].from[t] + 1
      left == IF log[t] > first THEN log[t] - first ELSE 0
      n == IF left < Batch THEN left ELSE Batch
  IN  /\ str[s].pc = "replay" /\ t \in str[s].replay
      /\ WriteTo(s, [i \in 1 .. n |-> <<t, first + i - 1>>])
      /\ str' = [str EXCEPT
           ![s].from[t] = @ + n,
           ![s].replay = IF n < Batch THEN @ \ {t} ELSE @]
      /\ UNCHANGED <<log, pub, subs, route, ensured, conn, cursor, buf, got, base, excused, used>>

ReplayDone(s) ==
  /\ str[s].pc = "replay" /\ str[s].replay = {}
  /\ str' = [str EXCEPT ![s].pc = "live"]
  /\ UNCHANGED <<log, pub, subs, route, clientVars, excused, used>>

\* streamWithKeepalive: take one event off the channel and write it.
StreamLive(s) ==
  /\ str[s].pc = "live" /\ str[s].chan # <<>>
  /\ WriteTo(s, <<Head(str[s].chan)>>)
  /\ str' = [str EXCEPT ![s].chan = Tail(@)]
  /\ UNCHANGED <<log, pub, subs, route, ensured, conn, cursor, buf, got, base, excused, used>>

\* The handler finds the connection gone, whenever it next writes or looks.
HandlerReturn(s) ==
  /\ str[s].pc \in {"replay", "live"} /\ conn # s
  /\ str' = EndedWith(s)
  /\ UNCHANGED <<log, pub, subs, route, clientVars, excused, used>>

\* unregisterSSEClient removes the client's entry for k, whoever holds it.
Unregister(s, k) ==
  /\ str[s].pc = "closing" /\ k \in str[s].todo
  /\ route' = [route EXCEPT ![k] = 0]
  /\ str' = [str EXCEPT ![s].todo = @ \ {k}]
  /\ UNCHANGED <<log, pub, subs, clientVars, excused, used>>

-----------------------------------------------------------------------------
(* The client's other requests, and the server's restart *)

\* MeshNode.Subscribe with a client object that has a channel but no stream.
SubscribeAs(k) ==
  /\ NodeLockFree
  /\ subs' = subs \cup {k}
  /\ route' = [route EXCEPT ![k] = 0]

CreateSubscription(k) ==
  /\ Spend("upsets", MaxUpsets)
  /\ SubscribeAs(k)
  /\ UNCHANGED <<log, pub, str, clientVars, excused>>

\* ensureStreamSubscription, before each connection: list, and create what is
\* missing.
EnsureStreamSubscription(k) ==
  /\ conn = 0 /\ k \notin ensured
  /\ ensured' = ensured \cup {k}
  /\ \/ k \in subs /\ UNCHANGED <<subs, route>>
     \/ k \notin subs /\ SubscribeAs(k)
  /\ UNCHANGED <<log, pub, str, conn, wire, cursor, buf, got, base, excused, used>>

\* A request of the check fails: ensureStreamSubscriptions gives up on the rest,
\* and startStreaming connects all the same.
EnsureFails ==
  /\ conn = 0 /\ ensured # Patterns
  /\ ensured' = Patterns
  /\ UNCHANGED <<serverVars, conn, wire, cursor, buf, got, base, excused, used>>

\* UnsubscribeByID takes away the metadata and the client's routing entry.
UnsubscribeByID(k) ==
  /\ k \in subs /\ NodeLockFree
  /\ subs' = subs \ {k}
  /\ route' = [route EXCEPT ![k] = 0]

DeleteSubscription(k) ==
  /\ Spend("upsets", MaxUpsets)
  /\ UnsubscribeByID(k)
  /\ UNCHANGED <<log, pub, str, clientVars, excused>>

\* The connection breaks; the handler may not notice for a while.  (Bound: the
\* client's last connection holds.)
Break ==
  /\ conn # 0 /\ used["streams"] < MaxStreams
  /\ Disconnect

\* The server process restarts on its durable log: publishers, subscriptions,
\* routing entries and streams are gone.
Restart ==
  /\ used["streams"] < MaxStreams
  /\ Spend("upsets", MaxUpsets)
  /\ pub' = [p \in Publishers |-> IdlePub]
  /\ subs' = {}
  /\ route' = [k \in Patterns |-> 0]
  /\ str' = [s \in Streams |-> IF str[s].pc = "unused" THEN Unused
                               ELSE [str[s] EXCEPT !.pc = "closing", !.todo = {}]]
  /\ conn' = 0
  /\ wire' = <<>>
  /\ Excuse("fresh",
       (IF conn = 0 THEN {} ELSE Unread)
         \cup {<<pub[p].topic, pub[p].offset>> :
                 p \in {p \in Publishers : pub[p].pc # "idle" /\ cursor[pub[p].topic] = -1}})
  /\ UNCHANGED <<log, ensured, cursor, buf, got, base>>

-----------------------------------------------------------------------------
(* StreamClient *)

\* recordResumeEventID keeps the highest offset of a topic.
RecordResumeEventID(t, o) ==
  /\ cursor' = [cursor EXCEPT ![t] = IF o > @ THEN o ELSE @]
  /\ base' = [base EXCEPT ![t] = IF @ = -1 THEN o ELSE @]

\* processSSEStream: the offset is recorded, then the event is handed over if
\* the buffer has room and dropped if not.
ProcessSSEStream ==
  LET e == Head(wire)
  IN  /\ wire # <<>> /\ e \notin Oversized
      /\ wire' = Tail(wire)
      /\ RecordResumeEventID(e[1], e[2])
      /\ IF buf < BufCap
         THEN buf' = buf + 1 /\ got' = got \cup {e} /\ UNCHANGED excused
         ELSE Excuse("buffer", {e}) /\ UNCHANGED <<buf, got>>
      /\ UNCHANGED <<serverVars, ensured, conn, used>>

\* scanner.Err: the line of an oversized event ends the stream before its offset
\* is recorded, so the client comes back with the same cursor.
ScannerError ==
  /\ wire # <<>> /\ Head(wire) \in Oversized
  /\ Disconnect

\* The application takes an event.
Consume ==
  /\ buf > 0
  /\ buf' = buf - 1
  /\ UNCHANGED <<serverVars, ensured, conn, wire, cursor, got, base, excused, used>>

-----------------------------------------------------------------------------
PublisherStep(p) == GetSubscribers(p) \/ DeliverEvent(p) \/ PublishReturn(p)

HandlerStep(s) ==
  \/ \E k \in Patterns : Register(s, k) \/ Unregister(s, k)
  \/ ValidateSSEReplayPlan(s) \/ RefuseReplay(s)
  \/ \E t \in Topics : ReplayBatch(s, t)
  \/ ReplayDone(s) \/ StreamLive(s) \/ HandlerReturn(s)

Next ==
  \/ \E p \in Publishers : \/ PublisherStep(p) \/ PublishCancelled(p)
                            \/ \E t \in Topics : Persist(p, t)
  \/ \E s \in Streams : HandlerStep(s)
  \/ \E k \in Patterns : \/ CreateSubscription(k) \/ EnsureStreamSubscription(k)
                         \/ DeleteSubscription(k)
  \/ EnsureFails \/ Open \/ Break \/ Restart \/ ProcessSSEStream \/ ScannerError \/ Consume

Spec == Init /\ [][Next]_vars

\* Publishers, handlers and the client's loop run; the client reconnects for as
\* long as it is not closed, and the application takes its events.
Fairness ==
  /\ \A p \in Publishers : WF_vars(PublisherStep(p))
  /\ \A s \in Streams : WF_vars(HandlerStep(s))
  /\ \A k \in Patterns : WF_vars(EnsureStreamSubscription(k))
  /\ WF_vars(Open) /\ WF_vars(ProcessSSEStream \/ ScannerError) /\ WF_vars(Consume)

FairSpec == Spec /\ Fairness

-----------------------------------------------------------------------------
(* Properties *)

PubStates ==
  {IdlePub}
    \cup [pc : {"persisted"}, topic : Topics, offset : Nat]
    \cup [pc : {"deliver"}, topic : Topics, offset : Nat, to : SUBSET (Patterns \X Streams)]

StrStates ==
  {Unused}
    \cup [pc : {"register", "replay", "live", "closing"}, topics : SUBSET Patterns,
          todo : SUBSET Patterns, from : [Topics -> Int], replay : SUBSET Topics,
          chan : Seq(Events)]

\* The shape of the state; a channel never holds more than its capacity.
TypeOK ==
  /\ log \in [Topics -> 0 .. MaxEvents]
  /\ pub \in [Publishers -> PubStates]
  /\ subs \subseteq Patterns
  /\ route \in [Patterns -> 0 .. MaxStreams]
  /\ str \in [Streams -> StrStates]
  /\ \A s \in Streams : str[s].pc # "unused" => Len(str[s].chan) <= ChanCap
  /\ ensured \subseteq Patterns
  /\ conn \in 0 .. MaxStreams
  /\ wire \in Seq(Events)
  /\ cursor \in [Topics -> -1 .. MaxEvents - 1]
  /\ base \in [Topics -> -1 .. MaxEvents - 1]
  /\ buf \in 0 .. BufCap
  /\ got \subseteq Events
  /\ excused \in [Causes -> SUBSET Events]
  /\ used \in [Bounds -> Nat]

\* The resume protocol itself loses nothing: however publishers, handlers of
\* old and new connections, breaks and restarts interleave, an event the
\* cursor has passed was received, unless it met one of the known causes.  It
\* rests on registering the live channel before the replay reads the log, and
\* on persisting before looking up subscribers.
CursorCovered ==
  \A t \in Topics : base[t] # -1 =>
    \A o \in base[t] .. cursor[t] :
      <<t, o>> \in got \/ \E c \in Causes : <<t, o>> \in excused[c]

\* The client sits on a connection that was opened when some of its patterns
\* had no subscription: the check failed, or the server restarted after it.
Unsubscribed == conn # 0 /\ str[conn].topics # Patterns

\* The cursor asks for more than the server replays: 413 until it has moved.
Refused ==
  LET recorded == DOMAIN ResumeCursorHeader
  IN  \/ Cardinality(recorded) > MaxTopics
      \/ Cardinality({e \in Events : /\ e[1] \in recorded
                                    /\ cursor[e[1]] < e[2] /\ e[2] < log[e[1]]}) > MaxReplay

\* An oversized event of a topic the client has started on is beyond its cursor:
\* every connection that comes to it ends there.
Blocked ==
  \E e \in Oversized \cap Events : /\ base[e[1]] # -1
                                 /\ cursor[e[1]] < e[2] /\ e[2] < log[e[1]]

\* (Bound: an oversized event that no reconnect would be sent again has ended
\* the last connection the instance has.)
Stranded ==
  /\ conn = 0 /\ used["streams"] = MaxStreams
  /\ excused["fresh"] \cap Oversized # {}

Hindered == Unsubscribed \/ Refused \/ Blocked \/ Stranded

\* An event of a topic the client has started on is not only never passed: it
\* comes.  Through breaks and restarts the client reconnects and is sent what
\* the log holds beyond its cursor, by the replay or by the live channel, unless
\* it is hindered for good: a while of it only delays the event.  (In the end
\* every event that was appended has come, and stays so: log, base, got and
\* excused only grow and the events are bounded, so this is the same as saying
\* of each that it leads to its coming.)
EventsCome ==
  []<>~Hindered =>
    <>[](\A e \in Events : base[e[1]] # -1 /\ base[e[1]] <= e[2] /\ e[2] < log[e[1]]
           => e \in got \/ \E c \in Causes : e \in excused[c])

\* The event is in a publisher's hand, in the channel of the stream the client
\* reads, or already written to it.
OnItsWay(e) ==
  \/ \E p \in Publishers :
       /\ pub[p].pc # "idle" /\ <<pub[p].topic, pub[p].offset>> = e
       /\ pub[p].pc = "deliver" => \E d \in pub[p].to : d[2] = conn
  \/ conn # 0 /\ \E i \in DOMAIN str[conn].chan : str[conn].chan[i] = e
  \/ \E i \in DOMAIN wire : wire[i] = e

\* docs/design.md: the delivery contract is at-least-once.  So an event that a
\* later one of its topic overtook still comes.  But publishers deliver out of
\* offset order, and the cursor keeps only the highest offset.
OvertakenStillComes ==
  \A t \in Topics : base[t] # -1 =>
    \A o \in base[t] .. cursor[t] :
      \/ <<t, o>> \in got \/ OnItsWay(<<t, o>>)
      \/ \E c \in Causes \ {"overtaken"} : <<t, o>> \in excused[c]
=============================================================================
