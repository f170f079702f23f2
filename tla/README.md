# EventMesh in TLA+

EventMesh is a mesh of nodes. Each node keeps a durable, append-only log of the
events published at it, delivers them to its local clients over server-sent
events (SSE), and forwards them to the peers whose clients want them. This
directory models the parts of it in which order, failure and limits matter,
checks them with TLC, and proves the most important results with TLAPS. Names
follow the Go code; each definition carries the name of the function it
translates where there is one, and `PROJECT.json` maps each to its lines.

## 1. The system

| Component | State | Operations | Talks to |
|---|---|---|---|
| Event log (`pkg/eventlog`, `internal/eventlog`) | per topic: events and end offset | AppendEvent, ReadEvents, ReplayEvents, GetTopicEndOffset, GetStatistics, Close | called by MeshNode and the SSE replay |
| Routing table (`internal/routingtable`) | pattern → subscriber ID → subscriber | Subscribe, Unsubscribe, GetSubscribers, RebuildFromGossip, Close | called by MeshNode and, directly, by the SSE handlers |
| MeshNode (`internal/meshnode`) | subscription metadata, the peers' interest, `n.mu` | Subscribe, Unsubscribe, UnsubscribeByID, PublishEvent; goroutines for incoming events, incoming interest and resync | log, routing table, PeerLink |
| PeerLink (`internal/peerlink`) | per peer: connections entry, data queue, control queue, metrics and health | Connect, Disconnect, EventStream, SendEvent, SendInterest..., SendHeartbeat; one goroutine per outbound connection, one handler and one receiver per stream, the heartbeat ticker | its counterpart at the peer, over gRPC |
| HTTP API (`internal/httpapi`) | per stream: a bounded channel; otherwise none | PublishEvent, CreateSubscription, DeleteSubscription, StreamEvents (register, validate, replay, live) | MeshNode, log, routing table |
| Client (`pkg/httpclient`) | resume offsets, event buffer | Stream: ensure subscriptions, connect, process, reconnect; Close | HTTP API |
| Server program (`cmd/eventmesh`), HTTP server | the node's life, the shutdown context | start, signal, graceful and forced stop, close | all of the above |
| Discovery (`internal/discovery`) | the list of seeds | FindPeers, runDiscovery | PeerLink.Connect |
| Authentication, configuration, CLI | static | | |

What is hard in it:

- **Concurrency.** `n.mu` protects Subscribe and Unsubscribe, but the resync
  goroutine and the SSE handlers work beside it. Publishers share it as readers
  and overtake each other. Several connections to one peer take from the same
  queues and share one health record and one entry. Several SSE handlers of one
  client share one routing entry. A node that is stopped and started again has
  goroutines of two lives for a while.
- **Identity.** A peer is listed under an address or a node ID, depending on who
  dialled whom and how; its interest is known under its node ID only.
- **Failure.** Streams break with messages in every stage; peers, nodes and the
  server restart; a disk write is cut off; one step of a sequence fails after
  the earlier ones took effect.
- **Order.** Deltas and snapshots of interest must arrive in the order of what
  they describe; events should reach a client whose cursor only moves up.
- **Limits.** Send queues, receive channels, the live channel, the client's
  buffer and the replay limit are bounded, and each has its own rule for what
  happens when it is full.

What makes each component correct: the log never loses, moves or reuses an
offset it acknowledged, and both implementations keep one contract; the routing
table finds exactly the subscribers whose patterns stand for a topic; a peer's
view of a node's interest converges to that interest; a client that resumes
misses nothing but for causes that can be named; a message given to PeerLink is
sent, dropped and counted, or still there, and health follows the streams; a
publish that returns without error reached everyone who was there, and one that
fails harmed nobody but those it names; routing entries and subscriptions
account for each other; an event gets to a node once; and a signalled program
ends.

`PROJECT.json` lists every component, modelled or not, and under `hazards` the
places in the code where these things can go wrong, with the properties that
would notice.

## 2. Modules

| Module | Models |
|---|---|
| `EventLog` | abstract: what `pkg/eventlog` promises of appends and replays |
| `PebbleEventLog` | `internal/eventlog/pebble.go`, with its lock, its batches and crashes; implements `EventLog` |
| `InMemoryEventLog` | `internal/eventlog/inmemory.go`; implements `EventLog` |
| `InterestGossip` | how subscriptions reach peers: MeshNode's subscription half, PeerLink's control plane, the peer's view |
| `InterestGossipProofs` | theorems about it |
| `SSEResume` | one client's stream from PublishEvent to the application, with reconnect and replay |
| `SSEResumeProofs` | theorems about it |
| `PeerLink` | the link to one peer: connections in both directions, queues, retries, health |
| `PeerLinkProofs` | theorems about it |
| `EventLogBackend` | the log a node has: one of the two, chosen when the process starts |
| `EventLogProofs` | theorems about both logs, and that they implement `EventLog` |
| `RoutingTable` | the routing table and its matching |
| `RoutingTableProofs` | theorems about it |
| `MeshNode` | one node at work: publishes and their results, subscriptions, streams, events from peers, over `RoutingTable` |
| `MeshNodeProofs` | theorems about it, and that it implements `RoutingTable` |
| `NodeLifecycle` | the program: start, stop, restart and close of a node, its peer server, heartbeats and HTTP server |
| `NodeLifecycleProofs` | theorems about it |
| `Mesh` | several nodes: who dials whom under which name, and where events go |
| `MeshProofs` | theorems about it |
| `MC*` | small instances of these for TLC |

`MeshNode` extends `RoutingTable` and `EventLogBackend` both logs. `Mesh` and
`NodeLifecycle` stand above the rest: they keep of a publish, a link or the
gossip what their own properties need, and say in their headers which module
has the detail.

Conventions: goroutines that run a function over several steps have a `pc`
field that says where they stand; a step ends where the code gives up a lock,
blocks on a channel or makes a request. Variables marked *ghost* exist for the
properties only and no guard but a bound reads them. Constants named `Max...`
bound the environment (calls, breaks, restarts), not the code; capacities
(`QueueCap`, `ChanCap`...) are the code's own limits, with the code's default in
a comment. A definition introduced by a comment `Mutant:` is a plausible mistake
in the definition that follows it; it is part of no specification, and putting
it in that definition's place makes TLC find the property named in
`PROJECT.json` violated.

### Event logs

`EventLog` has a log per topic and a record per replay. An append extends one
topic by one event whose offset is the old length; a replay fixes the end of the
topic when it starts and sends a gapless run from its start offset.

`PebbleEventLog` keeps two copies of the store: `db`, what reads see, and
`disk`, what the next open finds. AppendEvent is call, lock, stage, commit,
return. The commit is the one synchronous batch with both keys; one that fails
leaves neither. `Announce` is Go's RWMutex rule that
a waiting writer keeps out new readers; a replay holds the read lock from
`ReplayLock` to its last send, with a channel of `ReplayBuf`. `Crash` may come
between any two steps. ReadEvents and GetStatistics are operators; `MaxOffset`
stands for the largest int64, and a topic that has an event there too makes
GetStatistics fail for the whole log (`Overflows`). The bytes of keys and values
are abstracted to the offset and payload they carry.

`InMemoryEventLog` copies the slice under the lock and sends from the copy, so
appends go on during a replay. Compact does nothing in either.

### Interest gossip

A `Subscribe` or `Unsubscribe` holds `n.mu` (`op`) while it updates metadata,
lists the peers and queues a delta for each, waiting for room or, after the
timeout or when its context is done, dropping it. `Tick`, `ReadSnapshot`, `SendSnapshot` are
`resyncSubscriptionsToNewPeers`, which does not hold the lock: what it read may
be old when it queues it. A message goes through `queue`, `held`, `wire` and
`rx` to `view`. `link[p]` is the connections entry: of a connection this node
dialled, of a stream it accepted, or left behind by a handshake whose answer
failed (`AcceptFails`); `dials[p]` says that there is a goroutine that dials, and
`stream[p]` which streams are up. An accepted stream takes over whatever entry
there is (`Accept`), and its `Cleanup` removes the entry only if no newer stream
has it. `LoseStream` is what a break does to each stage: an outbound stream
requeues what was held, an accepted one loses it. With a stream in each direction
two senders take from one queue, and messages may overtake each other; the model
keeps one `held` and one `wire` and counts the peer as damaged instead
(`TwoStreams`). Heartbeats share the control queue and are left out; they only take
slots, and a full queue happens without them.

The ghost `damaged[p]` is set when a message to p is lost, put behind a newer
one, or outdated when queued, and when a process restarts; it is cleared when a
snapshot is queued that is still accurate. So the properties below say what
holds between such events, and the two violation runs say which of them the
documentation rules out and the code does not.

### SSE streams

A publisher persists, looks up subscribers, then delivers to the channels it
found, one after the other. `NodeLockFree` is the lock between publishers and
Subscribe/Unsubscribe; `PublishCancelled` is the delivery loop giving up because
the publisher's request has ended; `Inbound` publishers run `processIncomingUserEvent`,
which takes the lock only after the append. `StreamEvents` is `Open`,
`Register` per pattern, `ValidateSSEReplayPlan` or `RefuseReplay`,
`ReplayBatch`es, `ReplayDone`, `StreamLive`, `HandlerReturn`, `Unregister` per
pattern. `route[k]` is one entry per pattern and client ID, as in the routing
table. The client is `EnsureStreamSubscription` per pattern (or `EnsureFails`),
`Open`, `ProcessSSEStream`, `ScannerError`, `Break`. The server refuses a cursor
that names too many topics or asks for too many events (`WithinLimits`).
`Oversized` are the events whose line is longer than the 64 KB a `bufio.Scanner`
takes: the client's stream ends there before it records the offset, so it comes
back to the same event. The cursor's base64 and JSON are left out;
what the conversions keep, the offsets of the topics that have one, is in
`ResumeCursorHeader` and `DecodeSSECursor`.

The ghost `excused` records why an event may have passed the client by. Each
cause is a rule of the code: a full live channel, one filled during catch-up, a
routing entry that was taken, an event overtaken by a later one, a full client
buffer, a publish that was cancelled after the append, a topic without an offset.
The last one also covers a refused replay
(`RefuseReplay`): the handler that answers 413 has registered its channel, and
the events queued there of topics the cursor does not name go with it.

### PeerLink

One peer is enough: peers share no state. `link[i]` is the i-th connection,
outbound (`stillborn` when `grpc.NewClient` rejects the address and leaves an
entry that nothing dials, `dial`, `out-up`, `out-broken`) or accepted (`greet`, `in-up`,
`in-broken`, `closed`, `over`); `entry` is `connections[peer]`. All of them take
from the same two queues. Heartbeats are interchangeable, so the control queue
is a number. `quiet` stands for `lastSeenAt` being a timeout ago. A failed dial
changes nothing here: the loop dials again. `listed` is the entry the peer has
for this node, because its ticker sends heartbeats to listed peers only: one of
this node's streams that it accepted (`Establish`, `EstablishFails`, gone with
`PeerCleanup`), or a connection of its own (`PeerConnect`).

### Routing table

Patterns and topics are sequences of words; `Matches` is the part-by-part
comparison, and `Denotes`, the reference, says which topics a pattern stands
for.

### Mesh node

`pub[p]` is where a PublishEvent handler is: append, lookup, one delivery after
the other (`DeliverTo`), forward, each a step, under a read lock of `n.mu`
(`readers`). Its result is `ok`, `failed` when any delivery failed, or `error`
when AppendEvent fails or the context is done (`PublishGivesUp`); the events it
put somewhere before it failed stay there. Forwarding to the peers and the
deliveries of an inbound event are one step each: every queue or channel is tried
once, and no property compares two of them half-way.
`CreateSubscription` and `DeleteApply` hold `n.mu`
alone; `DeleteFind` is the first half of `UnsubscribeByID`, which does not.
`RegisterTopic` and `UnregisterTopic` are a stream's changes to the table,
without `n.mu`. An entry's channel is a number (`holder`): CreateSubscription
makes one that nobody reads. `InboundTake`, `InboundAppend` and
`InboundDeliver` are `processIncomingUserEvent` with the places where it gives
up the lock. `Peers` are connected and interested; whether they are is the
matter of `Mesh` and `InterestGossip`.

The ghosts: `must[p]` are the entries that were there when p's event was
appended and still are, `torn` the entries a stream's teardown took, which a
subscription of the same client and pattern may have needed.

### Lifecycle

`pc` is where the goroutine that controls the node stands: main, or a program
that embeds the node and may stop and start it again. Each Start is a *life* with
a context of its own; `cancelled` are the lives whose context is done, `beating`
the heartbeat loops that have not returned and `hushed` those that have been
told to. `Signal` to `CloseNode` is `setupGracefulShutdown` and main's deferred
Close: the HTTP server drains, then Stop in five steps, then Close, all within
one context that expires (`Expire`). `PeersStopped` is GracefulStop's end or,
when the time is over, Stop's. A request that was accepted before the shutdown
(`PublishAsk`) may get to `PublishBegin` at any time after it, and is turned away
if the node does not run any more. A program calls Start, Stop and Close from one
goroutine at a time; main does.

### Several nodes

A dial is a `from`, a `to` and whether it comes from `--seed-nodes` or
`--connect-peer`; any subset of `PossibleDials` may be configured. `NameOf` is
the name the dialler lists the peer under: its address for a seed. `Establish`
lists the dialler at the other end under its node ID, in the place of what was
there. Queues belong to names and outlive entries; every stream under a name
serves its queue. An event goes from the queue to the `wire` of a stream
(`Transmit`, a successful `stream.Send`) and from there to the peer's channel
(`Arrive`); a stream that ends takes what it carries with it (`Drop`). A node
that dials itself has one wire for both directions of that stream.

How a view of a peer's interest follows that interest, and how it fails to, is
the matter of `InterestGossip`, and `Mesh` assumes nothing of it: `Gossip` leaves
any part of what the peer's clients have ever wanted, on any connection that was
made once, at any time or never. So the properties of `Mesh` hold whatever is
known of whom.

## 3. Runs

| Run | Checks | Instance |
|---|---|---|
| `event_logs` | `TypeOK` `KeysInStep` `AckedDurable` `ReadAgrees` `WriterExcludes` `RefinesEventLog` `WritersReturn` `MemPagesAgree` `MemRefinesEventLog` | either log; 2 callers, 1 replayer, 2 payloads, offsets up to 2, replay channel of 1; 1 topic (Pebble), 2 topics (in memory) |
| `gossip` | `TypeOK` `SettledUndamagedAgree` `PipelineFaithful` `SnapshotComes` `UndamagedConverges` | 2 clients, 2 calls, queue and channel of 1, streams in both directions, 1 break, 1 restart |
| `sse` | `TypeOK` `CursorCovered` `EventsCome` | 1 publisher, 2 topics under one pattern, 3 events, of which the second of one topic is oversized, 2 connections, 1 CreateSubscription, DeleteSubscription or restart, replay limit 1, topic limit 2 |
| `peerlink` | `TypeOK` `EachMessageOnce` `CleanupKeepsNewer` `SilentPeerNoticed` `HealthRecovers` | 2 connections, 2 messages, queues of 1, 1 retry, 2 breaks |
| `meshnode` | `NodeTypeOK` `PersistedFirst` `NoOrphanRoute` `NoDeadSubscription` `DeliveredByDenotation` `NoEmptyTopic` `OkMeansDelivered` `FailureIsolated` | 1 publisher, 1 stream, events from a peer, 1 client, an exact and a wildcard pattern, 2 subscriptions, 2 events, channels of 1, 1 Stop |
| `lifecycle` | `TypeOK` `HeartbeatsFollowNode` `InboundOnce` `NoUseAfterClose` `ShutdownEnds` | 2 lives, 1 publisher, events from a peer, open SSE and peer streams |
| `mesh` | `TypeOK` `OneCopy` `QueuedArrives` | 2 nodes with any of 3 dials, by ID, by address and to itself, 2 events, 1 break, queues, streams and channels of 1 |

What they show:

- `event_logs`: through every interleaving of appends, Close and a replay of the
  Pebble log, with a crash at any point, the event keys of a topic are exactly
  those below its offset key; what AppendEvent returned is on disk; ReadEvents
  agrees with the log for every offset and count, GetStatistics counts what it
  can return, and fails exactly when a topic has used up its offsets; the store
  implements `EventLog`; and although a replay holds the read lock for as long as
  its consumer takes, writers return once it is consumed or cancelled. The
  in-memory log keeps the same contract with a replay that works on a copy while
  appends go on, and paging visits each offset once.
- `gossip`: see section 5; besides, the resync goroutine is never held up for
  good: a newly listed peer gets a snapshot on its connection (the ghost
  `synced`, which a break clears) unless it is cut off first; and a peer whose
  messages were not damaged ends up with the right view.
- `sse`: an event the client's cursor has passed was received or met one of the
  seven named causes, however publishes and their cancellations, handlers of an
  old and a new connection, a request or a restart, and breaks interleave. Two
  publishers are in `sse_overtaken`, and they and events from a peer in the
  theorem. And events beyond the cursor come, by replay or live.
  `Hindered` names what keeps them away for good: the
  client stays on a connection without its subscriptions, its cursor is beyond
  the server's limits and is refused (413) at every reconnect, or an oversized
  event is next. A spell of any of these only delays an event. `Stranded` is not
  of the code but of the instance, whose last connection cannot be replaced.
- `peerlink`: a message is in one place at a time, refused and dropped ones are
  counted exactly, an old stream's cleanup leaves the newer entry alone, and
  health follows silence and, if the peer lists this node, recovery.
- `meshnode`: what is in a subscriber's channel or a peer's queue is in the log; a
  publish that returns without error reached every subscriber that was in the
  table throughout and every interested peer; one that fails has taken the event
  from nobody with room; no routing entry is left that neither a subscription nor
  a stream accounts for, and no subscription is listed that nothing serves,
  unless a stream's teardown took the entry; a topic's subscribers are those
  whose patterns stand for it.
- `lifecycle`: a serving node has one heartbeat loop that the next Stop ends; an
  event received while an old and a new consumer are registered is kept once; no
  publish finds the log closed under it; a signalled program ends although
  clients and peers keep their streams.
- `mesh`: whatever dials are configured and whatever is known of whose interest,
  an event is at a node once; what is queued arrives, or is lost to a full
  channel or to a broken stream that carried it or was about to.

Why the bounds are enough to meet the cases: capacities of 1 and 2 are reached
with two or three messages, so full and empty both happen, and the code compares
lengths with capacities only. Two connections give every overlap of an old
handler with a new one. For a resume to be wrong it takes an event seen, one
missed while away and a later one that moves the cursor: three. `Batch = 1`
makes every replay length a multiple of the batch size, so the extra empty read
is taken. A replay limit of 1 is exceeded by two missed events; the topic limit,
which two topics do not exceed, is left to the theorem. Two payloads tell an event from another that would take
its offset after a crash. Two calls of two clients are a first and a second
subscriber, or the last one leaving; `InterestGossip` is proved for any number of
calls. Two breaks exceed the one retry.
One break and one restart are each tried at every point. Two lives are an old and
a new one. A node's subscription is at risk from one DELETE and one stream
beside it, which two subscriptions of one client and one stream provide. Two
nodes meet under every combination of names; a third would only be another peer,
since events are never passed on. The largest instances are `meshnode` with 2.2
million distinct states, `lifecycle` with 0.9 and `sse` with 0.7 million. The
theorems need no bound at all.

Symmetry, over the publishers, is used in `sse_overtaken` only. The SSE, `meshnode`,
`lifecycle` and `mesh` runs turn the deadlock check off: when all events are
published and consumed and the bounds are used up, or the program has ended,
nothing is left to happen, as in the program. All other runs check for deadlock.

### Runs that are expected to fail

Each of these states what a document or comment in the repository says, and TLC
shows a behaviour of the code that does not do it. `PROJECT.json`, `findings`,
quotes the lines.

| Run | Statement | What happens |
|---|---|---|
| `gossip_race` | a settled peer agrees with this node | resync reads its snapshot, a Subscribe queues its delta, the old snapshot is queued behind it and erases it |
| `gossip_restart` | a peer that reconnects is sent a snapshot | a peer restarts and dials in again before the old stream's cleanup and the next tick, so it is still in `seenPeers`; the same happens to an outbound entry, which stays while its stream is redialled |
| `sse_overtaken` | delivery is at least once | publishers deliver out of offset order and the cursor keeps the highest offset |
| `peerlink_lost` | a failed send is retried, and counted when it is given up | on a stream the peer dialled it is logged, and the message is gone |
| `mesh_seeded` | interested peers receive the event | the node that was given a seed lists it by its address, the seed's interest is known by its node ID, and nothing is forwarded |

Eight more places where the models do what the code does and a document says
otherwise; each is a step of a module and has no run of its own:

- `docs/design.md:295` says registering before the replay avoids losing live
  events during catch-up. The live channel holds 100 events and nobody reads it
  until the replay is over (`DeliverEvent`, cause `catchup`).
- `docs/design.md:237` says managed streams recover lost subscriptions. The
  check and the connection are separate requests, and a failed check is only
  reported (`EnsureFails`); `EventsCome` makes the exception.
- `pkg/peerlink/interfaces.go:18` says Disconnected means no usable connection.
  `EventStream`'s cleanup sets it whichever stream is closing (`Cleanup`); it
  lasts until the peer is next heard from (`HealthRecovers`).
- `pkg/peerlink/interfaces.go:125` says GetConnectedPeers returns all connected
  peers. An accepted stream takes over the entry of an outbound connection
  (`Accept`) and deletes it when it ends (`Cleanup`); the outbound stream lives on
  unlisted until the peer dials in again.
- `grpc.go:236` says the cleanup is ensured on stream close. A failed handshake
  response returns before it is deferred (`GreetFails`).
- `docs/design.md:236` says stream attachment is connection-scoped. The routing
  entry belongs to the client ID: the teardown of an old connection removes the
  entry of the new one (`Unregister` in `SSEResume`, `UnregisterTopic` and the
  ghost `torn` in `MeshNode`).
- `docs/design.md:336` calls delivery between nodes at least once. A full send
  queue, a full receive channel, a failed send on an accepted stream and a stream
  that breaks with events in transit lose an event (`lost` in `Mesh`).
- `node_lifecycle.go:100` says Close is equivalent to Stop but for being final.
  It does not cancel the lifecycle context, so the consumers and the resync loop
  of a node that is closed without Stop stay (`CloseNode`); an error of the log's
  Close leaves the rest open (`CloseFails`).

## 4. Fairness

Only the liveness runs assume it, and only of goroutines the code keeps running.

- `PebbleEventLog`: callers and replays run. Go's mutex is starvation free,
  hence strong fairness of `Announce`. Whoever started a replay receives from it
  or cancels it. Appends, crashes and cancellations are not assumed to happen.
- `InterestGossip`: the caller under the lock, the resync ticker, the redial loop
  (it has no limit), senders, receivers, an accepted stream's cleanup and the
  peer's consumer. Connect, Accept,
  breaks and restarts are not assumed.
- `SSEResume`: publishers that have begun, handlers, and the client's loop, whose
  `MaxReconnectAttempts` is 0, no limit, by default; the application consumes.
- `NodeLifecycle`: main's shutdown steps, the passing of the 30 seconds, publishes
  that have begun, and main's deferred Close. Clients and peers are not assumed
  ever to end their streams.
- `Mesh`: goroutines and dialling until it is through, as one disjunction:
  something that can be done is done. Publishing, subscribing, gossip and breaks
  are not assumed.
- `PeerLink`: the ticker, time, senders, receivers, and a peer whose ticker sends
  heartbeats to the nodes it lists (`PeerHeartbeat`): one that does not list this
  node sends none, whatever streams are up. Dialling successfully, and a peer's
  Connect, are not assumed.

## 5. Proofs

`InterestGossipProofs` proves, for any sets of peers, topics and clients, any
capacities and any number of calls, breaks and restarts:

- `TypeCorrect`: `Spec => []TypeOK`. Queue, hand and channel keep their bounds.
- `GossipFaithful`: `Spec => []PipelineFaithful`. For a peer that is not damaged,
  what it will think of each topic once everything under way has arrived is what
  this node's clients want, or a delta on that topic is still to be queued by the
  caller that holds the lock.
- `SettledPeersAgree`: `Spec => []SettledUndamagedAgree`. So a settled, undamaged
  peer's view is exactly this node's local interest.

Assumptions: `CapsAssumption` and `BoundsAssumption`, that capacities and bounds
are natural numbers.

`PipelineFaithful` is not inductive alone: that a delta queued by the caller
brings the peer's outcome to the interest needs the delta to still be true when
it is queued. That is `DeltaAccurate`, and it holds because the lock keeps every
other Subscribe and Unsubscribe out. The inductive invariant is `TypeOK`,
`DeltaAccurate` and `PipelineFaithful`. The argument follows a message through
the pipeline. `After(s, t, d)` is what a reader with opinion d on t thinks after
reading s; it is defined by the last message on t rather than by recursion, so
that it can be proved about. The lemmas `AfterAppend` and `AfterTail` say what a
message does that is put at the end of a stage or leaves its front; `Dequeued`,
`Sent`, `Received`, `Applied` and `LostHarmless` say that moving a message from
one stage to the next leaves the outcome as it was; `DeltaFaithful` and
`SnapshotFaithful` say that queuing a delta or an accurate snapshot makes it
right.

`RoutingTableProofs` proves, for any finite sets of patterns and subscriber IDs
and any topics:

- `TableDelivers`: `Spec => []DeliveredByDenotation`. GetSubscribers finds each
  subscriber whose pattern stands for the topic exactly once, and no other.
- `TableCounts`: `Spec => []NoEmptyTopic`. The table has no topic without a
  subscriber, so what it counts is what there is.

The inductive invariant is `TableOK`: the domain is a set of patterns, and each
maps to a non-empty set of IDs. That the last Unsubscribe of a topic removes the
topic is needed for it (`WithKeepsShape`). `MatchIsDenotation` says the loop's
part-by-part comparison finds what `Denotes` says; `SelfMatch`, that a topic
matches itself, is why the two passes, exact and wildcard, are disjoint and
nobody is found twice. Assumptions: `PatternsAssumption`, that patterns
are sequences of words and `*`, and `FiniteAssumption`. These theorems also
cover RebuildFromGossip with any list, which no caller in a running node uses.

`MeshNodeProofs` proves, for any number of publishers, streams, clients,
patterns, events and stops:

- `NodeImplementsTable`: `NodeSpec => Spec`. Handlers, streams, the peer consumer
  and Close, half of which do not hold `n.mu`, change the table by its own
  operations only. So `NodeDelivers` and `NodeCounts`: the two results above hold
  of a running node.
- `NoRouteOrphaned`: `NodeSpec => []NoOrphanRoute`. Every routing entry is
  accounted for by a subscription or by a stream that will take it back.
- `NoSubscriptionDead`: `NodeSpec => []NoDeadSubscription`. Every listed
  subscription has its entry, unless a stream's teardown took it.

Neither of the last two is inductive. `NodeInv` adds that the table is in shape
(`TableOK`), that a stream's client and topics are clients and patterns and that
it has registered nothing before it opens (`ConnOK`), that a DELETE under way
names a client and a pattern although its subscription may be gone (`SubsOK`),
and that a closed table is empty (`ClosedEmpty`): a handler whose registration
fails because of Close returns without taking anything back. `RoutesOwned` and
`SubsServed` are the two properties in terms of `Has`, that an ID is in the table
under a pattern, which leaves out the channels. Each action has a lemma that
says which entries it adds or removes and which claim to them goes with it.
Assumption: `MeshNodeAssumption`, finite sets and bounds that are numbers.

Of the publishes the same module proves:

- `LogBeforeDelivery`: `NodeSpec => []PersistedFirst`. What a channel or a peer's
  queue has held is in the log.
- `OkDelivers` and `FailureStaysLocal`: `NodeSpec => OkMeansDelivered` and
  `NodeSpec => FailureIsolated`, what the two results of a publish mean.
- `NodeTypes`: `NodeSpec => []NodeTypeOK`.

These rest on `DeliveryInv`, which adds five parts to `NodeInv`. `LogInv`: an
event is in the log once from the append on, and whatever is delivered has passed
that point. `ChanInv`: every entry leads to a channel that was made, and channels
stay within their capacity. `ToInv`: what a publish looked up are entries.
`ReadersInv`: the publishes under way are the readers of `n.mu`, so the table is
not closed under one. `WatchInv`: an entry that was there at the append and still
is, is among those the publish is about to deliver to, or has the event, or had a
full channel. `OkMeansDelivered` reads off `WatchInv` when nothing is left to
deliver.

`EventLogProofs` proves, for any topics, callers, replayers and payloads:

- of the Pebble log, `PebbleKeys`, `PebbleDurable`, `PebbleExclusive`,
  `PebbleReads` and `PebbleTypes`: `Spec => []` of `KeysInStep`, `AckedDurable`,
  `WriterExcludes`, `ReadAgrees` and `TypeOK`; and `PebbleRefines`, `Spec =>
  RefinesEventLog`;
- of the in-memory log, `MemPages` (`MemPagesAgree`) and `MemRefines`
  (`MemRefinesEventLog`);
- `BackendIsEither`: the node's log, whichever was chosen, behaves as both.

`PebbleInv` is the inductive invariant. `LockInv`: whoever is past `Announce` is
the writer, no replay is inside while an event is staged or committed, and a
process that is down has nobody in it. From it follows `CallsInStep`, that the
offset stamped under the lock is still the end of the topic when the batch is
committed, which `KeysInStep` needs; with `db = disk` and `AckedDurable` this is
`StoreInv`. `RunsGapless` and `StartsBounded` are for the refinement: a commit is
the abstract append, a send extends a gapless run, all else stutters. `MemInv`:
both maps of a topic describe one log, and the copy a replay sends from is a
prefix of it, whatever has been appended since. Assumptions:
`MaxOffsetAssumption`, `ReplayBufAssumption`, `NoCallerAssumption`.

`PeerLinkProofs` proves, for any queue size, number of connections, messages and
retries, `LinkTypes`, `NewestKeepsEntry` and `MessagesOnce`: `Spec => []` of
`TypeOK`, `CleanupKeepsNewer` and `EachMessageOnce`. `LinkInv` adds that
connections are numbered in the order they are made (`InOrder`), so that the
entry of the newest can be told, and `MsgInv`: no message is twice in the queue or
in two hands, one that is in one of the six places is in no other, and the ones
that are somewhere are those SendEvent was called with. That a requeue after a
failed send puts back what the hand held, and nothing else took it meanwhile, is
the step that needs it. Assumptions: `QueueCapAssumption`,
`LinkBoundsAssumption`.

`NodeLifecycleProofs` proves, for any number of lives, events and publishers,
`LifecycleTypes`, `HeartbeatsFollow`, `InboundAtMostOnce` and
`PublishBeforeClose`: `Spec => []` of `TypeOK`, `HeartbeatsFollowNode`,
`InboundOnce` and `NoUseAfterClose`. `BeatInv` and `LifeInv` say, for every place
of the controlling goroutine, which heartbeat loop is live and which contexts are
cancelled: all lives but the last. That is why an event handed to the consumers
of two lives is appended once (`OneAppender`): when there are two, the older one's
context is already cancelled, and the check before its append, which comes after
it was handed the event, does not let it through. `CloseInv` ties what is closed to the lock. Assumption:
`LifecycleAssumption`.

`MeshProofs` proves, for any nodes, dials and capacities, `MeshTypes` and
`EventOnce`: `Spec => []TypeOK` and `Spec => []OneCopy`. `LinkInv`: only a node
that dials itself lists itself. `EventInv`: an event is queued by its origin
only and under node IDs only (`QueueTidy`), because interest is known by node
ID, so that the several names of a peer never have a copy each; on a stream it
is on its way to the peer it was queued for (`WireTidy`); from the queue to the
stream to the channel to the log it is in one of these (`Settled`). Nothing is
assumed of the views but that they hold what was wanted. Assumption:
`MeshAssumption`.

`SSEResumeProofs` proves, for any topics, patterns, publishers, connections and
capacities, `StreamTypes` and `ResumeLosesNothing`: `Spec => []TypeOK` and `Spec
=> []CursorCovered`. The inductive invariant is `SSEInv`. `StreamInv` and
`OffsetInv` say which connections exist, that a routing entry names a stream that
asked for the pattern, and that nobody holds an offset beyond the end of the log.
`GapInv` follows an event from the log to the cursor. A topic is *settled* when
nothing more of it will be replayed to the client: it has no offset, or the
replay is over. Every event of a settled topic beyond the cursor is covered (given
to the application or excused), on the wire, in the stream's channel, or in the
hand of a publisher (`HandInv`); what precedes an event in the channel is
covered, on the wire or before it in the channel (`ChanInv`); likewise for the
place the replay has come to (`ReplayInv`) and for an event on the wire
(`WireInv`). So when the client reads the head of the wire and moves its cursor
there, all it skips is covered. The hard step is the last batch of a replay,
which settles the topic: that events appended after it come through the channel
holds because the handler registers all its patterns before it reads the log, in
that order. Assumptions: `SSECapsAssumption`, `SSEBoundsAssumption`,
`InboundAssumption`, `CoversAssumption`. Each invariant was checked with TLC
before it was proved; the attempt to prove `CursorCovered` showed that
`RefuseReplay` had to record its loss, which three events are too few to
exhibit.

The assumptions on constants say that bounds and capacities are natural numbers,
positive where the code makes a channel with room, and that sets the code counts
are finite. TLC evaluates them in every run.

Model-checked only: the liveness properties `WritersReturn`, `SnapshotComes`,
`UndamagedConverges`, `EventsCome`, `SilentPeerNoticed`, `HealthRecovers`,
`ShutdownEnds` and `QueuedArrives`, because fairness and
`ENABLED` are beyond the prover. Every safety property of a passing run is
stated by a theorem.

## 6. Not modelled

- PeerLink's Disconnect, which only tests call. It closes the queues of a peer
  that a SendEvent or a requeue may be about to send on.
- The client's Close, its temporary subscriptions, and a cursor that names
  another node.
- Authentication, middleware, admin and topic handlers, statistics, the
  command-line client: they read state, or have none.
- The generated protocol code, and the library behind it: gRPC is a stream that
  keeps order and may break with what is on it; Pebble is a store whose
  synchronous batches are atomic and durable.
- Contract tests: they are tests of `EventLog`'s promises, which the refinement
  runs check.

Facts about the code that the models rest on or leave aside:

- Start, Stop and Close of a node are called from one goroutine at a time.
- DELETE of a subscription removes every subscription of that client to the same
  topic (`DeleteApply`); `--no-auth` makes all requests the one client
  `dev-client`.
- Two overlapping patterns of one stream put an event twice into its channel.
- A failed dial counts as a connection that was made, so the retry counter never
  reaches the limit that would make an outbound peer Unhealthy.
- A node that lists itself among its seeds peers with itself and appends its own
  events twice, the exception `OneCopy` makes.
- A token lasts 24 hours and the streaming client does not authenticate again.
- The node's `clients` map only grows, and `logNodeReady` reads the HTTP
  server's listener without synchronisation; no decision depends on either.

## 7. Plan

1. *Done:* event logs behind one backend, interest gossip, SSE resume, PeerLink,
   routing table, mesh node, lifecycle, several nodes; for each of them theorems
   that state the safety properties of its runs for every instance.
2. Next theorems: that the parts fit together, `Mesh`'s queues and channels as an
   abstraction of `PeerLink`'s data plane, and `MeshNode`'s log as one of
   `EventLog`; the safety half of the liveness arguments (what a waiting
   goroutine waits for is always held by one that can move).
3. Next modules: the client's Close and temporary subscriptions, and a
   composition of `InterestGossip` and `Mesh` in which views are what the gossip
   of each pair of nodes makes them, instead of anything it might.
