--------------------------- MODULE InterestGossip ---------------------------
(***************************************************************************)
(* How a node tells its peers which topics its local clients want.         *)
(*                                                                         *)
(* Subscribe and Unsubscribe run under the node lock; when the local       *)
(* interest in a topic appears or disappears they queue a delta for every  *)
(* connected peer.  A background goroutine (resyncSubscriptionsToNewPeers) *)
(* queues a full snapshot for a peer it has not seen before; it does not   *)
(* take the node lock, so it reads the snapshot in one step and queues it  *)
(* in a later one.  Messages then pass through PeerLink's bounded control  *)
(* queue, the sender's hand, the gRPC stream and a bounded channel at the  *)
(* peer, whose MeshNode applies them to its view of this node.             *)
(*                                                                         *)
(* Streams break, the peer restarts, the node restarts.  A peer may have   *)
(* one stream it dialled and one that was dialled here; both senders take  *)
(* from its queue.  Heartbeats, which share the control queue, are left    *)
(* out: they only take up its slots.                                       *)
(***************************************************************************)
EXTENDS Integers, Sequences

CONSTANTS
  Peers, Topics, Clients,
  EarlyPeers,   \* peers whose MeshNode is already running when this one starts
  QueueCap,     \* Config.SendQueueSize (100)
  RxCap,        \* capacity of a ReceiveInterestMessages channel (10)
  MaxAttempts,  \* Config.MaxSendAttempts (3)
  MaxOps,       \* bound: Subscribe and Unsubscribe calls in a behaviour
  MaxBreaks,    \* bound: streams broken in a behaviour
  MaxRestarts   \* bound: process restarts in a behaviour

ASSUME CapsAssumption ==
  QueueCap \in Nat /\ RxCap \in Nat /\ MaxAttempts \in Nat

ASSUME BoundsAssumption ==
  MaxOps \in Nat /\ MaxBreaks \in Nat /\ MaxRestarts \in Nat

VARIABLES
  subs,    \* local subscriptions: pairs <<client, topic>>
  op,      \* the Subscribe or Unsubscribe that holds the node lock
  resync,  \* the resync goroutine
  seen,    \* its seenPeers
  link,    \* link[p]: PeerLink.connections entry: "none", of an accepted
           \* stream ("in"), of one dialled here ("out"), or of an accepted
           \* stream whose handler is gone without its cleanup ("dead")
  dials,   \* dials[p]: runOutboundConnection runs for p
  stream,  \* stream[p]: which streams to p are up, accepted and dialled here
  queue,   \* queue[p]: PeerLink.controlQueues
  held,    \* held[p]: the message taken off the queue and being sent, if any
  wire,    \* wire[p]: sent and not yet received
  rx,      \* rx[p]: in the channel the peer's MeshNode reads
  ready,   \* ready[p]: the peer's MeshNode has registered that channel
  view,    \* view[p]: the peer's peerSubscriptions entry for this node
  damaged, \* ghost: damaged[p]: since the last accurate snapshot queued for p,
           \* a message was lost, reordered or overtaken, or p forgot its view
  synced,  \* ghost: synced[p]: a snapshot was queued for p since it last lost
           \* its stream
  used     \* ghost: how much of each bound is used up

nodeVars == <<subs, op, resync, seen>>
linkVars == <<link, dials, stream, queue, held, wire>>
peerVars == <<rx, ready, view>>
ghostVars == <<damaged, synced>>
vars == <<nodeVars, linkVars, peerVars, ghostVars, used>>

-----------------------------------------------------------------------------
(* Messages *)

Kinds == {"subscribe", "unsubscribe", "snapshot"}
Messages == [kind : Kinds, topics : SUBSET Topics, tries : Nat]

\* An InterestUpdate for one topic, or an InterestSnapshot of the whole set.
Msg(k, S) == [kind |-> k, topics |-> S, tries |-> 0]

\* Mutant: a snapshot is added to what is known.
ApplyMerges(m, v) ==
  CASE m.kind = "subscribe"   -> v \cup m.topics
    [] m.kind = "unsubscribe" -> v \ m.topics
    [] m.kind = "snapshot"    -> v \cup m.topics

\* processIncomingInterestUpdate and processIncomingInterestSnapshot
Apply(m, v) ==
  CASE m.kind = "subscribe"   -> v \cup m.topics
    [] m.kind = "unsubscribe" -> v \ m.topics
    [] m.kind = "snapshot"    -> m.topics

\* localTopicInterestCount(t) > 0, and localInterestSnapshot
Interested(S, t) == \E c \in Clients : <<c, t>> \in S
Interest(S) == {t \in Topics : Interested(S, t)}

-----------------------------------------------------------------------------
IdleOp == [pc |-> "idle", msg |-> Msg("snapshot", {}), todo |-> {}]
IdleResync == [pc |-> "idle", todo |-> {}, current |-> {}, topics |-> {}]
Bounds == {"ops", "breaks", "restarts"}
Connected == {p \in Peers : link[p] # "none"}

Init ==
  /\ subs = {}
  /\ op = IdleOp
  /\ resync = IdleResync
  /\ seen = {}
  /\ link = [p \in Peers |-> "none"]
  /\ dials = [p \in Peers |-> FALSE]
  /\ stream = [p \in Peers |-> {}]
  /\ queue = [p \in Peers |-> <<>>]
  /\ held = [p \in Peers |-> <<>>]
  /\ wire = [p \in Peers |-> <<>>]
  /\ rx = [p \in Peers |-> <<>>]
  /\ ready = [p \in Peers |-> p \in EarlyPeers]
  /\ view = [p \in Peers |-> {}]
  /\ damaged = [p \in Peers |-> FALSE]
  /\ synced = [p \in Peers |-> FALSE]
  /\ used = [b \in Bounds |-> 0]

\* One more use of a bound.
Spend(what, max) ==
  /\ used[what] < max
  /\ used' = [used EXCEPT ![what] = @ + 1]

-----------------------------------------------------------------------------
(* Subscribe and Unsubscribe *)

\* The routing table and the metadata are updated under the node lock; a delta
\* is due only if the topic had no local interest before.
Subscribe(c, t) ==
  /\ op.pc = "idle"
  /\ Spend("ops", MaxOps)
  /\ subs' = subs \cup {<<c, t>>}
  /\ op' = IF Interested(subs, t) THEN IdleOp
           ELSE [pc |-> "list", msg |-> Msg("subscribe", {t}), todo |-> {}]
  /\ UNCHANGED <<resync, seen, linkVars, peerVars, ghostVars>>

\* Mutant: peers are told although other clients remain.
UnsubscribeAlwaysTells(c, t) ==
  /\ op.pc = "idle"
  /\ Spend("ops", MaxOps)
  /\ subs' = subs \ {<<c, t>>}
  /\ op' = [pc |-> "list", msg |-> Msg("unsubscribe", {t}), todo |-> {}]
  /\ UNCHANGED <<resync, seen, linkVars, peerVars, ghostVars>>

\* All of the client's subscriptions to the topic go; a delta is due if nobody
\* is left.  Removing a subscription that is not there is not an error.
Unsubscribe(c, t) ==
  /\ op.pc = "idle"
  /\ Spend("ops", MaxOps)
  /\ subs' = subs \ {<<c, t>>}
  /\ op' = IF Interested(subs', t) THEN IdleOp
           ELSE [pc |-> "list", msg |-> Msg("unsubscribe", {t}), todo |-> {}]
  /\ UNCHANGED <<resync, seen, linkVars, peerVars, ghostVars>>

\* propagateInterestUpdate asks PeerLink who is connected; whoever is not
\* listed misses this delta.
ListPeers ==
  /\ op.pc = "list"
  /\ op' = IF Connected = {} THEN IdleOp
           ELSE [op EXCEPT !.pc = "send", !.todo = Connected]
  /\ damaged' = [p \in Peers |-> damaged[p] \/ p \notin Connected]
  /\ UNCHANGED <<subs, resync, seen, linkVars, peerVars, synced, used>>

OpDoneWith(p) ==
  op' = IF op.todo = {p} THEN IdleOp ELSE [op EXCEPT !.todo = @ \ {p}]

\* Mutant: the queue is not bounded.
SendDeltaUnbounded(p) ==
  /\ op.pc = "send" /\ p \in op.todo
  /\ queue' = [queue EXCEPT ![p] = Append(@, op.msg)]
  /\ OpDoneWith(p)
  /\ UNCHANGED <<subs, resync, seen, link, dials, stream, held, wire, peerVars, ghostVars, used>>

\* SendInterestUpdate: there is room in the peer's control queue.
SendDelta(p) ==
  /\ op.pc = "send" /\ p \in op.todo
  /\ Len(queue[p]) < QueueCap
  /\ queue' = [queue EXCEPT ![p] = Append(@, op.msg)]
  /\ OpDoneWith(p)
  /\ UNCHANGED <<subs, resync, seen, link, dials, stream, held, wire, peerVars, ghostVars, used>>

\* The queue stays full for SendTimeout, or the caller's context ends, which the
\* select may prefer to a queue with room: the delta is dropped and only logged.
DropDelta(p) ==
  /\ op.pc = "send" /\ p \in op.todo
  /\ OpDoneWith(p)
  /\ damaged' = [damaged EXCEPT ![p] = TRUE]
  /\ UNCHANGED <<subs, resync, seen, linkVars, peerVars, synced, used>>

-----------------------------------------------------------------------------
(* resyncSubscriptionsToNewPeers *)

\* A tick that finds no new peer only forgets the peers that are gone.
Tick ==
  /\ resync.pc = "idle"
  /\ IF Connected \subseteq seen
     THEN /\ seen' = seen \cap Connected
          /\ UNCHANGED resync
     ELSE /\ resync' = [pc |-> "loop", todo |-> Connected \ seen,
                        current |-> Connected, topics |-> {}]
          /\ UNCHANGED seen
  /\ UNCHANGED <<subs, op, linkVars, peerVars, ghostVars, used>>

\* localInterestSnapshot: the metadata lock is taken and released.
ReadSnapshot ==
  /\ resync.pc = "loop"
  /\ resync' = [resync EXCEPT !.pc = "snap", !.topics = Interest(subs)]
  /\ UNCHANGED <<subs, op, seen, linkVars, peerVars, ghostVars, used>>

\* The tick moves on; after the last peer it forgets those it did not find.
ResyncDoneWith(p, ok) ==
  LET rest == resync.todo \ {p}
      now  == IF ok THEN seen \cup {p} ELSE seen
  IN  IF rest = {}
      THEN resync' = IdleResync /\ seen' = now \cap resync.current
      ELSE resync' = [resync EXCEPT !.pc = "loop", !.todo = rest, !.topics = {}]
           /\ seen' = now

\* Two streams are up, and messages may overtake each other.
TwoStreams(p) == stream[p] = {"in", "out"}

\* SendInterestSnapshot: what was read may have been overtaken by a delta.
SendSnapshot(p) ==
  /\ resync.pc = "snap" /\ p \in resync.todo
  /\ Len(queue[p]) < QueueCap
  /\ queue' = [queue EXCEPT ![p] = Append(@, Msg("snapshot", resync.topics))]
  /\ damaged' = [damaged EXCEPT ![p] = resync.topics # Interest(subs) \/ TwoStreams(p)]
  /\ synced' = [synced EXCEPT ![p] = TRUE]
  /\ ResyncDoneWith(p, TRUE)
  /\ UNCHANGED <<subs, op, link, dials, stream, held, wire, peerVars, used>>

\* Mutant: the peer counts as seen although its snapshot was dropped.
DropSnapshotSeen(p) ==
  /\ resync.pc = "snap" /\ p \in resync.todo
  /\ Len(queue[p]) >= QueueCap
  /\ ResyncDoneWith(p, TRUE)
  /\ UNCHANGED <<subs, op, linkVars, peerVars, ghostVars, used>>

\* The queue stays full for SendTimeout: the peer is tried again next tick.
DropSnapshot(p) ==
  /\ resync.pc = "snap" /\ p \in resync.todo
  /\ Len(queue[p]) >= QueueCap
  /\ ResyncDoneWith(p, FALSE)
  /\ UNCHANGED <<subs, op, linkVars, peerVars, ghostVars, used>>

-----------------------------------------------------------------------------
(* PeerLink: connections, streams and the sender *)

\* The peer dials us: EventStream registers it after the handshake, over whatever
\* entry there is.  An earlier accepted stream, if any, has broken, though its
\* cleanup may still be to come and then leaves the entry alone.
Accept(p) ==
  /\ "in" \notin stream[p]
  /\ link' = [link EXCEPT ![p] = "in"]
  /\ stream' = [stream EXCEPT ![p] = @ \cup {"in"}]
  /\ damaged' = [damaged EXCEPT ![p] = @ \/ "out" \in stream[p]]
  /\ UNCHANGED <<nodeVars, dials, queue, held, wire, peerVars, synced, used>>

\* The handshake response cannot be sent: the handler returns before it has
\* deferred its cleanup, and the entry stays.
AcceptFails(p) ==
  /\ "in" \notin stream[p]
  /\ Spend("breaks", MaxBreaks)
  /\ link' = [link EXCEPT ![p] = "dead"]
  /\ UNCHANGED <<nodeVars, dials, stream, queue, held, wire, peerVars, ghostVars>>

\* EventStream's deferred cleanup, of an accepted stream that still has the entry.
Cleanup(p) ==
  /\ link[p] = "in" /\ "in" \notin stream[p]
  /\ link' = [link EXCEPT ![p] = "none"]
  /\ UNCHANGED <<nodeVars, dials, stream, queue, held, wire, peerVars, ghostVars, used>>

\* We dial the peer: the connections entry is there before any stream is.
Connect(p) ==
  /\ link[p] = "none"
  /\ link' = [link EXCEPT ![p] = "out"]
  /\ dials' = [dials EXCEPT ![p] = TRUE]
  /\ UNCHANGED <<nodeVars, stream, queue, held, wire, peerVars, ghostVars, used>>

\* Mutant: the loop gives up once a stream has broken.
EstablishOnce(p) ==
  /\ dials[p] /\ "out" \notin stream[p] /\ used["breaks"] = 0
  /\ stream' = [stream EXCEPT ![p] = @ \cup {"out"}]
  /\ damaged' = [damaged EXCEPT ![p] = @ \/ "in" \in stream[p]]
  /\ UNCHANGED <<nodeVars, link, dials, queue, held, wire, peerVars, synced, used>>

\* attemptStreamConnection, first or after a break, whoever has the entry by now.
Establish(p) ==
  /\ dials[p] /\ "out" \notin stream[p]
  /\ stream' = [stream EXCEPT ![p] = @ \cup {"out"}]
  /\ damaged' = [damaged EXCEPT ![p] = @ \/ "in" \in stream[p]]
  /\ UNCHANGED <<nodeVars, link, dials, queue, held, wire, peerVars, synced, used>>

Dequeue(p) ==
  /\ stream[p] # {}
  /\ held[p] = <<>>
  /\ queue[p] # <<>>
  /\ held' = [held EXCEPT ![p] = <<Head(queue[p])>>]
  /\ queue' = [queue EXCEPT ![p] = Tail(@)]
  /\ UNCHANGED <<nodeVars, link, dials, stream, wire, peerVars, ghostVars, used>>

\* stream.Send accepts the message.
Send(p) ==
  /\ stream[p] # {}
  /\ held[p] # <<>>
  /\ wire' = [wire EXCEPT ![p] = Append(@, [Head(held[p]) EXCEPT !.tries = 0])]
  /\ held' = [held EXCEPT ![p] = <<>>]
  /\ UNCHANGED <<nodeVars, link, dials, stream, queue, peerVars, ghostVars, used>>

\* What handleSendFailure puts back: behind whatever was queued meanwhile.  The
\* handler of an accepted stream (sendServerStreamMessage) puts nothing back.
Requeue(p, lost) ==
  IF /\ "out" \in lost /\ held[p] # <<>>
     /\ Head(held[p]).tries < MaxAttempts
     /\ Len(queue[p]) < QueueCap
  THEN <<[Head(held[p]) EXCEPT !.tries = @ + 1]>>
  ELSE <<>>

\* Nothing is lost or reordered by losing the streams only if nothing was in
\* flight, or the one message being sent goes back to an empty queue.
HarmlessBreak(p, lost) ==
  wire[p] = <<>> /\ (held[p] = <<>> \/ (queue[p] = <<>> /\ Requeue(p, lost) # <<>>))

\* The effect of losing streams to p on this side: what is on the wire is gone,
\* the message being sent is requeued or dropped.  (With two streams up p counts
\* as damaged, and it does not matter whose hand the message was in.)
LoseStream(p, lost) ==
  /\ stream' = [stream EXCEPT ![p] = @ \ lost]
  /\ wire' = [wire EXCEPT ![p] = <<>>]
  /\ held' = [held EXCEPT ![p] = <<>>]
  /\ queue' = [queue EXCEPT ![p] = @ \o Requeue(p, lost)]
  /\ synced' = [synced EXCEPT ![p] = FALSE]
  /\ UNCHANGED <<link, dials>>

Break(p) ==
  /\ Spend("breaks", MaxBreaks)
  /\ \E s \in stream[p] :
       /\ LoseStream(p, {s})
       /\ damaged' = [damaged EXCEPT ![p] = @ \/ ~HarmlessBreak(p, {s})]
  /\ UNCHANGED <<nodeVars, peerVars>>

-----------------------------------------------------------------------------
(* The peer *)

\* handleIncomingControlPlaneMessages registers its channel, after the gRPC
\* server has been accepting streams for a while (Start).
PeerReady(p) ==
  /\ ~ready[p]
  /\ ready' = [ready EXCEPT ![p] = TRUE]
  /\ UNCHANGED <<nodeVars, linkVars, rx, view, ghostVars, used>>

\* distributeInterestMessage: a full channel is skipped, and so is a message
\* that arrives while nobody is registered.
PeerReceive(p) ==
  /\ wire[p] # <<>>
  /\ wire' = [wire EXCEPT ![p] = Tail(@)]
  /\ IF ready[p] /\ Len(rx[p]) < RxCap
     THEN /\ rx' = [rx EXCEPT ![p] = Append(@, Head(wire[p]))]
          /\ UNCHANGED damaged
     ELSE /\ damaged' = [damaged EXCEPT ![p] = TRUE]
          /\ UNCHANGED rx
  /\ UNCHANGED <<nodeVars, link, dials, stream, queue, held, ready, view, synced, used>>

\* processIncomingInterestMessage
PeerApply(p) ==
  /\ rx[p] # <<>>
  /\ view' = [view EXCEPT ![p] = Apply(Head(rx[p]), @)]
  /\ rx' = [rx EXCEPT ![p] = Tail(@)]
  /\ UNCHANGED <<nodeVars, linkVars, ready, ghostVars, used>>

\* The peer's process ends and starts again with nothing.
PeerRestart(p) ==
  /\ Spend("restarts", MaxRestarts)
  /\ LoseStream(p, stream[p])
  /\ rx' = [rx EXCEPT ![p] = <<>>]
  /\ ready' = [ready EXCEPT ![p] = FALSE]
  /\ view' = [view EXCEPT ![p] = {}]
  /\ damaged' = [damaged EXCEPT ![p] = TRUE]
  /\ UNCHANGED nodeVars

\* This node's process ends and starts again: no subscription, connection or
\* queue survives; what the peers have received stays with them.
NodeRestart ==
  /\ Spend("restarts", MaxRestarts)
  /\ subs' = {} /\ op' = IdleOp /\ resync' = IdleResync /\ seen' = {}
  /\ link' = [p \in Peers |-> "none"]
  /\ dials' = [p \in Peers |-> FALSE]
  /\ stream' = [p \in Peers |-> {}]
  /\ queue' = [p \in Peers |-> <<>>]
  /\ held' = [p \in Peers |-> <<>>]
  /\ wire' = [p \in Peers |-> <<>>]
  /\ damaged' = [p \in Peers |-> TRUE]
  /\ synced' = [p \in Peers |-> FALSE]
  /\ UNCHANGED peerVars

-----------------------------------------------------------------------------
\* The steps that goroutines take on their own, whatever the world does.
Progress(p) ==
  \/ SendDelta(p) \/ DropDelta(p)
  \/ SendSnapshot(p) \/ DropSnapshot(p)
  \/ Establish(p) \/ Cleanup(p) \/ Dequeue(p) \/ Send(p)
  \/ PeerReady(p) \/ PeerReceive(p) \/ PeerApply(p)

Next ==
  \/ \E c \in Clients, t \in Topics : Subscribe(c, t) \/ Unsubscribe(c, t)
  \/ ListPeers \/ Tick \/ ReadSnapshot \/ NodeRestart
  \/ \E p \in Peers : \/ Progress(p) \/ Accept(p) \/ AcceptFails(p) \/ Connect(p)
                      \/ Break(p) \/ PeerRestart(p)

Spec == Init /\ [][Next]_vars

\* Every goroutine runs: the caller that holds the node lock, the resync
\* ticker, the redial loop (which never gives up), the sender and the receiver
\* of each stream, its cleanup, and the peer's consumer.
Fairness ==
  /\ WF_vars(ListPeers) /\ WF_vars(Tick) /\ WF_vars(ReadSnapshot)
  /\ \A p \in Peers :
       /\ WF_vars(SendDelta(p) \/ DropDelta(p))
       /\ WF_vars(SendSnapshot(p) \/ DropSnapshot(p))
       /\ WF_vars(Establish(p)) /\ WF_vars(Cleanup(p))
       /\ WF_vars(Dequeue(p)) /\ WF_vars(Send(p))
       /\ WF_vars(PeerReady(p)) /\ WF_vars(PeerReceive(p)) /\ WF_vars(PeerApply(p))

FairSpec == Spec /\ Fairness

-----------------------------------------------------------------------------
(* Properties *)

\* The shape of the state, and the bounds of the queue, the sender's hand and
\* the channel.
TypeOK ==
  /\ subs \subseteq Clients \X Topics
  /\ op \in [pc : {"idle", "list", "send"}, msg : Messages, todo : SUBSET Peers]
  /\ resync \in [pc : {"idle", "loop", "snap"}, todo : SUBSET Peers,
                 current : SUBSET Peers, topics : SUBSET Topics]
  /\ seen \subseteq Peers
  /\ link \in [Peers -> {"none", "in", "out", "dead"}]
  /\ dials \in [Peers -> BOOLEAN]
  /\ stream \in [Peers -> SUBSET {"in", "out"}]
  /\ queue \in [Peers -> Seq(Messages)]
  /\ held \in [Peers -> Seq(Messages)]
  /\ wire \in [Peers -> Seq(Messages)]
  /\ rx \in [Peers -> Seq(Messages)]
  /\ ready \in [Peers -> BOOLEAN]
  /\ view \in [Peers -> SUBSET Topics]
  /\ damaged \in [Peers -> BOOLEAN]
  /\ synced \in [Peers -> BOOLEAN]
  /\ used \in [Bounds -> Nat]
  /\ \A p \in Peers : Len(queue[p]) <= QueueCap /\ Len(held[p]) <= 1 /\ Len(rx[p]) <= RxCap

Mentions(m, t) == m.kind = "snapshot" \/ t \in m.topics
Wants(m, t) == m.kind # "unsubscribe" /\ t \in m.topics

\* What a reader who starts out with opinion d on topic t thinks of it after
\* reading s: what the last message about t says, or d if there is none.
After(s, t, d) ==
  IF \E i \in DOMAIN s : Mentions(s[i], t)
  THEN \E i \in DOMAIN s : /\ Wants(s[i], t)
                           /\ \A j \in DOMAIN s : j > i => ~Mentions(s[j], t)
  ELSE d

\* What p will think of t once everything under way to it has arrived.
Outcome(p, t) ==
  After(queue[p], t, After(held[p], t, After(wire[p], t,
    After(rx[p], t, t \in view[p]))))

\* A delta for t is still to be queued for p by the caller that holds the lock.
Pending(p, t) ==
  \/ op.pc = "list" /\ t \in op.msg.topics
  \/ op.pc = "send" /\ t \in op.msg.topics /\ p \in op.todo

\* While a caller still has a delta to queue, the delta says what the metadata
\* says: the node lock keeps every other Subscribe and Unsubscribe out.
DeltaAccurate ==
  op.pc # "idle" =>
    /\ op.msg.kind # "snapshot"
    /\ \A t \in op.msg.topics : Wants(op.msg, t) = Interested(subs, t)

\* Deltas and snapshots together do their job: unless something was lost or
\* overtaken since the last accurate snapshot, what is under way to a peer will
\* bring its view to this node's local interest, however subscribes,
\* unsubscribes, resyncs and reconnects interleave.
PipelineFaithful ==
  \A p \in Peers : ~damaged[p] =>
    \A t \in Topics : Outcome(p, t) # Interested(subs, t) => Pending(p, t)

\* Nothing is left to do for p: no call, no snapshot due, nothing under way.
Settled(p) ==
  /\ op.pc = "idle" /\ resync.pc = "idle"
  /\ p \in seen /\ link[p] # "none" /\ stream[p] # {} /\ ready[p]
  /\ queue[p] = <<>> /\ held[p] = <<>> /\ wire[p] = <<>> /\ rx[p] = <<>>

\* When nothing was lost or overtaken, a settled peer knows exactly this node's
\* local interest: no event it publishes is routed past an interested node.
SettledUndamagedAgree ==
  \A p \in Peers : Settled(p) /\ ~damaged[p] => view[p] = Interest(subs)

\* docs/design.md: the snapshot sent when a peer connects or reconnects makes
\* its view current, so a settled peer agrees with this node, always.
SettledAgree ==
  \A p \in Peers : Settled(p) => view[p] = Interest(subs)

\* docs/design.md: when a peer connects or reconnects, this node sends it a full
\* snapshot; so a settled peer has been sent one since it lost its last stream.
ReconnectGetsSnapshot ==
  \A p \in Peers : Settled(p) => synced[p]

\* No stream to p will come of its own accord: p is not listed, or only by the
\* entry a failed handshake has left.
Cut(p) == link[p] = "none" \/ (link[p] = "dead" /\ stream[p] = {})

\* A listed peer that seenPeers does not hold gets a snapshot on its connection,
\* unless that is lost first: the resync goroutine is never held up for good by a
\* full queue, a broken stream or a busy caller.  (A peer that reconnects between
\* two ticks is still in seenPeers: see ReconnectGetsSnapshot.)
SnapshotComes ==
  \A p \in Peers : (link[p] # "none" /\ p \notin seen) ~> (synced[p] \/ Cut(p))

\* Once subscriptions and connections stop changing, a peer whose messages were
\* not damaged ends up with the right view and keeps it.
UndamagedConverges ==
  \A p \in Peers : <>[](damaged[p] \/ Cut(p) \/ view[p] = Interest(subs))
=============================================================================
