------------------------------ MODULE PeerLink ------------------------------
(***************************************************************************)
(* One node's side of its link to one peer ID, internal/peerlink: the      *)
(* connections entry, the two bounded send queues, the goroutine of every  *)
(* outbound connection (runOutboundConnection) and the handler of every    *)
(* accepted stream (EventStream), all taking from the same two queues; and *)
(* the peer's health as messages, failures, closing streams and the        *)
(* heartbeat ticker drive it.  Peers do not share any of this state, so    *)
(* one peer is enough.  Disconnect and Close are not modelled here.        *)
(***************************************************************************)
EXTENDS Integers, Sequences, FiniteSets

CONSTANTS
  QueueCap,     \* Config.SendQueueSize (100)
  MaxAttempts,  \* Config.MaxSendAttempts (3)
  MaxLinks,     \* bound: outbound connections and accepted streams
  MaxMsgs,      \* bound: SendEvent calls
  MaxBreaks     \* bound: broken streams

ASSUME QueueCapAssumption == QueueCap \in Nat \ {0}
ASSUME LinkBoundsAssumption ==
  MaxAttempts \in Nat /\ MaxLinks \in Nat /\ MaxMsgs \in Nat /\ MaxBreaks \in Nat

VARIABLES
  entry,     \* connections[peer]: the link it stands for, 0 when absent
  link,      \* link[i]: "unused", or where the i-th connection stands
  dataQ,     \* sendQueues[peer]
  ctlQ,      \* controlQueues[peer]: the number of heartbeats in it
  hand,      \* hand[i]: the message link i has taken and is sending, if any
  listed,    \* the peer's own connections entry for this node: see Establish
  pending,   \* pending[i]: link i's receive goroutine has a message to handle
  health,    \* metrics.healthState
  quiet,     \* lastSeenAt is at least a heartbeat timeout ago
  drops,     \* metrics.dataPlaneDropsCount
  calls,     \* ghost: SendEvent calls so far; the n-th call's message is n
  refused,   \* ghost: messages SendEvent returned an error for
  sent,      \* ghost: messages gRPC accepted
  dropped,   \* ghost: messages dropped after they were queued
  lost,      \* ghost: messages that left the queue and went nowhere
  breaks     \* ghost: streams broken so far

queueVars == <<dataQ, ctlQ, hand>>
healthVars == <<health, quiet>>
msgVars == <<drops, calls, refused, sent, dropped, lost>>
vars == <<entry, link, listed, queueVars, pending, healthVars, msgVars, breaks>>

Links == 1 .. MaxLinks
Msgs == [id : 1 .. MaxMsgs, tries : 0 .. MaxAttempts]
Heartbeat == [id |-> 0, tries |-> 0]

\* Outbound: without a gRPC client and a goroutine, dialling, up, or its stream
\* broken and not noticed yet.  Inbound: registered and about to answer the
\* handshake, up, broken, returned but for the deferred cleanup, or over.
OutStates == {"stillborn", "dial", "out-up", "out-broken"}
InStates == {"greet", "in-up", "in-broken", "closed", "over"}
Up(i) == link[i] \in {"out-up", "in-up"}
Broken(i) == link[i] \in {"out-broken", "in-broken"}
Used == {i \in Links : link[i] # "unused"}

\* The peer's entry for this node is the connection it has dialled itself.
OwnEntry == MaxLinks + 1

\* registerPeer has run: the queues and the metrics exist.
Registered == Used # {}

Init ==
  /\ entry = 0
  /\ link = [i \in Links |-> "unused"]
  /\ listed = 0
  /\ dataQ = <<>>
  /\ ctlQ = 0
  /\ hand = [i \in Links |-> <<>>]
  /\ pending = [i \in Links |-> FALSE]
  /\ health = "Healthy"
  /\ quiet = FALSE
  /\ drops = 0 /\ calls = 0
  /\ refused = {} /\ sent = {} /\ dropped = {} /\ lost = {}
  /\ breaks = 0

-----------------------------------------------------------------------------
(* Connections *)

NextLink == Cardinality(Used) + 1

\* Connect: nothing happens when the peer has an entry, from either side.
Connect ==
  /\ entry = 0
  /\ NextLink <= MaxLinks
  /\ entry' = NextLink
  /\ link' = [link EXCEPT ![NextLink] = "dial"]
  /\ UNCHANGED <<listed, queueVars, pending, healthVars, msgVars, breaks>>

\* grpc.NewClient rejects the peer's address: the entry is there already and
\* stays, with nothing that would ever dial.
ConnectFails ==
  /\ entry = 0
  /\ NextLink <= MaxLinks
  /\ entry' = NextLink
  /\ link' = [link EXCEPT ![NextLink] = "stillborn"]
  /\ UNCHANGED <<listed, queueVars, pending, healthVars, msgVars, breaks>>

\* EventStream has read a handshake: the stream takes over the entry.
Accept ==
  /\ NextLink <= MaxLinks
  /\ entry' = NextLink
  /\ link' = [link EXCEPT ![NextLink] = "greet"]
  /\ UNCHANGED <<listed, queueVars, pending, healthVars, msgVars, breaks>>

\* The handshake response is sent; from here on the cleanup is deferred.
Greet(i) ==
  /\ link[i] = "greet"
  /\ link' = [link EXCEPT ![i] = "in-up"]
  /\ UNCHANGED <<entry, listed, queueVars, pending, healthVars, msgVars, breaks>>

\* The response cannot be sent: EventStream returns, without any cleanup.
GreetFails(i) ==
  /\ link[i] = "greet"
  /\ breaks < MaxBreaks
  /\ breaks' = breaks + 1
  /\ link' = [link EXCEPT ![i] = "over"]
  /\ UNCHANGED <<entry, listed, queueVars, pending, healthVars, msgVars>>

MarkPeerSeen == health' = "Healthy" /\ quiet' = FALSE

\* establishStreamWithHandshake succeeds: the peer has accepted the stream, which
\* took over its entry for this node, and its answer is here.
Establish(i) ==
  /\ link[i] = "dial"
  /\ link' = [link EXCEPT ![i] = "out-up"]
  /\ listed' = i
  /\ MarkPeerSeen
  /\ UNCHANGED <<entry, queueVars, pending, msgVars, breaks>>

\* The peer has accepted the stream, but its answer does not arrive.
\* attemptStreamConnection reports success all the same, and the loop dials again.
EstablishFails(i) ==
  /\ link[i] = "dial"
  /\ listed' = i
  /\ UNCHANGED <<entry, link, queueVars, pending, healthVars, msgVars, breaks>>

\* The peer's Connect, whose stream arrives here as an Accept, if it does.
PeerConnect ==
  /\ listed = 0
  /\ listed' = OwnEntry
  /\ UNCHANGED <<entry, link, queueVars, pending, healthVars, msgVars, breaks>>

\* The peer's deferred cleanup, of a stream of this node that has ended.
PeerCleanup ==
  /\ listed \in Links /\ link[listed] # "out-up"
  /\ listed' = 0
  /\ UNCHANGED <<entry, link, queueVars, pending, healthVars, msgVars, breaks>>

\* The transport fails; nobody here has noticed.
Break(i) ==
  /\ Up(i)
  /\ breaks < MaxBreaks
  /\ breaks' = breaks + 1
  /\ link' = [link EXCEPT ![i] = IF @ = "out-up" THEN "out-broken" ELSE "in-broken"]
  /\ UNCHANGED <<entry, listed, queueVars, pending, healthVars, msgVars>>

Leave(i) == link' = [link EXCEPT ![i] = IF @ = "out-broken" THEN "dial" ELSE "closed"]

\* The receive goroutine's error reaches the sender between two messages.
Notice(i) ==
  /\ Broken(i) /\ hand[i] = <<>>
  /\ Leave(i)
  /\ UNCHANGED <<entry, listed, queueVars, pending, healthVars, msgVars, breaks>>

\* Mutant: the entry is deleted whichever stream it stands for.
CleanupAnyEntry(i) ==
  /\ link[i] = "closed"
  /\ link' = [link EXCEPT ![i] = "over"]
  /\ entry' = 0
  /\ health' = "Disconnected"
  /\ UNCHANGED <<listed, queueVars, pending, quiet, msgVars, breaks>>

\* EventStream's deferred function.
Cleanup(i) ==
  /\ link[i] = "closed"
  /\ link' = [link EXCEPT ![i] = "over"]
  /\ entry' = IF entry = i THEN 0 ELSE entry
  /\ health' = "Disconnected"
  /\ UNCHANGED <<listed, queueVars, pending, quiet, msgVars, breaks>>

-----------------------------------------------------------------------------
(* Sending *)

\* Mutant: the queue is not bounded.
SendEventUnbounded ==
  /\ Registered
  /\ calls < MaxMsgs
  /\ calls' = calls + 1
  /\ dataQ' = Append(dataQ, [id |-> calls + 1, tries |-> 0])
  /\ UNCHANGED <<entry, link, listed, ctlQ, hand, pending, healthVars,
                 drops, refused, sent, dropped, lost, breaks>>

SendEvent ==
  /\ Registered
  /\ calls < MaxMsgs
  /\ Len(dataQ) < QueueCap
  /\ calls' = calls + 1
  /\ dataQ' = Append(dataQ, [id |-> calls + 1, tries |-> 0])
  /\ UNCHANGED <<entry, link, listed, ctlQ, hand, pending, healthVars,
                 drops, refused, sent, dropped, lost, breaks>>

\* recordPlaneDrop, for the data plane
RecordPlaneDrop(ids) == drops' = drops + Cardinality(ids)

\* The queue stays full for SendTimeout: counted, and the caller is told.
SendEventTimeout ==
  /\ Registered
  /\ calls < MaxMsgs
  /\ Len(dataQ) >= QueueCap
  /\ calls' = calls + 1
  /\ refused' = refused \cup {calls + 1}
  /\ RecordPlaneDrop({calls + 1})
  /\ UNCHANGED <<entry, link, listed, queueVars, pending, healthVars, sent, dropped, lost, breaks>>

\* nextOutboundMessageOrDone, and EventStream's selects.  The first select looks
\* at the control queue only, but a message queued there before the second one
\* may lose to a data message: either queue may be the one that is taken from.
Take(i) ==
  /\ Up(i) \/ Broken(i)
  /\ hand[i] = <<>>
  /\ \/ /\ ctlQ > 0
        /\ ctlQ' = ctlQ - 1
        /\ hand' = [hand EXCEPT ![i] = <<Heartbeat>>]
        /\ UNCHANGED dataQ
     \/ /\ dataQ # <<>>
        /\ dataQ' = Tail(dataQ)
        /\ hand' = [hand EXCEPT ![i] = <<Head(dataQ)>>]
        /\ UNCHANGED ctlQ
  /\ UNCHANGED <<entry, link, listed, pending, healthVars, msgVars, breaks>>

\* The ids of the user events in a sequence of messages.
Ids(s) == {s[k].id : k \in DOMAIN s} \ {0}

Send(i) ==
  /\ Up(i) /\ hand[i] # <<>>
  /\ hand' = [hand EXCEPT ![i] = <<>>]
  /\ sent' = sent \cup Ids(hand[i])
  /\ UNCHANGED <<entry, link, listed, dataQ, ctlQ, pending, healthVars,
                 drops, calls, refused, dropped, lost, breaks>>

\* handleSendFailure keeps the message: another attempt is left, and room.
Requeue(i) ==
  /\ Head(hand[i]).tries < MaxAttempts
  /\ IF Head(hand[i]) = Heartbeat
     THEN ctlQ < QueueCap /\ ctlQ' = ctlQ + 1 /\ UNCHANGED dataQ
     ELSE /\ Len(dataQ) < QueueCap
          /\ dataQ' = Append(dataQ, [Head(hand[i]) EXCEPT !.tries = @ + 1])
          /\ UNCHANGED ctlQ
  /\ UNCHANGED <<drops, dropped>>

\* Mutant: the drop is not counted.
DropUncounted(i) ==
  /\ \/ Head(hand[i]) = Heartbeat
     \/ Head(hand[i]).tries >= MaxAttempts
     \/ Len(dataQ) >= QueueCap
  /\ dropped' = dropped \cup Ids(hand[i])
  /\ UNCHANGED <<dataQ, ctlQ, drops>>

\* dropFailedMessage.  Heartbeats are interchangeable, so their attempts are not
\* counted: one may be dropped at any failure.
DropFailedMessage(i) ==
  /\ \/ Head(hand[i]) = Heartbeat
     \/ Head(hand[i]).tries >= MaxAttempts
     \/ Len(dataQ) >= QueueCap
  /\ RecordPlaneDrop(Ids(hand[i]))
  /\ dropped' = dropped \cup Ids(hand[i])
  /\ UNCHANGED <<dataQ, ctlQ>>

\* stream.Send fails on an outbound stream.
SendFails(i) ==
  /\ link[i] = "out-broken" /\ hand[i] # <<>>
  /\ Requeue(i) \/ DropFailedMessage(i)
  /\ hand' = [hand EXCEPT ![i] = <<>>]
  /\ Leave(i)
  /\ health' = "Unhealthy"
  /\ UNCHANGED <<entry, listed, pending, quiet, calls, refused, sent, lost, breaks>>

\* sendServerStreamMessage fails: logged, and the handler returns.
ServerSendFails(i) ==
  /\ link[i] = "in-broken" /\ hand[i] # <<>>
  /\ hand' = [hand EXCEPT ![i] = <<>>]
  /\ lost' = lost \cup Ids(hand[i])
  /\ Leave(i)
  /\ UNCHANGED <<entry, listed, dataQ, ctlQ, pending, healthVars,
                 drops, calls, refused, sent, dropped, breaks>>

-----------------------------------------------------------------------------
(* Receiving, and the heartbeat ticker *)

\* A message from the peer reaches link i's receive goroutine ...
Receive(i) ==
  /\ Up(i) /\ ~pending[i]
  /\ pending' = [pending EXCEPT ![i] = TRUE]
  /\ UNCHANGED <<entry, link, listed, queueVars, healthVars, msgVars, breaks>>

\* Mutant: a message brings back an Unhealthy peer, not a Disconnected one.
HandleUnlessDisconnected(i) ==
  /\ pending[i]
  /\ pending' = [pending EXCEPT ![i] = FALSE]
  /\ health' = IF health = "Unhealthy" THEN "Healthy" ELSE health
  /\ quiet' = FALSE
  /\ UNCHANGED <<entry, link, listed, queueVars, msgVars, breaks>>

\* ... which marks the peer seen, whatever has become of the stream meanwhile.
Handle(i) ==
  /\ pending[i]
  /\ pending' = [pending EXCEPT ![i] = FALSE]
  /\ MarkPeerSeen
  /\ UNCHANGED <<entry, link, listed, queueVars, msgVars, breaks>>

\* A heartbeat timeout passes without a message.
Silence ==
  /\ Registered /\ ~quiet
  /\ quiet' = TRUE
  /\ UNCHANGED <<entry, link, listed, queueVars, pending, health, msgVars, breaks>>

\* Mutant: silent peers are not looked for.
HeartbeatTickDeaf ==
  /\ Registered
  /\ IF entry # 0 /\ ctlQ >= QueueCap
     THEN health' = "Unhealthy" /\ UNCHANGED ctlQ
     ELSE UNCHANGED health /\ ctlQ' = IF entry # 0 THEN ctlQ + 1 ELSE ctlQ
  /\ UNCHANGED <<entry, link, listed, dataQ, hand, pending, quiet, msgVars, breaks>>

\* markSilentPeersUnhealthy
NoticedHealth == IF quiet /\ health # "Disconnected" THEN "Unhealthy" ELSE health

SendHeartbeat ==
  /\ ctlQ < QueueCap
  /\ ctlQ' = ctlQ + 1

\* sendHeartbeatToConnectedPeers: silent peers first, then a heartbeat for a
\* peer with an entry; a control queue that stays full is a send failure.
HeartbeatTick ==
  /\ Registered
  /\ \/ entry = 0 /\ health' = NoticedHealth /\ UNCHANGED ctlQ
     \/ entry # 0 /\ SendHeartbeat /\ health' = NoticedHealth
     \/ entry # 0 /\ ctlQ >= QueueCap /\ health' = "Unhealthy" /\ UNCHANGED ctlQ
  /\ UNCHANGED <<entry, link, listed, dataQ, hand, pending, quiet, msgVars, breaks>>

-----------------------------------------------------------------------------
Sender(i) == Take(i) \/ Send(i) \/ SendFails(i) \/ ServerSendFails(i) \/ Notice(i) \/ Cleanup(i)

Next ==
  \/ Connect \/ ConnectFails \/ Accept \/ PeerConnect \/ PeerCleanup
  \/ SendEvent \/ SendEventTimeout \/ Silence \/ HeartbeatTick
  \/ \E i \in Links :
       \/ Greet(i) \/ GreetFails(i) \/ Establish(i) \/ EstablishFails(i) \/ Break(i)
       \/ Sender(i) \/ Receive(i) \/ Handle(i)

Spec == Init /\ [][Next]_vars

\* The peer's ticker queues a heartbeat for the peers it lists, and the sender of
\* one of the streams takes it.
PeerHeartbeat == listed # 0 /\ \E i \in Links : Receive(i)

\* The goroutines run, here and at the peer, the tickers tick and time passes.
Fairness ==
  /\ WF_vars(HeartbeatTick) /\ WF_vars(Silence) /\ WF_vars(PeerHeartbeat)
  /\ \A i \in Links : WF_vars(Sender(i)) /\ WF_vars(Greet(i)) /\ WF_vars(Handle(i))

FairSpec == Spec /\ Fairness

-----------------------------------------------------------------------------
(* Properties *)

\* The shape of the state: queues within their capacity, one message in a hand,
\* no message tried more often than allowed.
TypeOK ==
  /\ entry \in 0 .. MaxLinks
  /\ link \in [Links -> {"unused"} \cup OutStates \cup InStates]
  /\ listed \in 0 .. OwnEntry
  /\ dataQ \in Seq(Msgs) /\ Len(dataQ) <= QueueCap
  /\ ctlQ \in 0 .. QueueCap
  /\ hand \in [Links -> {<<>>, <<Heartbeat>>} \cup {<<m>> : m \in Msgs}]
  /\ pending \in [Links -> BOOLEAN]
  /\ health \in {"Healthy", "Unhealthy", "Disconnected"}
  /\ quiet \in BOOLEAN
  /\ drops \in Nat /\ calls \in 0 .. MaxMsgs /\ breaks \in 0 .. MaxBreaks
  /\ \A S \in {refused, sent, dropped, lost} : S \subseteq 1 .. MaxMsgs

\* How often message m is somewhere.
Copies(m) ==
  Cardinality({k \in DOMAIN dataQ : dataQ[k].id = m})
    + Cardinality({i \in Links : m \in Ids(hand[i])})
    + Cardinality({S \in {1, 2, 3, 4} : m \in <<refused, sent, dropped, lost>>[S]})

\* Several connections share the peer's queue, streams break and messages are
\* requeued, yet no message SendEvent was called with is duplicated inside
\* PeerLink: it is queued, in one sender's hand, with gRPC, refused, dropped, or
\* lost with a stream the peer had dialled.  The drop counter operators read
\* counts the refused and the dropped ones, and not the lost ones
\* (sendServerStreamMessage only logs them): see FailedSendsCounted.
EachMessageOnce ==
  /\ \A m \in 1 .. calls : Copies(m) = 1
  /\ drops = Cardinality(refused) + Cardinality(dropped)

\* docs/design.md, "Peer Contract": a failed send is retried, and a message that
\* is given up "is counted as a drop".  So what is neither queued, nor in a hand,
\* nor with gRPC any more is in the counter.
FailedSendsCounted ==
  LET gone == {m \in 1 .. calls : /\ m \notin Ids(dataQ) \cup sent
                                  /\ \A i \in Links : m \notin Ids(hand[i])}
  IN  drops = Cardinality(gone)

\* The entry stands for the newest connection until that one is cleaned up: an
\* older stream that ends late, or in the middle of a reconnect, never takes
\* the entry from its successor (the comparison in EventStream's deferred
\* function).
CleanupKeepsNewer ==
  LET newest == Cardinality(Used)
  IN  Registered => entry = newest \/ (entry = 0 /\ link[newest] = "over")

\* A peer nobody has a stream to does not stay Healthy: the ticker or a failed
\* send finds out.
SilentPeerNoticed ==
  [](Registered => <>(health # "Healthy" \/ \E i \in Links : Up(i) \/ pending[i]))

\* A working stream and a peer that lists this node are enough for the peer to be
\* Healthy again, whatever an old stream's cleanup or a failed send set its
\* health to.  A peer that has lost its entry sends no heartbeats.
HealthRecovers ==
  <>[](listed # 0 /\ \E i \in Links : Up(i)) => []<>(health = "Healthy")
=============================================================================
