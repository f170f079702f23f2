------------------------------- MODULE MeshNode -------------------------------
(***************************************************************************)
(* One mesh node at work, internal/meshnode behind internal/httpapi: HTTP  *)
(* handlers that publish, create and delete subscriptions and serve SSE    *)
(* streams, and the consumer of events from peers, sharing the routing     *)
(* table (RoutingTable) while the node is stopped, started and closed.     *)
(* How it stops and closes, in steps, is in NodeLifecycle; here each is    *)
(* what it does under n.mu.                                                *)
(*                                                                         *)
(* The table holds client IDs; what an entry delivers to is the channel of *)
(* the HTTPClient it was made with.  CreateSubscription makes one that     *)
(* nobody reads, a stream one that its handler reads.  Node operations     *)
(* hold n.mu, but a stream adds and removes its entries without it.        *)
(*                                                                         *)
(* AuthRequired has given every request its client ID (with --no-auth all  *)
(* of them the same one).  What a peer queue does with an event is in      *)
(* PeerLink, who is interested in it in InterestGossip and Mesh; here each *)
(* of Peers is connected and interested, and its queue may be full.        *)
(***************************************************************************)
EXTENDS RoutingTable, FiniteSetsExt

CONSTANTS
  EventTopics, \* the topics of events
  Publishers,  \* goroutines of PublishEvent handlers
  Conns,       \* goroutines of StreamEvents handlers
  Peers,       \* connected peers that are interested in every topic
  ChanCap,     \* capacity of an HTTPClient's channel (100)
  MaxEvents,   \* bound: events published here or received from peers
  MaxSubs,     \* bound: subscriptions created
  MaxStops     \* bound: calls of Stop

ASSUME MeshNodeAssumption ==
  /\ EventTopics \subseteq Topics
  /\ ChanCap \in Nat \ {0} /\ IsFiniteSet(Publishers) /\ IsFiniteSet(Conns)
  /\ MaxEvents \in Nat /\ MaxSubs \in Nat /\ MaxStops \in Nat

VARIABLES
  started,  \* n.started; n.closed, the log's and PeerLink's are the table's closed
  stops,    \* calls of Stop so far
  readers,  \* goroutines that hold n.mu.RLock
  log,      \* log[e]: how many times event e is in the event log
  events,   \* number of events so far; the n-th is n
  subs,     \* n.subscriptions: subscription number, client, topic pattern
  made,     \* number of subscriptions so far
  holder,   \* holder[k, id]: the channel of the table's entry
  chans,    \* channels made so far; the n-th is n
  fill,     \* fill[o]: events waiting in channel o
  got,      \* ghost: got[o]: events ever put into channel o
  pub,      \* pub[p]: where publisher p is
  queued,   \* queued[q]: events SendEvent has put into the queue of peer q
  deletes,  \* DELETE requests between finding their topic and removing it
  conn,     \* conn[i]: the handler of stream i
  inb,      \* the event from a peer that is being processed, if any
  must,     \* ghost: must[p]: entries there since p's event was appended
  torn      \* ghost: entries a stream's teardown removed, not made again since

tableVars == <<vars, holder, chans>>
chanVars == <<fill, got>>
logVars == <<log, events>>
subVars == <<subs, made, deletes>>
runVars == <<started, stops>>
meshVars == <<runVars, readers, logVars, subVars, tableVars, chanVars, pub, queued, conn, inb,
              torn, must>>

Events == 1 .. MaxEvents
Chans == 1 .. MaxSubs + Cardinality(Conns)
Keys == Patterns \X Ids

\* The table's entries, with the channel each delivers to.
Entries == {<<e[1], e[2], holder[e]>> : e \in
              {e \in Keys : e[1] \in DOMAIN subscriptions /\ e[2] \in subscriptions[e[1]]}}
Found(topic) ==
  LET r == GetSubscribers(topic)
  IN  {e \in Entries : <<e[1], e[2]>> \in r.exact \cup r.wild}

IdlePub == [pc |-> "idle", id |-> 0, topic |-> <<>>, to |-> {}, full |-> {}, res |-> "none"]
IdleConn == [st |-> "idle", client |-> 0, todo |-> {}, topics |-> {}, chan |-> 0]
NoInbound == [pc |-> "idle", id |-> 0, topic |-> <<>>, life |-> 0]

NodeInit ==
  /\ Init
  /\ started = TRUE /\ stops = 0 /\ readers = 0
  /\ log = [e \in Events |-> 0] /\ events = 0
  /\ subs = {} /\ made = 0 /\ deletes = {}
  /\ holder = [e \in Keys |-> 0] /\ chans = 0
  /\ fill = [o \in Chans |-> 0] /\ got = [o \in Chans |-> {}]
  /\ pub = [p \in Publishers |-> IdlePub]
  /\ queued = [q \in Peers |-> {}]
  /\ conn = [i \in Conns |-> IdleConn]
  /\ inb = NoInbound
  /\ must = [p \in Publishers |-> {}]
  /\ torn = {}

Running == started /\ ~closed
LockFree == readers = 0

-----------------------------------------------------------------------------
(* Delivery: DeliverEvent for every entry of to, none of which waits *)

Times(to, o) == Cardinality({e \in to : e[3] = o})
Room(o) == ChanCap - fill[o]

\* Mutant: a full channel is written to.
PutAnyway(to, id) ==
  /\ fill' = [o \in Chans |-> fill[o] + Times(to, o)]
  /\ got' = [o \in Chans |-> IF Times(to, o) > 0 THEN got[o] \cup {id} ELSE got[o]]

Put(to, id) ==
  /\ fill' = [o \in Chans |-> fill[o] + Min({Times(to, o), Room(o)})]
  /\ got' = [o \in Chans |-> IF Times(to, o) > 0 /\ Room(o) > 0 THEN got[o] \cup {id} ELSE got[o]]

Overfull(to) == {o \in Chans : Times(to, o) > Room(o)}

-----------------------------------------------------------------------------
(* PublishEvent: n.mu is read-locked from the validation to the return *)

PublishBegin(p, topic) ==
  /\ pub[p].pc = "idle" /\ events < MaxEvents
  /\ Running
  /\ events' = events + 1
  /\ pub' = [pub EXCEPT ![p] =
                [IdlePub EXCEPT !.pc = "append", !.id = events + 1, !.topic = topic]]
  /\ readers' = readers + 1
  /\ UNCHANGED <<log, subVars, tableVars, chanVars, queued, conn, inb, torn>>

\* AppendEvent.  Both logs look at the context first, then at closed.
PublishAppend(p) ==
  /\ pub[p].pc = "append" /\ ~closed
  /\ log' = [log EXCEPT ![pub[p].id] = @ + 1]
  /\ pub' = [pub EXCEPT ![p].pc = "lookup"]
  /\ UNCHANGED <<events, subVars, tableVars, chanVars, queued, conn, inb, torn>>

\* GetSubscribers returns a copy; a closed table has no entries.
PublishLookup(p) ==
  /\ pub[p].pc = "lookup"
  /\ pub' = [pub EXCEPT ![p].pc = "deliver", ![p].to = Found(pub[p].topic)]
  /\ UNCHANGED <<logVars, subVars, tableVars, chanVars, queued, conn, inb, torn>>

\* Mutant: the first full channel ends the loop.
DeliverUntilFull(p, e) ==
  /\ pub[p].pc = "deliver"
  /\ Put({e}, pub[p].id)
  /\ pub' = [pub EXCEPT ![p].to = IF Overfull({e}) = {} THEN @ \ {e} ELSE {},
                        ![p].full = @ \cup Overfull({e})]
  /\ UNCHANGED <<logVars, subVars, tableVars, queued, conn, inb, torn>>

\* deliverToLocalSubscribers, one of them; streams and
\* other publishes may come in between.  A failure is counted and the loop goes on.
DeliverTo(p, e) ==
  /\ pub[p].pc = "deliver"
  /\ Put({e}, pub[p].id)
  /\ pub' = [pub EXCEPT ![p].to = @ \ {e}, ![p].full = @ \cup Overfull({e})]
  /\ UNCHANGED <<logVars, subVars, tableVars, queued, conn, inb, torn>>

DeliverToLocalSubscribers(p) == \E e \in pub[p].to : DeliverTo(p, e)

PublishReturn(p, res) ==
  /\ pub' = [pub EXCEPT ![p] = [IdlePub EXCEPT !.res = res]]
  /\ readers' = readers - 1

\* The peers forwardToPeers reaches: a closed PeerLink lists none.
Reached == IF closed THEN {} ELSE Peers
Queue(Q, id) == queued' = [q \in Peers |-> IF q \in Q THEN queued[q] \cup {id} ELSE queued[q]]

\* Mutant: only local failures count.
ForwardToPeersQuietly(p) ==
  /\ pub[p].pc = "deliver" /\ pub[p].to = {}
  /\ \E Q \in SUBSET Reached :
       /\ Queue(Q, pub[p].id)
       /\ PublishReturn(p, IF pub[p].full = {} THEN "ok" ELSE "failed")
  /\ UNCHANGED <<logVars, subVars, tableVars, chanVars, conn, inb, torn>>

\* Then forwardToPeers, whatever became of the local deliveries; a queue that stays
\* full for SendTimeout fails.  Any failure, local or not, makes the call fail.
ForwardToPeers(p) ==
  /\ pub[p].pc = "deliver" /\ pub[p].to = {}
  /\ \E Q \in SUBSET Reached :
       /\ Queue(Q, pub[p].id)
       /\ PublishReturn(p, IF pub[p].full = {} /\ Q = Reached THEN "ok" ELSE "failed")
  /\ UNCHANGED <<logVars, subVars, tableVars, chanVars, conn, inb, torn>>

\* The call ends with an error: AppendEvent's, when nothing is persisted, or the
\* request's context is done and the next check of it, in or between the loops,
\* says so.
PublishGivesUp(p) ==
  /\ \/ pub[p].pc = "append" /\ UNCHANGED queued
     \/ /\ pub[p].pc = "deliver"
        /\ \E Q \in SUBSET Reached : (pub[p].to # {} => Q = {}) /\ Queue(Q, pub[p].id)
  /\ PublishReturn(p, "error")
  /\ UNCHANGED <<logVars, subVars, tableVars, chanVars, conn, inb, torn>>

-----------------------------------------------------------------------------
(* Subscriptions: n.mu held alone *)

NewChan == chans + 1
Hold(k, id, o) == holder' = [holder EXCEPT ![<<k, id>>] = o]

\* CreateSubscription, Subscribe: the entry, made anew, and the metadata.
CreateSubscription(id, k) ==
  /\ LockFree /\ Running /\ made < MaxSubs
  /\ Subscribe(k, id)
  /\ Hold(k, id, NewChan) /\ chans' = NewChan
  /\ subs' = subs \cup {[n |-> made + 1, client |-> id, topic |-> k]}
  /\ made' = made + 1
  /\ torn' = torn \ {<<k, id>>}
  /\ UNCHANGED <<logVars, deletes, chanVars, pub, queued, conn, inb, readers>>

\* UnsubscribeByID finds the topic under the metadata's lock only ...
DeleteFind(s) ==
  /\ s \in subs
  /\ s \notin deletes
  /\ deletes' = deletes \cup {s}
  /\ UNCHANGED <<logVars, subs, made, tableVars, chanVars, pub, queued, conn, inb, torn, readers>>

\* Mutant: of the metadata only the named subscription goes.
DeleteApplyNamed(s) ==
  /\ s \in deletes /\ LockFree
  /\ deletes' = deletes \ {s}
  /\ IF Running
     THEN /\ Unsubscribe(s.topic, s.client)
          /\ Hold(s.topic, s.client, 0)
          /\ subs' = subs \ {s}
     ELSE UNCHANGED <<vars, holder, subs>>
  /\ UNCHANGED <<logVars, made, chans, chanVars, pub, queued, conn, inb, torn, readers>>

\* Mutant: only the metadata goes.
DeleteApplyNoRoute(s) ==
  /\ s \in deletes /\ LockFree
  /\ deletes' = deletes \ {s}
  /\ subs' = IF Running THEN {x \in subs : x.client # s.client \/ x.topic # s.topic} ELSE subs
  /\ UNCHANGED <<logVars, made, tableVars, chanVars, pub, queued, conn, inb, torn, readers>>

\* ... and Unsubscribe takes the client's entry for the topic and the metadata
\* of all its subscriptions to it, if the node still runs.
DeleteApply(s) ==
  /\ s \in deletes /\ LockFree
  /\ deletes' = deletes \ {s}
  /\ IF Running
     THEN /\ Unsubscribe(s.topic, s.client)
          /\ Hold(s.topic, s.client, 0)
          /\ subs' = {x \in subs : x.client # s.client \/ x.topic # s.topic}
     ELSE UNCHANGED <<vars, holder, subs>>
  /\ UNCHANGED <<logVars, made, chans, chanVars, pub, queued, conn, inb, torn, readers>>

-----------------------------------------------------------------------------
(* SSE streams: the routing table, without n.mu *)

\* StreamEvents: the topics the client has now, one channel for all of them.
OpenStream(i, id) ==
  /\ conn[i].st = "idle"
  /\ conn' = [conn EXCEPT ![i] = [st |-> "on", client |-> id, topics |-> {}, chan |-> NewChan,
                                  todo |-> {s.topic : s \in {s \in subs : s.client = id}}]]
  /\ chans' = NewChan
  /\ UNCHANGED <<logVars, subVars, vars, holder, chanVars, pub, queued, inb, torn, readers>>

\* registerSSEClient, one topic.
RegisterTopic(i, k) ==
  /\ conn[i].st = "on" /\ k \in conn[i].todo
  /\ Subscribe(k, conn[i].client)
  /\ Hold(k, conn[i].client, conn[i].chan)
  /\ conn' = [conn EXCEPT ![i].todo = @ \ {k}, ![i].topics = @ \cup {k}]
  /\ torn' = torn \ {<<k, conn[i].client>>}
  /\ UNCHANGED <<logVars, subVars, chans, chanVars, pub, queued, inb, readers>>

\* The table is closed: the handler returns before it has deferred anything.
RegisterFails(i) ==
  /\ conn[i].st = "on" /\ conn[i].todo # {} /\ closed
  /\ conn' = [conn EXCEPT ![i] = [IdleConn EXCEPT !.st = "over"]]
  /\ UNCHANGED <<logVars, subVars, tableVars, chanVars, pub, queued, inb, torn, readers>>

\* streamWithKeepalive takes an event from the channel.
StreamTake(i) ==
  /\ conn[i].st = "on" /\ conn[i].todo = {} /\ fill[conn[i].chan] > 0
  /\ fill' = [fill EXCEPT ![conn[i].chan] = @ - 1]
  /\ UNCHANGED <<logVars, subVars, tableVars, got, pub, queued, conn, inb, torn, readers>>

\* The client goes away, or cannot be written to.
StreamEnd(i) ==
  /\ conn[i].st = "on" /\ conn[i].todo = {}
  /\ conn' = [conn EXCEPT ![i].st = "ending"]
  /\ UNCHANGED <<logVars, subVars, tableVars, chanVars, pub, queued, inb, torn, readers>>

\* unregisterSSEClient, one topic; a closed table is passed over.
UnregisterTopic(i, k) ==
  /\ conn[i].st = "ending" /\ k \in conn[i].topics
  /\ IF closed THEN UNCHANGED <<vars, holder, torn>>
     ELSE /\ Unsubscribe(k, conn[i].client)
          /\ Hold(k, conn[i].client, 0)
          /\ torn' = torn \cup {<<k, conn[i].client>>}
  /\ conn' = [conn EXCEPT ![i].topics = @ \ {k}]
  /\ UNCHANGED <<logVars, subVars, chans, chanVars, pub, queued, inb, readers>>

StreamOver(i) ==
  /\ conn[i].st = "ending" /\ conn[i].topics = {}
  /\ conn' = [conn EXCEPT ![i] = [IdleConn EXCEPT !.st = "over"]]
  /\ UNCHANGED <<logVars, subVars, tableVars, chanVars, pub, queued, inb, torn, readers>>

-----------------------------------------------------------------------------
(* Events from peers: processIncomingUserEvent *)

\* The event is ignored unless the node runs ...
InboundTake(topic) ==
  /\ inb.pc = "idle" /\ events < MaxEvents /\ Running
  /\ events' = events + 1
  /\ inb' = [pc |-> "append", id |-> events + 1, topic |-> topic, life |-> stops]
  /\ UNCHANGED <<log, subVars, tableVars, chanVars, pub, queued, conn, torn, readers>>

\* Mutant: an event that could not be persisted is delivered all the same.
InboundAppendOrNot ==
  /\ inb.pc = "append"
  /\ log' = IF closed \/ inb.life # stops THEN log ELSE [log EXCEPT ![inb.id] = @ + 1]
  /\ inb' = [inb EXCEPT !.pc = "deliver"]
  /\ UNCHANGED <<events, subVars, tableVars, chanVars, pub, queued, conn, torn, readers>>

\* ... persisted without n.mu, or dropped: by now the log may be closed, a Stop may
\* have cancelled the context it was received with, or the append fails ...
InboundAppend ==
  /\ inb.pc = "append"
  /\ \/ inb' = NoInbound /\ UNCHANGED log
     \/ /\ ~closed /\ inb.life = stops
        /\ log' = [log EXCEPT ![inb.id] = @ + 1]
        /\ inb' = [inb EXCEPT !.pc = "deliver"]
  /\ UNCHANGED <<events, subVars, tableVars, chanVars, pub, queued, conn, torn, readers>>

\* ... and delivered with n.mu read-locked, started or not; never forwarded.
InboundDeliver ==
  /\ inb.pc = "deliver"
  /\ Put(Found(inb.topic), inb.id)
  /\ inb' = NoInbound
  /\ UNCHANGED <<logVars, subVars, tableVars, pub, queued, conn, torn, readers>>

-----------------------------------------------------------------------------
(* Stop, Start and Close, under n.mu *)

Idle == <<logVars, subVars, chans, chanVars, pub, queued, conn, inb, torn, readers>>

NodeStop ==
  /\ LockFree /\ started /\ stops < MaxStops
  /\ started' = FALSE /\ stops' = stops + 1
  /\ UNCHANGED <<Idle, vars, holder>>

NodeStart ==
  /\ LockFree /\ ~started /\ ~closed
  /\ started' = TRUE
  /\ UNCHANGED <<Idle, vars, holder, stops>>

\* The log, the routing table and PeerLink.
NodeClose ==
  /\ LockFree /\ ~closed
  /\ Close
  /\ holder' = [e \in Keys |-> 0]
  /\ started' = FALSE
  /\ UNCHANGED <<Idle, stops>>

-----------------------------------------------------------------------------
PublishStep(p) ==
  \/ (PublishAppend(p) \/ PublishLookup(p) \/ DeliverToLocalSubscribers(p)) /\ UNCHANGED readers
  \/ ForwardToPeers(p) \/ PublishGivesUp(p)

StreamStep(i) ==
  \/ \E id \in Ids : OpenStream(i, id)
  \/ \E k \in Patterns : RegisterTopic(i, k) \/ UnregisterTopic(i, k)
  \/ RegisterFails(i) \/ StreamTake(i) \/ StreamEnd(i) \/ StreamOver(i)

Request ==
  \/ \E p \in Publishers : PublishStep(p) \/ \E topic \in EventTopics : PublishBegin(p, topic)
  \/ \E id \in Ids, k \in Patterns : CreateSubscription(id, k)
  \/ \E s \in subs \cup deletes : DeleteFind(s) \/ DeleteApply(s)
  \/ \E i \in Conns : StreamStep(i)
  \/ \E topic \in EventTopics : InboundTake(topic)
  \/ InboundAppend \/ InboundDeliver

\* The ghost must: all that is found when the event has just been appended, less
\* what was removed or replaced since.
Watch ==
  must' = [p \in Publishers |->
             IF pub'[p].pc \in {"idle", "append"} THEN {}
             ELSE IF pub[p].pc = "append" THEN Found(pub[p].topic)'
             ELSE must[p] \cap Entries']

NodeNext ==
  /\ (Request /\ UNCHANGED runVars) \/ NodeStop \/ NodeStart \/ NodeClose
  /\ Watch

NodeSpec == NodeInit /\ [][NodeNext]_meshVars

-----------------------------------------------------------------------------
(* Properties *)

\* The shape of the state: channels within their capacity, and as many readers
\* of n.mu as publishes under way.
NodeTypeOK ==
  /\ log \in [Events -> Nat] /\ events \in 0 .. MaxEvents
  /\ subs \cup deletes \subseteq [n : 1 .. MaxSubs, client : Ids, topic : Patterns]
  /\ holder \in [Keys -> 0 .. Cardinality(Chans)]
  /\ fill \in [Chans -> 0 .. ChanCap] /\ got \in [Chans -> SUBSET Events]
  /\ readers = Cardinality({p \in Publishers : pub[p].pc # "idle"})

\* REQ-MNODE-002: an event that is in a subscriber's channel or in a peer's
\* queue is in the log, published here or received, whatever was stopped,
\* cancelled or closed on the way.
PersistedFirst ==
  \A e \in Events :
    (\E o \in Chans : e \in got[o]) \/ (\E q \in Peers : e \in queued[q]) => log[e] > 0

Returns(p, res) == pub[p].pc # "idle" /\ pub'[p].pc = "idle" /\ pub'[p].res = res

\* A publish that returns without an error has reached every subscriber that
\* was in the table when the event was appended and still is, and every
\* interested peer: streams come and go without n.mu meanwhile, and Close waits.
OkMeansDelivered ==
  [][\A p \in Publishers : Returns(p, "ok") =>
       /\ \A e \in must[p] : pub[p].id \in got'[e[3]]
       /\ \A q \in Peers : pub[p].id \in queued'[q]]_meshVars

\* One subscriber with a full channel, for instance one that CreateSubscription
\* made and nobody reads, makes the publish fail for its caller, but takes the
\* event from nobody else; and what failed is in the log, so that a retry is a
\* second event.
FailureIsolated ==
  [][\A p \in Publishers : Returns(p, "failed") =>
       /\ \A e \in must[p] : e[3] \in pub[p].full \/ pub[p].id \in got'[e[3]]
       /\ log'[pub[p].id] = 1]_meshVars

\* The entries of client id for pattern k are accounted for: metadata a DELETE
\* can name, or a stream that has it and will take it back.  A stream that read
\* the subscriptions before a DELETE makes the entry again after it.
NoOrphanRoute ==
  \A e \in Entries :
    \/ \E s \in subs : s.client = e[2] /\ s.topic = e[1]
    \/ \E i \in Conns : conn[i].client = e[2] /\ e[1] \in conn[i].topics

\* A subscription that is listed is delivered to, unless a stream of its client
\* has come and gone: a DELETE that found its topic earlier, or names another
\* subscription to it, never leaves one behind that nothing serves.
NoDeadSubscription ==
  ~closed => \A s \in subs :
    \/ <<s.topic, s.client>> \in torn
    \/ \E e \in Entries : e[1] = s.topic /\ e[2] = s.client
=============================================================================
