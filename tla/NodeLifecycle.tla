---------------------------- MODULE NodeLifecycle ----------------------------
(***************************************************************************)
(* The life of one mesh node and of the program around it: main in         *)
(* cmd/eventmesh, Start, Stop and Close of GRPCMeshNode, the gRPC server   *)
(* and the heartbeat loop of its PeerLink, and the HTTP server.            *)
(*                                                                         *)
(* main starts the node, waits for a signal, shuts the HTTP server and the *)
(* node down within one 30 second context and closes the node.  A program  *)
(* that embeds the node may also stop it and start it again, or close it   *)
(* without stopping it; at any moment one goroutine does these things.     *)
(* Every Start has a lifecycle context of its own, here called a life.     *)
(*                                                                         *)
(* n.mu is an RWMutex: Start, Stop and Close hold it alone, a publish      *)
(* shares it from its validation to its return.  A publish is here only    *)
(* the components it uses in turn, the log and PeerLink; what it delivers  *)
(* is in MeshNode.  Events from peers come to the channel every life       *)
(* registers with PeerLink, and the consumer of that life appends them.    *)
(***************************************************************************)
EXTENDS Integers, FiniteSets, Sequences

CONSTANTS
  Publishers,    \* goroutines that publish
  InCap,         \* capacity of a life's channel of peer events (10)
  MaxEvents,     \* bound: events from peers
  MaxLives       \* bound: calls of Start that do something

ASSUME LifecycleAssumption ==
  InCap \in Nat \ {0} /\ MaxEvents \in Nat /\ MaxLives \in Nat \ {0}

VARIABLES
  pc,            \* where the goroutine that controls the node is
  started,       \* n.started
  nodeClosed,    \* n.closed
  logClosed,     \* eventLog.closed
  peerClosed,    \* g.closed
  life,          \* the number of the current or last life; 0 before any
  cancelled,     \* lives whose context is cancelled
  beat,          \* g.heartbeatToken, by its life; 0 stands for nil
  beating,       \* heartbeat loops that have not returned
  hushed,        \* heartbeat loops whose context is cancelled
  server,        \* the gRPC server: "down", "up", "draining"
  peerStreams,   \* a peer's stream to the server is open
  http,          \* the HTTP server: "off", "up", "draining"
  expired,       \* the shutdown context is done
  pub,           \* pub[p]: "idle", "asked" before n.mu, or what p uses next under it
  sse,           \* the handler of an SSE stream is running
  events,        \* events from peers so far; the n-th is n
  cons,          \* cons[l]: the consumer of life l and its channel
  kept           \* ghost: kept[e]: how many times event e was appended

openVars == <<started, nodeClosed, logClosed, peerClosed>>
ctxVars == <<life, cancelled, expired>>
beatVars == <<beat, beating, hushed>>
netVars == <<server, peerStreams, http>>
consVars == <<events, cons, kept>>
workVars == <<pub, sse, consVars>>
vars == <<pc, openVars, ctxVars, beatVars, netVars, workVars>>

Lives == 1 .. MaxLives
Events == 1 .. MaxEvents

\* Before its goroutine runs; its channel is not registered.
NewConsumer == [st |-> "new", reg |-> FALSE, inbox |-> <<>>, hand |-> 0, checked |-> FALSE]

Init ==
  /\ pc = "new"
  /\ started = FALSE /\ nodeClosed = FALSE /\ logClosed = FALSE /\ peerClosed = FALSE
  /\ life = 0 /\ cancelled = {}
  /\ beat = 0 /\ beating = {} /\ hushed = {}
  /\ server = "down" /\ peerStreams = FALSE
  /\ http = "off" /\ expired = FALSE
  /\ pub = [p \in Publishers |-> "idle"] /\ sse = FALSE
  /\ events = 0 /\ kept = [e \in Events |-> 0]
  /\ cons = [l \in Lives |-> NewConsumer]

Running == started /\ ~nodeClosed

\* A publish shares n.mu from its validation to its return.
Holding(p) == pub[p] \in {"append", "forward"}
LockFree == \A p \in Publishers : ~Holding(p)

-----------------------------------------------------------------------------
(* Starting *)

\* StartHeartbeats
StartHeartbeats ==
  IF beat # 0 THEN UNCHANGED <<beat, beating>>
  ELSE beat' = life + 1 /\ beating' = beating \cup {life + 1}

\* The peer server, the heartbeats, then the consumers of a new life.
NodeStart ==
  /\ pc \in {"new", "stopped"} /\ http # "draining"
  /\ LockFree /\ ~nodeClosed /\ ~started /\ ~peerClosed
  /\ life < MaxLives
  /\ server' = "up"
  /\ StartHeartbeats
  /\ life' = life + 1
  /\ started' = TRUE
  /\ pc' = "serving"
  /\ expired' = FALSE
  /\ UNCHANGED <<nodeClosed, logClosed, peerClosed, cancelled, hushed, peerStreams, http,
                 workVars>>

\* The address is taken: main logs it and exits without closing anything.
NodeStartFails ==
  /\ pc = "new"
  /\ pc' = "failed"
  /\ UNCHANGED <<openVars, ctxVars, beatVars, netVars, workVars>>

\* The goroutine main starts for the HTTP server gets to listen.
HttpStart ==
  /\ pc \notin {"new", "failed", "exited"} /\ http = "off"
  /\ http' = "up"
  /\ UNCHANGED <<pc, openVars, ctxVars, beatVars, server, peerStreams, workVars>>

\* A peer opens its stream while the server accepts, and may close it any time.
PeerStream ==
  /\ peerStreams \/ server = "up"
  /\ peerStreams' = ~peerStreams
  /\ UNCHANGED <<pc, openVars, ctxVars, beatVars, server, http, workVars>>

-----------------------------------------------------------------------------
(* Shutting down *)

\* setupGracefulShutdown's goroutine: no new requests from here on.
Signal ==
  /\ pc = "serving" /\ http # "draining"
  /\ pc' = "stopHttp"
  /\ http' = "draining"
  /\ UNCHANGED <<openVars, ctxVars, beatVars, server, peerStreams, workVars>>

\* The 30 seconds are over.
Expire ==
  /\ pc \notin {"new", "failed", "serving", "stopped", "exited"} /\ ~expired
  /\ expired' = TRUE
  /\ UNCHANGED <<pc, openVars, life, cancelled, beatVars, netVars, workVars>>

\* http.Server.Shutdown returns: the handlers are done, or the time is over.
HttpStopped ==
  /\ pc = "stopHttp"
  /\ expired \/ ((\A p \in Publishers : pub[p] = "idle") /\ ~sse)
  /\ pc' = "stopNode"
  /\ UNCHANGED <<openVars, ctxVars, beatVars, netVars, workVars>>

\* A program that embeds the node stops it without having signalled.
Stop ==
  /\ pc = "serving"
  /\ pc' = "stopNode"
  /\ UNCHANGED <<openVars, ctxVars, beatVars, netVars, workVars>>

\* Stop, under n.mu: the node is not started any more ...
StopMarked ==
  /\ pc = "stopNode" /\ LockFree
  /\ started' = FALSE
  /\ pc' = IF started THEN "stopLife" ELSE "stopped"
  /\ UNCHANGED <<nodeClosed, logClosed, peerClosed, ctxVars, beatVars, netVars, workVars>>

\* ... then, without the lock, cancel(), on which the heartbeats' context hangs ...
StopLife ==
  /\ pc = "stopLife"
  /\ cancelled' = cancelled \cup {life}
  /\ hushed' = hushed \cup {life}
  /\ pc' = "stopBeats"
  /\ UNCHANGED <<openVars, life, expired, beat, beating, netVars, workVars>>

\* ... StopHeartbeats ...
StopHeartbeats ==
  /\ pc = "stopBeats"
  /\ beat' = 0
  /\ hushed' = hushed \cup ({beat} \ {0})
  /\ pc' = "stopPeers"
  /\ UNCHANGED <<openVars, ctxVars, beating, netVars, workVars>>

\* ... and PeerLink.Stop, which lets GracefulStop wait for the peers' streams ...
StopPeers ==
  /\ pc = "stopPeers"
  /\ server' = IF server = "up" THEN "draining" ELSE server
  /\ pc' = "drainPeers"
  /\ UNCHANGED <<openVars, ctxVars, beatVars, peerStreams, http, workVars>>

\* Mutant: GracefulStop is waited for, however long it takes.
PeersStoppedGracefully ==
  /\ pc = "drainPeers"
  /\ ~peerStreams
  /\ server' = "down"
  /\ pc' = "stopped"
  /\ UNCHANGED <<openVars, ctxVars, beatVars, peerStreams, http, workVars>>

\* ... as long as the context lives; Stop of the gRPC server closes them.
PeersStopped ==
  /\ pc = "drainPeers"
  /\ ~peerStreams \/ expired
  /\ server' = "down"
  /\ peerStreams' = FALSE
  /\ pc' = "stopped"
  /\ UNCHANGED <<openVars, ctxVars, beatVars, http, workVars>>

\* Mutant: Close does not take n.mu.
CloseNodeUnlocked ==
  /\ pc \in {"new", "serving", "stopped", "closeFailed"}
  /\ logClosed' = TRUE
  /\ peerClosed' = TRUE
  /\ beat' = 0
  /\ hushed' = hushed \cup ({beat} \ {0})
  /\ server' = "down" /\ peerStreams' = FALSE
  /\ started' = FALSE /\ nodeClosed' = TRUE
  /\ pc' = "exited"
  /\ UNCHANGED <<ctxVars, beating, http, workVars>>

\* Close of the log, the routing table and PeerLink under n.mu: from main after
\* Stop, for --health before Start, or without Stop.  The life's context is not
\* cancelled.
CloseNode ==
  /\ pc \in {"new", "serving", "stopped", "closeFailed"} /\ LockFree
  /\ logClosed' = TRUE
  /\ peerClosed' = TRUE
  /\ beat' = 0
  /\ hushed' = hushed \cup ({beat} \ {0})
  /\ server' = "down" /\ peerStreams' = FALSE
  /\ started' = FALSE /\ nodeClosed' = TRUE
  /\ pc' = "exited"
  /\ UNCHANGED <<ctxVars, beating, http, workVars>>

\* Pebble cannot close its files: Close returns before anything else is closed,
\* and can be called again.
CloseFails ==
  /\ pc \in {"serving", "stopped"} /\ LockFree /\ ~logClosed
  /\ logClosed' = TRUE
  /\ pc' = "closeFailed"
  /\ UNCHANGED <<started, nodeClosed, peerClosed, ctxVars, beatVars, netVars, workVars>>

-----------------------------------------------------------------------------
(* The heartbeat loop ends *)

\* Mutant: the loop does not compare its token.
HeartbeatsEndForAll(t) ==
  /\ t \in beating \cap hushed
  /\ beating' = beating \ {t}
  /\ beat' = 0
  /\ UNCHANGED <<pc, openVars, ctxVars, hushed, netVars, workVars>>

\* runHeartbeatLoop returns when its context is done; clearHeartbeatLifecycle.
HeartbeatsEnd(t) ==
  /\ t \in beating \cap hushed
  /\ beating' = beating \ {t}
  /\ beat' = IF beat = t THEN 0 ELSE beat
  /\ UNCHANGED <<pc, openVars, ctxVars, hushed, netVars, workVars>>

-----------------------------------------------------------------------------
(* Requests *)

controlVars == <<pc, openVars, ctxVars, beatVars, netVars>>

\* The handler of a request gets to run, or a program that embeds the node calls
\* PublishEvent: none once the HTTP server drains.
PublishAsk(p) ==
  /\ pub[p] = "idle" /\ http # "draining"
  /\ pub' = [pub EXCEPT ![p] = "asked"]
  /\ UNCHANGED <<controlVars, sse, consVars>>

\* PublishEvent validates under n.mu, which it keeps.  A handler may get here
\* long after the HTTP server, and even the node, was told to stop.
PublishBegin(p) ==
  /\ pub[p] = "asked"
  /\ pub' = [pub EXCEPT ![p] = IF Running THEN "append" ELSE "idle"]
  /\ UNCHANGED <<controlVars, sse, consVars>>

\* The log refuses when it is closed, and may fail when it is not: either ends
\* the call, and so does a context that is done after the local deliveries.
PublishAppend(p) ==
  /\ pub[p] = "append"
  /\ \E next \in {"idle", "forward"} :
       /\ next = "forward" => ~logClosed
       /\ pub' = [pub EXCEPT ![p] = next]
  /\ UNCHANGED <<controlVars, sse, consVars>>

\* SendEvent waits for room at most SendTimeout for each peer.
PublishForward(p) ==
  /\ pub[p] = "forward"
  /\ pub' = [pub EXCEPT ![p] = "idle"]
  /\ UNCHANGED <<controlVars, sse, consVars>>

\* A client opens a stream, and may stay for ever.
Stream ==
  /\ sse \/ (http = "up" /\ pc # "exited")
  /\ sse' = ~sse
  /\ UNCHANGED <<controlVars, pub, consVars>>

-----------------------------------------------------------------------------
(* Events from peers *)

restVars == <<controlVars, pub, sse>>

\* handleIncomingDataPlaneEvents gets to run and registers its channel; a
\* closed PeerLink gives it none.
ConsumerStart(l) ==
  /\ l <= life /\ cons[l].st = "new"
  /\ cons' = [cons EXCEPT ![l].st = "on", ![l].reg = ~peerClosed]
  /\ UNCHANGED <<restVars, events, kept>>

\* The goroutine ReceiveEvents left behind, once the context is done.
ConsumerUnregister(l) ==
  /\ l \in cancelled /\ cons[l].reg
  /\ cons' = [cons EXCEPT ![l].reg = FALSE]
  /\ UNCHANGED <<restVars, events, kept>>

\* Mutant: a full channel is sent to.
PeerEventUnbounded ==
  /\ life > 0 /\ events < MaxEvents /\ ~peerClosed
  /\ events' = events + 1
  /\ cons' = [l \in Lives |->
       IF cons[l].reg THEN [cons[l] EXCEPT !.inbox = Append(@, events + 1)] ELSE cons[l]]
  /\ UNCHANGED <<restVars, kept>>

\* distributeEvent, unless PeerLink is closed: to every registered channel that
\* has room.  Outbound streams bring events while the node is stopped too.
PeerEvent ==
  /\ life > 0 /\ events < MaxEvents /\ ~peerClosed
  /\ events' = events + 1
  /\ cons' = [l \in Lives |->
       IF cons[l].reg /\ Len(cons[l].inbox) < InCap
       THEN [cons[l] EXCEPT !.inbox = Append(@, events + 1)] ELSE cons[l]]
  /\ UNCHANGED <<restVars, kept>>

\* The loop may take an event although its context is done.  It is ignored
\* unless the node runs, in this life or in the next one.
InboundTake(l) ==
  /\ cons[l].st = "on" /\ cons[l].hand = 0 /\ cons[l].inbox # <<>>
  /\ cons' = [cons EXCEPT ![l].inbox = Tail(@),
                          ![l].hand = IF Running THEN Head(cons[l].inbox) ELSE 0]
  /\ UNCHANGED <<restVars, events, kept>>

\* Mutant: only the log's closed counts.
InboundCheckNot(l) ==
  /\ cons[l].hand # 0 /\ ~cons[l].checked
  /\ cons' = [cons EXCEPT ![l].checked = TRUE]
  /\ UNCHANGED <<restVars, events, kept>>

\* AppendEvent refuses when the context is done ...
InboundCheck(l) ==
  /\ cons[l].hand # 0 /\ ~cons[l].checked
  /\ cons' = IF l \in cancelled THEN [cons EXCEPT ![l].hand = 0]
             ELSE [cons EXCEPT ![l].checked = TRUE]
  /\ UNCHANGED <<restVars, events, kept>>

\* ... and, having taken its lock, when it is closed.
InboundAppend(l) ==
  /\ cons[l].checked
  /\ kept' = IF logClosed THEN kept ELSE [kept EXCEPT ![cons[l].hand] = @ + 1]
  /\ cons' = [cons EXCEPT ![l].hand = 0, ![l].checked = FALSE]
  /\ UNCHANGED <<restVars, events>>

ConsumerEnd(l) ==
  /\ cons[l].st = "on" /\ cons[l].hand = 0 /\ l \in cancelled
  /\ cons' = [cons EXCEPT ![l].st = "over"]
  /\ UNCHANGED <<restVars, events, kept>>

-----------------------------------------------------------------------------
\* What main's goroutines do without being told to once the signal is there.
ShutDown ==
  HttpStopped \/ StopMarked \/ StopLife \/ StopHeartbeats \/ StopPeers \/ PeersStopped

Next ==
  \/ NodeStart \/ NodeStartFails \/ HttpStart \/ PeerStream
  \/ Signal \/ Expire \/ Stop \/ ShutDown \/ CloseNode \/ CloseFails
  \/ \E t \in Lives : HeartbeatsEnd(t)
  \/ \E p \in Publishers : \/ PublishAsk(p) \/ PublishBegin(p)
                           \/ PublishAppend(p) \/ PublishForward(p)
  \/ Stream \/ PeerEvent
  \/ \E l \in Lives : \/ ConsumerStart(l) \/ ConsumerUnregister(l) \/ ConsumerEnd(l)
                      \/ InboundTake(l) \/ InboundCheck(l) \/ InboundAppend(l)

Spec == Init /\ [][Next]_vars

\* Goroutines run, time passes, and main closes the node when it is stopped.
\* Neither clients nor peers need ever end their streams.
Fairness ==
  /\ WF_vars(ShutDown) /\ WF_vars(Expire)
  /\ WF_vars(http = "draining" /\ CloseNode)
  /\ \A p \in Publishers : WF_vars(PublishAppend(p)) /\ WF_vars(PublishForward(p))

FairSpec == Spec /\ Fairness

-----------------------------------------------------------------------------
(* Properties *)

\* The shape of the state.
TypeOK ==
  /\ pc \in {"new", "serving", "stopHttp", "stopNode", "stopLife", "stopBeats", "stopPeers",
             "drainPeers", "stopped", "closeFailed", "exited", "failed"}
  /\ {started, nodeClosed, logClosed, peerClosed, peerStreams, expired, sse} \subseteq BOOLEAN
  /\ life \in 0 .. MaxLives /\ beat \in 0 .. MaxLives
  /\ cancelled \subseteq Lives /\ beating \subseteq Lives /\ hushed \subseteq Lives
  /\ server \in {"down", "up", "draining"} /\ http \in {"off", "up", "draining"}
  /\ pub \in [Publishers -> {"idle", "asked", "append", "forward"}]
  /\ events \in 0 .. MaxEvents /\ kept \in [Events -> Nat]
  /\ \A l \in Lives :
       /\ cons[l] \in [st : {"new", "on", "over"}, reg : BOOLEAN, inbox : Seq(Events),
                       hand : 0 .. MaxEvents, checked : BOOLEAN]
       /\ Len(cons[l].inbox) <= InCap

\* A node that serves sends heartbeats, from one loop, and the next Stop or
\* Close can end it: the loop of an earlier life that returns late takes
\* neither the token nor the cancel function of the present one, and no loop
\* is left with a live context once the node is stopped or closed.
HeartbeatsFollowNode ==
  /\ pc = "serving" => beat = life /\ life \in beating \ hushed
  /\ Cardinality(beating \ hushed) <= 1
  /\ pc \in {"stopped", "exited"} => beat = 0 /\ beating \subseteq hushed

\* A node that is stopped and started again at once has the consumers of two
\* lives registered, both are sent the next event, and the old one finds the
\* node running: it is still appended once, because AppendEvent looks at the
\* context of the life it was taken in.
InboundOnce == \A e \in Events : kept[e] <= 1

\* A publish under way never finds the log or PeerLink closed under it, whoever
\* closes the node meanwhile, unless an earlier Close of the log has failed.
NoUseAfterClose ==
  (\E p \in Publishers : Holding(p)) /\ pc # "closeFailed" => ~logClosed /\ ~peerClosed

\* A signalled program ends: clients that keep their streams, peers that keep
\* theirs and publishes under way can hold it up for the 30 seconds, not longer.
ShutdownEnds == pc = "stopHttp" ~> pc \in {"exited", "closeFailed"}
=============================================================================
