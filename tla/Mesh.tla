-------------------------------- MODULE Mesh --------------------------------
(***************************************************************************)
(* Several nodes: who dials whom, under which name each lists the other,   *)
(* and where the events published on one node go.                          *)
(*                                                                         *)
(* A node keeps a connection entry and a pair of queues for each peer      *)
(* name.  --seed-nodes (StaticDiscovery) names a peer by its address,      *)
(* --connect-peer id=address by its node ID, and a stream that comes in by *)
(* the node ID in its handshake.  The interest of a peer is known under    *)
(* the node ID in its messages, whatever the stream they came on.          *)
(*                                                                         *)
(* What a stream does with its queue and how it fails is in PeerLink, what *)
(* a publish does on its node in MeshNode; of these there is here what     *)
(* names depend on.  How a view follows the interest, and fails to, is in  *)
(* InterestGossip: here a view is whatever messages, lost, late or out of  *)
(* order, may have left of the topics the peer's clients ever wanted.      *)
(***************************************************************************)
EXTENDS Integers, Sequences, FiniteSets

CONSTANTS
  Nodes, Topics,
  PossibleDials, \* what the nodes' command lines may contain
  QueueCap,      \* capacity of a peer's send queue
  WireCap,       \* what gRPC takes from a sender ahead of the receiver
  InCap,         \* capacity of the channel of received events (10)
  MaxEvents,     \* bound: events published
  MaxBreaks      \* bound: streams that break

Dials == [from : Nodes, to : Nodes, by : {"seed", "peer"}]

ASSUME MeshAssumption ==
  /\ PossibleDials \subseteq Dials
  /\ QueueCap \in Nat \ {0} /\ WireCap \in Nat \ {0} /\ InCap \in Nat \ {0}
  /\ MaxEvents \in Nat /\ MaxBreaks \in Nat

Id(n) == <<"id", n>>
Addr(n) == <<"addr", n>>
Names == {"id", "addr"} \X Nodes
None == <<>>

VARIABLES
  dial,     \* dial[d], for the configured ones: "todo", "skipped", "running", or
            \* "met" once a handshake went through
  up,       \* dials whose stream is open
  entry,    \* entry[n][name]: g.connections of n: None, or the dial made or met
  wanted,   \* wanted[n]: topics the clients of n have subscribed to so far
  view,     \* view[n][m]: n.peerSubscriptions[m] of n
  queue,    \* queue[n][name]: g.sendQueues of n
  wire,     \* wire[d][n]: events on the stream of d, on their way to n
  inbox,    \* inbox[n]: events received and not processed yet
  hold,     \* hold[n]: the event n has appended and not forwarded, or 0
  log,      \* log[n][e]: how many times event e is in the log of n
  sent,     \* sent[e]: topic and origin of event e; its length counts them
  lost,     \* ghost: <<n, e>> when a queue, channel or stream lost e for n
  due,      \* ghost: <<n, e>> when e was queued for n
  breaks

linkVars == <<dial, up, entry, breaks>>
interestVars == <<wanted, view>>
eventVars == <<queue, wire, inbox, hold, log, sent, lost, due>>
vars == <<linkVars, interestVars, eventVars>>

Events == 1 .. MaxEvents

Init ==
  /\ \E D \in SUBSET PossibleDials : dial = [d \in D |-> "todo"]
  /\ up = {} /\ breaks = 0
  /\ entry = [n \in Nodes |-> [x \in Names |-> None]]
  /\ wanted = [n \in Nodes |-> {}]
  /\ view = [n \in Nodes |-> [m \in Nodes |-> {}]]
  /\ queue = [n \in Nodes |-> [x \in Names |-> <<>>]]
  /\ wire = [d \in PossibleDials |-> [n \in Nodes |-> <<>>]]
  /\ inbox = [n \in Nodes |-> <<>>]
  /\ hold = [n \in Nodes |-> 0]
  /\ log = [n \in Nodes |-> [e \in Events |-> 0]]
  /\ sent = <<>> /\ lost = {} /\ due = {}

-----------------------------------------------------------------------------
(* Connections *)

NameOf(d) == IF d.by = "seed" THEN Addr(d.to) ELSE Id(d.to)

\* Connect, from runDiscovery for the seeds in Start, from main for the others
\* after it.  A peer that is listed already is not dialled.
Connect(d) ==
  /\ d \in DOMAIN dial /\ dial[d] = "todo"
  /\ d.by = "peer" => \A s \in DOMAIN dial : s.from = d.from /\ s.by = "seed" => dial[s] # "todo"
  /\ IF entry[d.from][NameOf(d)] = None
     THEN /\ dial' = [dial EXCEPT ![d] = "running"]
          /\ entry' = [entry EXCEPT ![d.from][NameOf(d)] = <<"out", d>>]
     ELSE dial' = [dial EXCEPT ![d] = "skipped"] /\ UNCHANGED entry
  /\ UNCHANGED <<up, breaks, interestVars, eventVars>>

\* The handshake: EventStream at the other end lists the dialler under its node
\* ID, in the place of any entry of that name.
Establish(d) ==
  /\ d \in DOMAIN dial /\ dial[d] \in {"running", "met"} /\ d \notin up
  /\ dial' = [dial EXCEPT ![d] = "met"]
  /\ up' = up \cup {d}
  /\ entry' = [entry EXCEPT ![d.to][Id(d.from)] = <<"in", d>>]
  /\ UNCHANGED <<breaks, interestVars, eventVars>>

InTransit(d) ==
  UNION {{<<n, wire[d][n][i]>> : i \in DOMAIN wire[d][n]} : n \in Nodes}

\* The stream ends with what it carries, and with what a sender had in hand;
\* EventStream removes the entry if it is still its own.  The dialler keeps its
\* entry and dials again.
Drop(d, hand) ==
  /\ d \in up /\ breaks < MaxBreaks
  /\ up' = up \ {d}
  /\ breaks' = breaks + 1
  /\ entry' = [entry EXCEPT ![d.to][Id(d.from)] = IF @ = <<"in", d>> THEN None ELSE @]
  /\ wire' = [wire EXCEPT ![d] = [n \in Nodes |-> <<>>]]
  /\ lost' = lost \cup InTransit(d) \cup hand
  /\ UNCHANGED <<dial, interestVars, inbox, hold, log, sent, due>>

\* Mutant: the queue goes with the entry.
BreakClearsQueue(d) ==
  Drop(d, {}) /\ queue' = [queue EXCEPT ![d.to][Id(d.from)] = <<>>]

Break(d) == Drop(d, {}) /\ UNCHANGED queue

\* The streams that serve the queue n has for name x.
Serves(d, n, x) == \/ d.from = n /\ NameOf(d) = x
                   \/ d.to = n /\ Id(d.from) = x

-----------------------------------------------------------------------------
(* Interest *)

\* A client of n subscribes.
Subscribe(n, t) ==
  /\ t \notin wanted[n]
  /\ wanted' = [wanted EXCEPT ![n] = @ \cup {t}]
  /\ UNCHANGED <<linkVars, view, eventVars>>

\* Updates and snapshots carry the sender's ID, whatever name they are sent to,
\* and may still be handled when the stream they came on has ended.  What they
\* leave of the interest is any part of it: Unsubscribe takes topics away, and
\* InterestGossip shows messages lost, late and overtaken.
Gossip(d, n, m) ==
  /\ d \in DOMAIN dial /\ dial[d] = "met"
  /\ <<n, m>> \in {<<d.from, d.to>>, <<d.to, d.from>>}
  /\ \E T \in SUBSET wanted[n] : view' = [view EXCEPT ![m][n] = T]
  /\ UNCHANGED <<linkVars, wanted, eventVars>>

-----------------------------------------------------------------------------
(* Events *)

\* PublishEventWithResult: the event is appended ...
Publish(n, t) ==
  LET e == Len(sent) + 1
  IN  /\ hold[n] = 0 /\ Len(sent) < MaxEvents
      /\ sent' = Append(sent, [topic |-> t, origin |-> n])
      /\ log' = [log EXCEPT ![n][e] = @ + 1]
      /\ hold' = [hold EXCEPT ![n] = e]
      /\ UNCHANGED <<linkVars, interestVars, queue, wire, inbox, lost, due>>

\* Mutant: a name is resolved to the node behind it.
InterestOfNode(n, x) == view[n][x[2]]

\* n.peerSubscriptions under a name: there is nothing under an address.
InterestOf(n, x) == IF x = Id(x[2]) THEN view[n][x[2]] ELSE {}

GetInterestedPeers(n, t) == {x \in Names : entry[n][x] # None /\ t \in InterestOf(n, x)}

\* Mutant: a full queue is sent to.
ForwardToPeersAnyway(n) ==
  LET e == hold[n]
      to == GetInterestedPeers(n, sent[e].topic)
  IN  /\ e # 0
      /\ hold' = [hold EXCEPT ![n] = 0]
      /\ queue' = [queue EXCEPT ![n] =
                     [x \in Names |-> IF x \in to THEN Append(@[x], e) ELSE @[x]]]
      /\ due' = due \cup {<<x[2], e>> : x \in to}
      /\ UNCHANGED <<linkVars, interestVars, wire, inbox, log, sent, lost>>

\* ... and forwardToPeers queues it for the interested ones; SendEvent gives up
\* on a queue that stays full.
ForwardToPeers(n) ==
  LET e == hold[n]
      to == GetInterestedPeers(n, sent[e].topic)
      full == {x \in to : Len(queue[n][x]) >= QueueCap}
  IN  /\ e # 0
      /\ hold' = [hold EXCEPT ![n] = 0]
      /\ queue' = [queue EXCEPT ![n] =
                     [x \in Names |-> IF x \in to \ full THEN Append(@[x], e) ELSE @[x]]]
      /\ lost' = lost \cup {<<x[2], e>> : x \in full}
      /\ due' = due \cup {<<x[2], e>> : x \in to \ full}
      /\ UNCHANGED <<linkVars, interestVars, wire, inbox, log, sent>>

\* A stream takes an event from the queue and hands it to gRPC ...
Transmit(d, n, x) ==
  LET m == x[2]
  IN  /\ d \in up /\ Serves(d, n, x) /\ queue[n][x] # <<>>
      /\ Len(wire[d][m]) < WireCap
      /\ queue' = [queue EXCEPT ![n][x] = Tail(@)]
      /\ wire' = [wire EXCEPT ![d][m] = Append(@, Head(queue[n][x]))]
      /\ UNCHANGED <<linkVars, interestVars, inbox, hold, log, sent, lost, due>>

\* ... and the other end passes it on, unless its channel is full.
Arrive(d, m) ==
  LET e == Head(wire[d][m])
      room == Len(inbox[m]) < InCap
  IN  /\ wire[d][m] # <<>>
      /\ wire' = [wire EXCEPT ![d][m] = Tail(@)]
      /\ inbox' = IF room THEN [inbox EXCEPT ![m] = Append(@, e)] ELSE inbox
      /\ lost' = IF room THEN lost ELSE lost \cup {<<m, e>>}
      /\ UNCHANGED <<linkVars, interestVars, queue, hold, log, sent, due>>

\* The stream ends with an event in a sender's hand: the dialler puts it back at
\* the end of the queue, until its attempts are used up; the other side has lost
\* it.
SendFails(d, n, x) ==
  LET q == queue[n][x]
  IN  /\ Serves(d, n, x) /\ q # <<>>
      /\ \/ /\ Drop(d, {<<x[2], Head(q)>>})
            /\ queue' = [queue EXCEPT ![n][x] = Tail(q)]
         \/ /\ d.from = n /\ Drop(d, {})
            /\ queue' = [queue EXCEPT ![n][x] = Append(Tail(q), Head(q))]

\* processIncomingUserEvent: append, deliver to clients; never forwarded.
Receive(n) ==
  /\ inbox[n] # <<>>
  /\ inbox' = [inbox EXCEPT ![n] = Tail(@)]
  /\ log' = [log EXCEPT ![n][Head(inbox[n])] = @ + 1]
  /\ UNCHANGED <<linkVars, interestVars, queue, wire, hold, sent, lost, due>>

-----------------------------------------------------------------------------
\* What goroutines do by themselves, and what is done to them; what becomes of
\* interest messages is InterestGossip's.
Progress ==
  \/ \E d \in PossibleDials :
       \/ Connect(d) \/ Establish(d)
       \/ \E n \in Nodes : Arrive(d, n) \/ \E x \in Names : Transmit(d, n, x)
  \/ \E n \in Nodes : ForwardToPeers(n) \/ Receive(n)

Outside ==
  \/ \E d \in PossibleDials : \E n, m \in Nodes : Gossip(d, n, m)
  \/ \E d \in up : Break(d) \/ \E n \in Nodes, x \in Names : SendFails(d, n, x)
  \/ \E n \in Nodes, t \in Topics : Subscribe(n, t) \/ Publish(n, t)

Next == Progress \/ Outside

Spec == Init /\ [][Next]_vars

\* Goroutines run, and a dialler dials until it is through.
FairSpec == Spec /\ WF_vars(Progress)

-----------------------------------------------------------------------------
(* Properties *)

\* The shape of the state.
TypeOK ==
  /\ \A d \in DOMAIN dial : d \in PossibleDials /\ dial[d] \in {"todo", "skipped", "running", "met"}
  /\ up \subseteq DOMAIN dial
  /\ \A n \in Nodes :
       /\ \A x \in Names : /\ entry[n][x] \in {None} \cup {"out", "in"} \X PossibleDials
                           /\ queue[n][x] \in Seq(Events) /\ Len(queue[n][x]) <= QueueCap
       /\ \A d \in PossibleDials : wire[d][n] \in Seq(Events) /\ Len(wire[d][n]) <= WireCap
       /\ inbox[n] \in Seq(Events) /\ Len(inbox[n]) <= InCap
       /\ hold[n] \in 0 .. MaxEvents

Count(e, s) == Cardinality({i \in DOMAIN s : s[i] = e})

\* What node m has of event e or has coming, by whatever name it is listed.
Copies(m, e) ==
  log[m][e] + Count(e, inbox[m])
    + Cardinality({s \in Nodes \X {Id(m), Addr(m)} \X (1 .. QueueCap) :
                     s[3] \in DOMAIN queue[s[1]][s[2]] /\ queue[s[1]][s[2]][s[3]] = e})
    + Cardinality({s \in PossibleDials \X (1 .. WireCap) :
                     s[2] \in DOMAIN wire[s[1]][m] /\ wire[s[1]][m][s[2]] = e})

DialsItself(n) == \E d \in DOMAIN dial : d.from = n /\ d.to = n

\* A node gets an event once, however many streams and names lead to it: none
\* comes back to the node it was published on or takes a second way there.  The
\* exception is a node that its own seeds lead to, which peers with itself.
OneCopy ==
  \A m \in Nodes : \A e \in DOMAIN sent :
    Copies(m, e) <= IF m = sent[e].origin /\ DialsItself(m) THEN 2 ELSE 1

\* An event queued for an interested peer arrives, though the stream breaks and
\* the entry it was found by goes, unless something that may lose it has done so:
\* the peer's channel, full, or a broken stream that carried it or whose sender
\* had it in hand.  What waits in the queue is not lost.
QueuedArrives ==
  <>[](\A m \in Nodes, e \in Events :
         <<m, e>> \in due => <<m, e>> \in lost \/ (log[m][e] > 0 /\ Copies(m, e) = log[m][e]))

\* docs/design.md: interested peers receive the event through PeerLink.  So an
\* event is queued for every node that a stream connects and whose interest in
\* the topic is known, or found its queue full.
InterestedPeersReceive ==
  [][\A n, m \in Nodes : \A e \in Events :
       hold[n] = e /\ hold'[n] = 0 /\ n # m /\ sent[e].topic \in view[n][m]
         /\ (\E d \in up : {d.from, d.to} = {n, m})
       => Copies(m, e)' > 0 \/ <<m, e>> \in lost']_vars
=============================================================================
