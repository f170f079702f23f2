----------------------------- MODULE MeshProofs -----------------------------
(***************************************************************************)
(* Proofs about a mesh, for any nodes, any dials between them and any      *)
(* capacities.                                                             *)
(*                                                                         *)
(* LinkInv is about who lists whom: only a node that dials itself ever     *)
(* lists itself.  EventInv follows an event to one other node: it is in    *)
(* the sender's queue under that node's ID, on a stream, in the node's     *)
(* channel, or received, and in one of these only (Settled).  For that it  *)
(* has to know that an event is queued by its origin alone and under node  *)
(* IDs alone (QueueTidy), because interest is known by node ID, that one   *)
(* stream carries it (WireTidy), and that an event not yet forwarded is    *)
(* nowhere else (HoldTidy).                                                *)
(***************************************************************************)
EXTENDS Mesh, FiniteSetTheorems, TLAPS

Entries == {None} \cup ({"out", "in"} \X PossibleDials)
Queues == [Names -> Seq(Events)]
Boxes == [Nodes -> Seq(Events)]

\* TypeOK, with the domains of the functions and the types of the ghosts.
LinkTyped ==
  /\ \A d \in DOMAIN dial : d \in PossibleDials /\ dial[d] \in {"todo", "skipped", "running", "met"}
  /\ up \subseteq DOMAIN dial
  /\ entry \in [Nodes -> [Names -> Entries]]
  /\ view \in [Nodes -> [Nodes -> SUBSET Topics]] /\ wanted \in [Nodes -> SUBSET Topics]

EventTyped ==
  /\ queue \in [Nodes -> Queues] /\ inbox \in Boxes /\ wire \in [PossibleDials -> Boxes]
  /\ \A d \in PossibleDials, n \in Nodes : Len(wire[d][n]) <= WireCap
  /\ \A n \in Nodes : Len(inbox[n]) <= InCap /\ \A x \in Names : Len(queue[n][x]) <= QueueCap
  /\ hold \in [Nodes -> 0 .. MaxEvents] /\ log \in [Nodes -> [Events -> Nat]]
  /\ sent \in Seq([topic : Topics, origin : Nodes]) /\ Len(sent) <= MaxEvents

\* What is assumed of the bounds.
LEMMA Bounds ==
  /\ QueueCap \in Nat /\ QueueCap > 0 /\ InCap \in Nat /\ InCap > 0
  /\ WireCap \in Nat /\ WireCap > 0 /\ MaxEvents \in Nat
  /\ PossibleDials \subseteq Dials
BY MeshAssumption

\* The nodes and names of a dial.
LEMMA DialIs ==
  ASSUME NEW d \in PossibleDials
  PROVE  /\ d.from \in Nodes /\ d.to \in Nodes /\ NameOf(d) \in Names /\ Id(d.from) \in Names
         /\ NameOf(d) \in {Id(d.to), Addr(d.to)}
<1>1. d.from \in Nodes /\ d.to \in Nodes
  BY Bounds DEF Dials
<1> QED BY <1>1 DEF NameOf, Id, Addr, Names

\* A node ID and an address are different names, each of one node.
LEMMA NameIs ==
  /\ \A n \in Nodes : Id(n) \in Names /\ Addr(n) \in Names /\ Id(n)[2] = n /\ Addr(n)[2] = n
  /\ \A n, m \in Nodes : Id(n) # Addr(m) /\ (Id(n) = Id(m) => n = m) /\ (Addr(n) = Addr(m) => n = m)
  /\ \A x \in Names : x[2] \in Nodes /\ x \in {Id(x[2]), Addr(x[2])}
BY DEF Id, Addr, Names

\* One queue changes.
QueueBecomes(n, x, q) ==
  /\ queue' \in [Nodes -> Queues] /\ queue'[n][x] = q
  /\ \A m \in Nodes, y \in Names : m # n \/ y # x => queue'[m][y] = queue[m][y]

\* Changing the queue of one name leaves the others.
LEMMA QueueSet ==
  ASSUME EventTyped, NEW n \in Nodes, NEW x \in Names, NEW q \in Seq(Events),
         queue' = [queue EXCEPT ![n][x] = q]
  PROVE  QueueBecomes(n, x, q)
BY DEF EventTyped, QueueBecomes, Queues

\* One direction of one stream changes.
WireBecomes(d, m, w) ==
  /\ wire' \in [PossibleDials -> Boxes] /\ wire'[d][m] = w
  /\ \A c \in PossibleDials, a \in Nodes : c # d \/ a # m => wire'[c][a] = wire[c][a]

\* Changing what a stream carries to one end leaves the rest.
LEMMA WireSet ==
  ASSUME EventTyped, NEW d \in PossibleDials, NEW m \in Nodes, NEW w \in Seq(Events),
         wire' = [wire EXCEPT ![d][m] = w]
  PROVE  WireBecomes(d, m, w)
BY DEF EventTyped, WireBecomes, Boxes

\* A stream that ends is empty afterwards.
LEMMA WireEmptied ==
  ASSUME EventTyped, NEW d \in PossibleDials, wire' = [wire EXCEPT ![d] = [n \in Nodes |-> <<>>]]
  PROVE  /\ wire' \in [PossibleDials -> Boxes]
         /\ \A c \in PossibleDials, n \in Nodes : wire'[c][n] = <<>> \/ wire'[c][n] = wire[c][n]
<1>1. PICK f : f = [n \in Nodes |-> <<>>]
  OBVIOUS
<1>2. f \in Boxes /\ \A n \in Nodes : f[n] = <<>>
  BY <1>1 DEF Boxes
<1>3. wire' = [wire EXCEPT ![d] = f]
  BY <1>1
<1> QED BY <1>2, <1>3 DEF EventTyped

\* Forwarding queues the held event at most once under each name, and lets it go.
LEMMA ForwardIs ==
  ASSUME EventTyped, NEW n \in Nodes, ForwardToPeers(n)
  PROVE  /\ hold[n] \in Events /\ hold' = [hold EXCEPT ![n] = 0]
         /\ \A m \in Nodes, x \in Names : m # n => queue'[m][x] = queue[m][x]
         /\ \A x \in Names :
              \/ queue'[n][x] = queue[n][x]
              \/ /\ queue'[n][x] = Append(queue[n][x], hold[n])
                 /\ Len(queue[n][x]) < QueueCap
                 /\ x \in GetInterestedPeers(n, sent[hold[n]].topic)
         /\ UNCHANGED <<wire, inbox, log, sent>>
         /\ queue' \in [Nodes -> Queues]
<1>1. PICK e, to, full : /\ e = hold[n] /\ to = GetInterestedPeers(n, sent[e].topic)
                         /\ full = {x \in to : Len(queue[n][x]) >= QueueCap}
  OBVIOUS
<1>2. /\ e # 0 /\ hold' = [hold EXCEPT ![n] = 0]
      /\ queue' = [queue EXCEPT ![n] =
                     [x \in Names |-> IF x \in to \ full THEN Append(queue[n][x], e) ELSE queue[n][x]]]
      /\ UNCHANGED <<wire, inbox, log, sent>>
  BY <1>1 DEF ForwardToPeers
<1>3. e \in Events
  BY <1>1, <1>2, Bounds DEF EventTyped, Events
<1>4. queue[n] \in Queues /\ queue \in [Nodes -> Queues]
  BY DEF EventTyped
<1>5. PICK f : f = [x \in Names |-> IF x \in to \ full THEN Append(queue[n][x], e) ELSE queue[n][x]]
  OBVIOUS
<1>6. f \in Queues
  BY <1>3, <1>4, <1>5 DEF Queues
<1>7. queue' = [queue EXCEPT ![n] = f]
  BY <1>2, <1>5
<1>8. queue' \in [Nodes -> Queues] /\ queue'[n] = f /\ \A m \in Nodes : m # n => queue'[m] = queue[m]
  BY <1>4, <1>6, <1>7
<1>9. ASSUME NEW x \in Names
      PROVE  \/ f[x] = queue[n][x]
             \/ f[x] = Append(queue[n][x], e) /\ Len(queue[n][x]) < QueueCap /\ x \in to
  <2>1. Len(queue[n][x]) \in Nat
    BY <1>4 DEF Queues
  <2> QED BY <1>1, <1>5, <2>1, Bounds
<1> QED BY <1>1, <1>2, <1>3, <1>8, <1>9
-----------------------------------------------------------------------------
(* Links and interest *)

\* A node that does not dial itself neither lists itself nor knows an interest
\* of its own as a peer's.
NoLoop(n) ==
  ~DialsItself(n) => entry[n][Id(n)] = None /\ entry[n][Addr(n)] = None /\ view[n][n] = {}

LinkInv == LinkTyped /\ \A n \in Nodes : NoLoop(n)

\* LinkInv is about the links, the entries and the interest only.
LEMMA LinkSame ==
  ASSUME LinkInv, UNCHANGED <<dial, up, entry, view, wanted>>
  PROVE  LinkInv'
BY DEF LinkInv, LinkTyped, NoLoop, DialsItself

\* One entry changes: the other names of the other nodes keep theirs.
LEMMA EntrySet ==
  ASSUME LinkTyped, NEW n \in Nodes, NEW x \in Names, NEW v \in Entries,
         entry' = [entry EXCEPT ![n][x] = v]
  PROVE  /\ entry' \in [Nodes -> [Names -> Entries]] /\ entry'[n][x] = v
         /\ \A m \in Nodes, y \in Names : m # n \/ y # x => entry'[m][y] = entry[m][y]
BY DEF LinkTyped

\* A dial lists the node it goes to with the node it comes from, or the other way
\* round; either leads to itself only if the node dials itself.
LEMMA ListPeer ==
  ASSUME LinkInv, DOMAIN dial' = DOMAIN dial, UNCHANGED view, NEW d \in DOMAIN dial,
         NEW n \in Nodes, NEW x \in Names, NEW v \in Entries, entry' = [entry EXCEPT ![n][x] = v],
         \/ n = d.from /\ x \in {Id(d.to), Addr(d.to)}
         \/ n = d.to /\ x = Id(d.from)
         \/ v = None
  PROVE  entry' \in [Nodes -> [Names -> Entries]] /\ \A m \in Nodes : NoLoop(m)'
<1>1. /\ entry' \in [Nodes -> [Names -> Entries]] /\ entry'[n][x] = v
      /\ \A m \in Nodes, y \in Names : m # n \/ y # x => entry'[m][y] = entry[m][y]
  BY EntrySet DEF LinkInv
<1>2. d.from \in Nodes /\ d.to \in Nodes
  BY DialIs DEF LinkInv, LinkTyped
<1>3. ASSUME NEW m \in Nodes, ~DialsItself(m), NEW y \in {Id(m), Addr(m)}, n = m, x = y PROVE v = None
  <2>1. ~(d.from = m /\ d.to = m)
    BY <1>3 DEF DialsItself
  <2> QED BY <1>2, <1>3, <2>1, NameIs
<1>4. ASSUME NEW m \in Nodes, ~DialsItself(m)
      PROVE  entry'[m][Id(m)] = None /\ entry'[m][Addr(m)] = None /\ view'[m][m] = {}
  <2>1. NoLoop(m) /\ Id(m) \in Names /\ Addr(m) \in Names
    BY NameIs DEF LinkInv
  <2>2. entry[m][Id(m)] = None /\ entry[m][Addr(m)] = None /\ view[m][m] = {}
    BY <1>4, <2>1 DEF NoLoop
  <2>3. \A y \in {Id(m), Addr(m)} : entry'[m][y] = None
    BY <1>1, <1>3, <1>4, <2>1, <2>2
  <2> QED BY <2>2, <2>3
<1>5. \A m \in Nodes : DialsItself(m)' <=> DialsItself(m)
  BY DEF DialsItself
<1> QED BY <1>1, <1>4, <1>5 DEF NoLoop

\* Connect lists the peer by the name that was dialled.
LEMMA ConnectLink ==
  ASSUME LinkInv, NEW d \in PossibleDials, Connect(d)
  PROVE  LinkInv'
<1>1. d \in DOMAIN dial /\ UNCHANGED <<up, view, wanted>> /\ LinkTyped
  BY DEF Connect, interestVars, LinkInv
<1>2. PICK s \in {"running", "skipped"} : dial' = [dial EXCEPT ![d] = s]
  BY DEF Connect
<1>3. /\ DOMAIN dial' = DOMAIN dial
      /\ \A x \in DOMAIN dial' : x \in PossibleDials /\ dial'[x] \in {"todo", "skipped", "running", "met"}
  BY <1>1, <1>2 DEF LinkTyped
<1>4. CASE entry' = entry
  <2>1. \A m \in Nodes : NoLoop(m)'
    BY <1>1, <1>3, <1>4 DEF LinkInv, NoLoop, DialsItself
  <2> QED BY <1>1, <1>3, <1>4, <2>1 DEF LinkInv, LinkTyped
<1>5. CASE entry' = [entry EXCEPT ![d.from][NameOf(d)] = <<"out", d>>]
  <2>1. PICK n, x, v : n = d.from /\ x = NameOf(d) /\ v = <<"out", d>>
    OBVIOUS
  <2>2. n \in Nodes /\ x \in Names /\ x \in {Id(d.to), Addr(d.to)} /\ v \in Entries
    BY <2>1, DialIs DEF Entries
  <2>3. entry' = [entry EXCEPT ![n][x] = v]
    BY <1>5, <2>1
  <2>4. entry' \in [Nodes -> [Names -> Entries]] /\ \A m \in Nodes : NoLoop(m)'
    BY <1>1, <1>3, <2>1, <2>2, <2>3, ListPeer
  <2> QED BY <1>1, <1>3, <2>4 DEF LinkInv, LinkTyped
<1> QED BY <1>4, <1>5 DEF Connect

\* Establish lists the dialler at the other end, which is itself only when it
\* dials itself.
LEMMA EstablishLink ==
  ASSUME LinkInv, NEW d \in PossibleDials, Establish(d)
  PROVE  LinkInv'
<1>1. /\ d \in DOMAIN dial /\ UNCHANGED <<view, wanted>> /\ LinkTyped /\ up' = up \cup {d}
      /\ dial' = [dial EXCEPT ![d] = "met"]
  BY DEF Establish, interestVars, LinkInv
<1>2. PICK n, x, v : n = d.to /\ x = Id(d.from) /\ v = <<"in", d>>
  OBVIOUS
<1>3. n \in Nodes /\ x \in Names /\ v \in Entries
  BY <1>2, DialIs DEF Entries
<1>4. entry' = [entry EXCEPT ![n][x] = v]
  BY <1>2 DEF Establish
<1>5. /\ DOMAIN dial' = DOMAIN dial
      /\ \A c \in DOMAIN dial' : c \in PossibleDials /\ dial'[c] \in {"todo", "skipped", "running", "met"}
  BY <1>1 DEF LinkTyped
<1>6. entry' \in [Nodes -> [Names -> Entries]] /\ \A m \in Nodes : NoLoop(m)'
  BY <1>1, <1>2, <1>3, <1>4, <1>5, ListPeer
<1> QED BY <1>1, <1>5, <1>6 DEF LinkInv, LinkTyped

\* A broken stream removes an entry or leaves all.
LEMMA DropLink ==
  ASSUME LinkInv, NEW d, NEW hand, Drop(d, hand)
  PROVE  LinkInv'
<1>1. d \in DOMAIN dial /\ UNCHANGED <<dial, view, wanted>> /\ LinkTyped /\ up' = up \ {d}
  BY DEF Drop, interestVars, LinkInv, LinkTyped
<1>2. PICK n, x : n = d.to /\ x = Id(d.from)
  OBVIOUS
<1>3. n \in Nodes /\ x \in Names
  BY <1>1, <1>2, DialIs DEF LinkTyped
<1>4. PICK v \in {None, entry[n][x]} : entry' = [entry EXCEPT ![n][x] = v]
  BY <1>2 DEF Drop
<1>5. v \in Entries
  BY <1>1, <1>3, <1>4 DEF Entries, LinkTyped
<1>6. CASE v = None
  <2>1. entry' \in [Nodes -> [Names -> Entries]] /\ \A m \in Nodes : NoLoop(m)'
    BY <1>1, <1>3, <1>4, <1>5, <1>6, ListPeer
  <2> QED BY <1>1, <2>1 DEF LinkInv, LinkTyped
<1>7. CASE v = entry[n][x]
  <2>1. /\ entry' \in [Nodes -> [Names -> Entries]]
        /\ \A m \in Nodes, y \in Names : entry'[m][y] = entry[m][y]
    <3>1. /\ entry' \in [Nodes -> [Names -> Entries]] /\ entry'[n][x] = v
          /\ \A m \in Nodes, y \in Names : m # n \/ y # x => entry'[m][y] = entry[m][y]
      BY <1>1, <1>3, <1>4, <1>5, EntrySet
    <3> QED BY <1>7, <3>1
  <2>2. ASSUME NEW m \in Nodes PROVE NoLoop(m)'
    <3>1. NoLoop(m) /\ Id(m) \in Names /\ Addr(m) \in Names
      BY NameIs DEF LinkInv
    <3>2. entry'[m][Id(m)] = entry[m][Id(m)] /\ entry'[m][Addr(m)] = entry[m][Addr(m)]
      BY <2>1, <3>1
    <3> QED BY <1>1, <3>1, <3>2 DEF NoLoop, DialsItself
  <2> QED BY <1>1, <2>1, <2>2 DEF LinkInv, LinkTyped
<1> QED BY <1>4, <1>6, <1>7

\* A subscription is a matter of one node.
LEMMA SubscribeLink ==
  ASSUME LinkInv, NEW n \in Nodes, NEW t \in Topics, Subscribe(n, t)
  PROVE  LinkInv'
<1>1. UNCHANGED <<dial, up, entry, view>> /\ wanted \in [Nodes -> SUBSET Topics]
  BY DEF Subscribe, linkVars, LinkInv, LinkTyped
<1>2. wanted' \in [Nodes -> SUBSET Topics]
  BY <1>1 DEF Subscribe
<1> QED BY <1>1, <1>2 DEF LinkInv, LinkTyped, NoLoop, DialsItself

\* A node's view of itself comes from its own messages, on a stream to itself.
LEMMA GossipLink ==
  ASSUME LinkInv, NEW d \in PossibleDials, NEW n \in Nodes, NEW m \in Nodes, Gossip(d, n, m)
  PROVE  LinkInv'
<1>1. UNCHANGED <<dial, up, entry, wanted>> /\ d \in DOMAIN dial /\ LinkTyped
  BY DEF Gossip, linkVars, LinkInv
<1>2. (n = d.from /\ m = d.to) \/ (n = d.to /\ m = d.from)
  BY DEF Gossip
<1>3. PICK I \in SUBSET wanted[n] : view' = [view EXCEPT ![m][n] = I]
  BY DEF Gossip
<1>4. I \in SUBSET Topics
  BY <1>1, <1>3 DEF LinkTyped
<1>5. /\ view' \in [Nodes -> [Nodes -> SUBSET Topics]]
      /\ \A a, b \in Nodes : a # m \/ b # n => view'[a][b] = view[a][b]
  BY <1>1, <1>3, <1>4 DEF LinkTyped
<1>6. ASSUME NEW a \in Nodes, ~DialsItself(a) PROVE view'[a][a] = {}
  <2>1. view[a][a] = {}
    BY <1>6 DEF LinkInv, NoLoop
  <2>2. ~(a = m /\ a = n)
    BY <1>1, <1>2, <1>6 DEF DialsItself
  <2> QED BY <1>5, <2>1, <2>2
<1>7. \A a \in Nodes : NoLoop(a)'
  BY <1>1, <1>6 DEF LinkInv, NoLoop, DialsItself
<1> QED BY <1>1, <1>5, <1>7 DEF LinkInv, LinkTyped

\* LinkInv is inductive by itself.
LEMMA LinkStep ==
  ASSUME LinkInv, [Next]_vars
  PROVE  LinkInv'
<1> USE DEF linkVars, interestVars
<1>1. CASE UNCHANGED vars
  BY <1>1, LinkSame DEF vars
<1>2. ASSUME NEW n \in Nodes, ForwardToPeers(n) \/ Receive(n) PROVE LinkInv'
  BY <1>2, LinkSame DEF ForwardToPeers, Receive
<1>3. ASSUME NEW d \in PossibleDials, NEW n \in Nodes, NEW x \in Names, Transmit(d, n, x) PROVE LinkInv'
  BY <1>3, LinkSame DEF Transmit
<1>7. ASSUME NEW d \in PossibleDials, NEW n \in Nodes, Arrive(d, n) PROVE LinkInv'
  BY <1>7, LinkSame DEF Arrive
<1>4. ASSUME NEW n \in Nodes, NEW t \in Topics, Publish(n, t) PROVE LinkInv'
  BY <1>4, LinkSame DEF Publish
<1>5. ASSUME NEW d, Break(d) PROVE LinkInv'
  BY <1>5, DropLink DEF Break
<1>6. ASSUME NEW d, NEW n \in Nodes, NEW x \in Names, SendFails(d, n, x) PROVE LinkInv'
  BY <1>6, DropLink DEF SendFails
<1> QED BY <1>1, <1>2, <1>3, <1>4, <1>5, <1>6, <1>7, ConnectLink, EstablishLink, SubscribeLink,
           GossipLink DEF Next, Progress, Outside
-----------------------------------------------------------------------------
(* Sequences without repetitions *)

Has(q, e) == \E k \in 1 .. Len(q) : q[k] = e
Apart(q) == \A k, j \in 1 .. Len(q) : q[k] = q[j] => k = j

\* Taking the head of a queue without duplicates removes that event.
LEMMA ApartTail ==
  ASSUME NEW q \in Seq(Events), q # <<>>, Apart(q)
  PROVE  /\ Tail(q) \in Seq(Events) /\ Len(Tail(q)) = Len(q) - 1 /\ Apart(Tail(q))
         /\ Head(q) \in Events /\ Has(q, Head(q))
         /\ \A e : Has(Tail(q), e) <=> Has(q, e) /\ e # Head(q)
<1>1. PICK r : r = Tail(q)
  OBVIOUS
<1>2. /\ Len(q) \in Nat /\ Len(q) >= 1 /\ r \in Seq(Events) /\ Len(r) = Len(q) - 1
      /\ Head(q) \in Events /\ q[1] = Head(q) /\ \A k \in 1 .. Len(r) : r[k] = q[k + 1]
  BY <1>1
<1>3. \A k \in 1 .. Len(r) : k + 1 \in 1 .. Len(q) /\ r[k] = q[k + 1] /\ k + 1 # 1
  BY <1>2
<1>4. ASSUME NEW k \in 1 .. Len(r), NEW j \in 1 .. Len(r), r[k] = r[j] PROVE k = j
  <2>1. k + 1 = j + 1
    BY <1>3, <1>4 DEF Apart
  <2> QED BY <2>1
<1>5. ASSUME NEW e, Has(r, e) PROVE Has(q, e) /\ e # Head(q)
  <2>1. PICK k \in 1 .. Len(r) : r[k] = e
    BY <1>5 DEF Has
  <2>2. q[k + 1] = e /\ k + 1 \in 1 .. Len(q) /\ k + 1 # 1 /\ 1 \in 1 .. Len(q)
    BY <1>2, <1>3, <2>1
  <2>3. e # q[1]
    BY <2>2 DEF Apart
  <2> QED BY <1>2, <2>2, <2>3 DEF Has
<1>6. ASSUME NEW e, Has(q, e), e # Head(q) PROVE Has(r, e)
  <2>1. PICK k \in 1 .. Len(q) : q[k] = e
    BY <1>6 DEF Has
  <2>2. k # 1
    BY <1>2, <1>6, <2>1
  <2>3. k - 1 \in 1 .. Len(r) /\ r[k - 1] = q[k]
    BY <1>2, <2>1, <2>2
  <2> QED BY <2>1, <2>3 DEF Has
<1>7. Has(q, Head(q))
  BY <1>2 DEF Has
<1> QED BY <1>1, <1>2, <1>4, <1>5, <1>6, <1>7 DEF Apart

\* Appending a new event keeps a queue without duplicates.
LEMMA ApartAppend ==
  ASSUME NEW q \in Seq(Events), NEW v \in Events, Apart(q), ~Has(q, v)
  PROVE  /\ Append(q, v) \in Seq(Events) /\ Len(Append(q, v)) = Len(q) + 1 /\ Apart(Append(q, v))
         /\ \A e : Has(Append(q, v), e) <=> Has(q, e) \/ e = v
<1>1. PICK r : r = Append(q, v)
  OBVIOUS
<1>2. /\ Len(q) \in Nat /\ r \in Seq(Events) /\ Len(r) = Len(q) + 1 /\ r[Len(q) + 1] = v
      /\ \A k \in 1 .. Len(q) : r[k] = q[k]
  BY <1>1
<1>3. Apart(r)
  BY <1>2 DEF Apart, Has
<1>4. ASSUME NEW e PROVE Has(r, e) <=> Has(q, e) \/ e = v
  BY <1>2 DEF Has
<1> QED BY <1>1, <1>2, <1>3, <1>4

\* A set whose members are all equal has at most one.
LEMMA AtMostOne ==
  ASSUME NEW S, \A x, y \in S : x = y
  PROVE  IsFiniteSet(S) /\ Cardinality(S) = IF S = {} THEN 0 ELSE 1
<1>1. CASE S = {}
  BY <1>1, FS_EmptySet
<1>2. CASE S # {}
  <2>1. PICK x : S = {x}
    BY <1>2
  <2> QED BY <1>2, <2>1, FS_Singleton
<1> QED BY <1>1, <1>2

-----------------------------------------------------------------------------
(* Where an event is *)

\* An event is queued by the node it was published on only, under node IDs only,
\* and not before that node has let go of it.
QueueTidy(n, x) ==
  /\ Apart(queue[n][x])
  /\ \A e \in Events : Has(queue[n][x], e)
       => e <= Len(sent) /\ sent[e].origin = n /\ x = Id(x[2]) /\ e # hold[n]

BoxTidy(m) == Apart(inbox[m]) /\ \A e \in Events : Has(inbox[m], e) => e <= Len(sent)

\* Of the streams to m one at most carries an event, and carries it once.
WireTidy(m) ==
  \A d \in PossibleDials :
    /\ Apart(wire[d][m])
    /\ \A e \in Events : Has(wire[d][m], e)
         => e <= Len(sent) /\ \A c \in PossibleDials : Has(wire[c][m], e) => c = d

OnWire(m, e) == \E d \in PossibleDials : Has(wire[d][m], e)

\* Whether the log of m has e because it was published there.
Own(m, e) == IF sent[e].origin = m THEN 1 ELSE 0

\* An event that is not forwarded yet is nowhere but in its own node's log.
HoldTidy(n) ==
  hold[n] # 0 => /\ hold[n] <= Len(sent) /\ sent[hold[n]].origin = n
                 /\ \A m \in Nodes : /\ ~Has(inbox[m], hold[n]) /\ ~OnWire(m, hold[n])
                                     /\ log[m][hold[n]] = Own(m, hold[n])

Coming(m, e) == \E n \in Nodes : Has(queue[n][Id(m)], e)

\* Beyond what it published itself, m has received e, or has it in its channel, on
\* a stream or queued for it, and only one of these; none if it would have to be
\* its own peer and is not.
Settled(m, e) ==
  /\ \/ log[m][e] = Own(m, e)
     \/ log[m][e] = Own(m, e) + 1 /\ ~Has(inbox[m], e) /\ ~OnWire(m, e) /\ ~Coming(m, e)
  /\ ~(Has(inbox[m], e) /\ Coming(m, e)) /\ ~(Has(inbox[m], e) /\ OnWire(m, e))
  /\ ~(OnWire(m, e) /\ Coming(m, e))
  /\ sent[e].origin = m /\ ~DialsItself(m)
       => log[m][e] = Own(m, e) /\ ~Has(inbox[m], e) /\ ~OnWire(m, e) /\ ~Coming(m, e)

Place(m, e) == IF e > Len(sent) THEN log[m][e] = 0 ELSE Settled(m, e)

EventInv ==
  /\ EventTyped
  /\ \A n \in Nodes, x \in Names : QueueTidy(n, x)
  /\ \A n \in Nodes : BoxTidy(n) /\ WireTidy(n) /\ HoldTidy(n)
  /\ \A m \in Nodes, e \in Events : Place(m, e)

\* The parts of EventTyped as the steps use them.
LEMMA EventTypes ==
  ASSUME EventTyped
  PROVE  /\ Len(sent) \in Nat /\ Len(sent) <= MaxEvents /\ Events \subseteq Nat
         /\ \A n \in Nodes, x \in Names : queue[n][x] \in Seq(Events) /\ Len(queue[n][x]) <= QueueCap
         /\ \A n \in Nodes : inbox[n] \in Seq(Events) /\ Len(inbox[n]) <= InCap /\ hold[n] \in Nat
         /\ \A d \in PossibleDials, n \in Nodes : wire[d][n] \in Seq(Events) /\ Len(wire[d][n]) <= WireCap
         /\ \A n \in Nodes : hold[n] # 0 => hold[n] \in Events
         /\ \A n \in Nodes, e \in Events : log[n][e] \in Nat
BY Bounds DEF EventTyped, Queues, Boxes, Events

\* EventInv bounds the copies.
LEMMA CopiesBounded ==
  ASSUME EventInv
  PROVE  OneCopy
<1> SUFFICES ASSUME NEW m \in Nodes, NEW e \in DOMAIN sent
             PROVE  Copies(m, e) <= IF m = sent[e].origin /\ DialsItself(m) THEN 2 ELSE 1
  BY DEF OneCopy
<1> DEFINE B == {i \in DOMAIN inbox[m] : inbox[m][i] = e}
           Q == {s \in Nodes \X {Id(m), Addr(m)} \X (1 .. QueueCap) :
                   s[3] \in DOMAIN queue[s[1]][s[2]] /\ queue[s[1]][s[2]][s[3]] = e}
           W == {s \in PossibleDials \X (1 .. WireCap) :
                   s[2] \in DOMAIN wire[s[1]][m] /\ wire[s[1]][m][s[2]] = e}
<1>0. EventTyped
  BY DEF EventInv
<1>1. e \in Events /\ e <= Len(sent) /\ e \in Nat /\ Len(sent) \in Nat
  <2>1. Len(sent) \in Nat /\ Len(sent) <= MaxEvents
    BY <1>0, EventTypes
  <2>2. DOMAIN sent = 1 .. Len(sent)
    BY <1>0 DEF EventTyped
  <2>3. e \in 1 .. Len(sent)
    BY <2>2
  <2> QED BY <2>1, <2>3, Bounds DEF Events
<1>2. Settled(m, e)
  BY <1>1 DEF EventInv, Place
<1>3. Cardinality(B) = IF Has(inbox[m], e) THEN 1 ELSE 0
  <2>1. DOMAIN inbox[m] = 1 .. Len(inbox[m]) /\ Apart(inbox[m])
    BY <1>0, EventTypes DEF EventInv, BoxTidy
  <2>2. \A x, y \in B : x = y
    BY <2>1 DEF Apart
  <2>3. B = {} <=> ~Has(inbox[m], e)
    BY <2>1 DEF Has
  <2> HIDE DEF B
  <2> QED BY <2>2, <2>3, AtMostOne
<1>4. Cardinality(Q) = 0 \/ (Cardinality(Q) = 1 /\ Coming(m, e))
  <2>1. ASSUME NEW s \in Q
        PROVE  /\ s[1] = sent[e].origin /\ s[2] = Id(m) /\ s[3] \in 1 .. Len(queue[s[1]][s[2]])
               /\ queue[s[1]][s[2]][s[3]] = e /\ s[1] \in Nodes /\ s = <<s[1], s[2], s[3]>>
               /\ Coming(m, e)
    <3>1. /\ s[1] \in Nodes /\ s[2] \in {Id(m), Addr(m)} /\ s = <<s[1], s[2], s[3]>>
          /\ s[3] \in DOMAIN queue[s[1]][s[2]] /\ queue[s[1]][s[2]][s[3]] = e
      OBVIOUS
    <3>2. s[2] \in Names /\ s[2][2] = m
      BY <3>1, NameIs
    <3>3. s[3] \in 1 .. Len(queue[s[1]][s[2]])
      BY <1>0, <3>1, <3>2, EventTypes
    <3>4. Has(queue[s[1]][s[2]], e)
      BY <3>1, <3>3 DEF Has
    <3>5. sent[e].origin = s[1] /\ s[2] = Id(m)
      BY <1>1, <3>1, <3>2, <3>4 DEF EventInv, QueueTidy
    <3>6. Coming(m, e)
      BY <3>1, <3>4, <3>5 DEF Coming
    <3> QED BY <3>1, <3>3, <3>5, <3>6
  <2> HIDE DEF Q
  <2>2. ASSUME NEW s \in Q, NEW t \in Q PROVE s = t
    <3>1. PICK a, x : a = sent[e].origin /\ x = Id(m)
      OBVIOUS
    <3>2. /\ s[1] = a /\ s[2] = x /\ s[3] \in 1 .. Len(queue[a][x]) /\ queue[a][x][s[3]] = e
          /\ a \in Nodes /\ s = <<a, x, s[3]>>
      BY <2>1, <3>1
    <3>3. /\ t[3] \in 1 .. Len(queue[a][x]) /\ queue[a][x][t[3]] = e /\ t = <<a, x, t[3]>>
      BY <2>1, <3>1
    <3>4. Apart(queue[a][x])
      BY <3>1, <3>2, NameIs DEF EventInv, QueueTidy
    <3>5. s[3] = t[3]
      BY <3>2, <3>3, <3>4 DEF Apart
    <3> QED BY <3>2, <3>3, <3>5
  <2>3. Cardinality(Q) = IF Q = {} THEN 0 ELSE 1
    BY <2>2, AtMostOne
  <2>4. Q # {} => Coming(m, e)
    BY <2>1
  <2> QED BY <2>3, <2>4
<1>5. Cardinality(W) = 0 \/ (Cardinality(W) = 1 /\ OnWire(m, e))
  <2>1. ASSUME NEW s \in W
        PROVE  /\ s[1] \in PossibleDials /\ s = <<s[1], s[2]>> /\ s[2] \in 1 .. Len(wire[s[1]][m])
               /\ wire[s[1]][m][s[2]] = e /\ Has(wire[s[1]][m], e)
    <3>1. /\ s[1] \in PossibleDials /\ s = <<s[1], s[2]>> /\ s[2] \in DOMAIN wire[s[1]][m]
          /\ wire[s[1]][m][s[2]] = e
      OBVIOUS
    <3>2. s[2] \in 1 .. Len(wire[s[1]][m])
      BY <1>0, <3>1, EventTypes
    <3> QED BY <3>1, <3>2 DEF Has
  <2> HIDE DEF W
  <2>2. ASSUME NEW s \in W, NEW t \in W PROVE s = t
    <3>1. WireTidy(m)
      BY DEF EventInv
    <3>2. s[1] = t[1]
      BY <1>1, <2>1, <3>1 DEF WireTidy
    <3>3. s[2] = t[2]
      BY <2>1, <3>1, <3>2 DEF WireTidy, Apart
    <3> QED BY <2>1, <3>2, <3>3
  <2>3. Cardinality(W) = IF W = {} THEN 0 ELSE 1
    BY <2>2, AtMostOne
  <2>4. W # {} => OnWire(m, e)
    BY <2>1 DEF OnWire
  <2> QED BY <2>3, <2>4
<1>6. Copies(m, e) = log[m][e] + Cardinality(B) + Cardinality(Q) + Cardinality(W)
  BY DEF Copies, Count
<1>7. log[m][e] \in Nat /\ Own(m, e) = IF sent[e].origin = m THEN 1 ELSE 0
  BY <1>0, <1>1, EventTypes DEF Own
<1> HIDE DEF B, Q, W
<1> QED BY <1>2, <1>3, <1>4, <1>5, <1>6, <1>7 DEF Settled
-----------------------------------------------------------------------------
(* What the steps do with the events *)

\* EventInv is about the events and the dials there are only.
LEMMA EventSame ==
  ASSUME EventInv, UNCHANGED eventVars, DOMAIN dial' = DOMAIN dial
  PROVE  EventInv'
<1>1. UNCHANGED <<queue, wire, inbox, hold, log, sent>>
  BY DEF eventVars
<1>2. EventTyped'
  BY <1>1 DEF EventInv, EventTyped
<1>3. \A n \in Nodes, x \in Names : QueueTidy(n, x)'
  BY <1>1 DEF EventInv, QueueTidy
<1>4. \A n \in Nodes : BoxTidy(n)' /\ WireTidy(n)' /\ HoldTidy(n)'
  BY <1>1 DEF EventInv, BoxTidy, WireTidy, HoldTidy, OnWire, Own
<1>5. \A m \in Nodes, e \in Events : Place(m, e)'
  BY <1>1 DEF EventInv, Place, Settled, Own, Coming, OnWire, DialsItself
<1> QED BY <1>2, <1>3, <1>4, <1>5 DEF EventInv

\* What queues and streams lose, to a full channel or a broken stream, or put back,
\* is nowhere it was not before.
LEMMA LessIsFine ==
  ASSUME EventInv, queue' \in [Nodes -> Queues], wire' \in [PossibleDials -> Boxes],
         \A n \in Nodes, x \in Names :
           /\ Apart(queue'[n][x]) /\ Len(queue'[n][x]) <= QueueCap
           /\ \A e : Has(queue'[n][x], e) => Has(queue[n][x], e),
         \A d \in PossibleDials, n \in Nodes :
           /\ Apart(wire'[d][n]) /\ Len(wire'[d][n]) <= WireCap
           /\ \A e : Has(wire'[d][n], e) => Has(wire[d][n], e),
         UNCHANGED <<inbox, hold, log, sent>>, DOMAIN dial' = DOMAIN dial
  PROVE  EventInv'
<1>1. EventTyped'
  BY DEF EventInv, EventTyped
<1>2. \A m \in Nodes, y \in Names : QueueTidy(m, y)'
  BY DEF EventInv, QueueTidy
<1>3. \A m \in Nodes : \A e : OnWire(m, e)' => OnWire(m, e)
  BY DEF OnWire
<1>4. \A m \in Nodes : BoxTidy(m)' /\ HoldTidy(m)'
  BY <1>3 DEF EventInv, BoxTidy, HoldTidy, Own
<1>5. \A m \in Nodes : WireTidy(m)'
  BY DEF EventInv, WireTidy
<1>6. ASSUME NEW m \in Nodes, NEW e \in Events PROVE Place(m, e)'
  <2>1. Coming(m, e)' => Coming(m, e)
    BY NameIs DEF Coming
  <2>2. Place(m, e) /\ Own(m, e)' = Own(m, e) /\ (DialsItself(m)' <=> DialsItself(m))
    BY DEF EventInv, Own, DialsItself
  <2> QED BY <1>3, <2>1, <2>2 DEF Place, Settled
<1> QED BY <1>1, <1>2, <1>4, <1>5, <1>6 DEF EventInv

\* What the queues and the streams are before a step that takes from them.
LEMMA QueuesTidy ==
  ASSUME EventInv
  PROVE  /\ EventTyped /\ queue \in [Nodes -> Queues] /\ wire \in [PossibleDials -> Boxes]
         /\ \A n \in Nodes, x \in Names : Apart(queue[n][x]) /\ Len(queue[n][x]) <= QueueCap
         /\ \A d \in PossibleDials, n \in Nodes : Apart(wire[d][n]) /\ Len(wire[d][n]) <= WireCap
BY DEF EventInv, EventTyped, QueueTidy, WireTidy

\* What a stream that ends leaves on it, which is nothing.
LEMMA DropWire ==
  ASSUME LinkInv, EventInv, NEW d, NEW hand, Drop(d, hand)
  PROVE  /\ wire' \in [PossibleDials -> Boxes] /\ UNCHANGED <<inbox, hold, log, sent, dial>>
         /\ \A c \in PossibleDials, n \in Nodes :
              /\ Apart(wire'[c][n]) /\ Len(wire'[c][n]) <= WireCap
              /\ \A e : Has(wire'[c][n], e) => Has(wire[c][n], e)
<1>1. d \in PossibleDials /\ UNCHANGED <<inbox, hold, log, sent, dial>>
  BY DEF Drop, LinkInv, LinkTyped
<1>2. /\ wire' \in [PossibleDials -> Boxes]
      /\ \A c \in PossibleDials, n \in Nodes : wire'[c][n] = <<>> \/ wire'[c][n] = wire[c][n]
  BY <1>1, QueuesTidy, WireEmptied DEF Drop
<1>3. Apart(<<>>) /\ Len(<<>>) <= WireCap /\ \A e : ~Has(<<>>, e)
  BY Bounds DEF Apart, Has
<1>4. ASSUME NEW c \in PossibleDials, NEW n \in Nodes
      PROVE  /\ Apart(wire'[c][n]) /\ Len(wire'[c][n]) <= WireCap
             /\ \A e : Has(wire'[c][n], e) => Has(wire[c][n], e)
  <2>1. CASE wire'[c][n] = <<>>
    BY <1>3, <2>1
  <2>2. CASE wire'[c][n] = wire[c][n]
    BY <2>2, QueuesTidy
  <2> QED BY <1>2, <2>1, <2>2
<1> QED BY <1>1, <1>2, <1>4

\* A broken stream takes nothing but what is on it.
LEMMA BreakEvent ==
  ASSUME LinkInv, EventInv, NEW d, Break(d)
  PROVE  EventInv'
<1>1. /\ wire' \in [PossibleDials -> Boxes] /\ UNCHANGED <<queue, inbox, hold, log, sent, dial>>
      /\ \A c \in PossibleDials, n \in Nodes :
              /\ Apart(wire'[c][n]) /\ Len(wire'[c][n]) <= WireCap
              /\ \A e : Has(wire'[c][n], e) => Has(wire[c][n], e)
  BY DropWire DEF Break
<1>2. /\ queue' \in [Nodes -> Queues]
      /\ \A n \in Nodes, x \in Names :
           /\ Apart(queue'[n][x]) /\ Len(queue'[n][x]) <= QueueCap
           /\ \A e : Has(queue'[n][x], e) => Has(queue[n][x], e)
  BY <1>1, QueuesTidy
<1> QED BY <1>1, <1>2, LessIsFine

\* What a queue with an event at its head says about it.
LEMMA HeadIs ==
  ASSUME EventInv, NEW n \in Nodes, NEW x \in Names, NEW q, q = queue[n][x], q # <<>>
  PROVE  /\ q \in Seq(Events) /\ Apart(q) /\ Len(q) <= QueueCap /\ Len(q) \in Nat
         /\ Head(q) \in Events /\ Has(q, Head(q))
         /\ Tail(q) \in Seq(Events) /\ Len(Tail(q)) = Len(q) - 1 /\ Apart(Tail(q))
         /\ \A e : Has(Tail(q), e) <=> Has(q, e) /\ e # Head(q)
<1>1. q \in Seq(Events) /\ Apart(q) /\ Len(q) <= QueueCap
  BY EventTypes DEF EventInv, QueueTidy
<1>2. Len(q) \in Nat
  BY <1>1
<1> QED BY <1>1, <1>2, ApartTail

\* An event lost by a failed send leaves its queue for nowhere.
LEMMA SendFailsEvent ==
  ASSUME LinkInv, EventInv, NEW d, NEW n \in Nodes, NEW x \in Names, SendFails(d, n, x)
  PROVE  EventInv'
<1>1. PICK q : q = queue[n][x]
  OBVIOUS
<1>2. /\ q \in Seq(Events) /\ Apart(q) /\ Len(q) <= QueueCap /\ Len(q) \in Nat /\ Head(q) \in Events
      /\ Tail(q) \in Seq(Events) /\ Len(Tail(q)) = Len(q) - 1 /\ Apart(Tail(q)) /\ Has(q, Head(q))
      /\ \A e : Has(Tail(q), e) <=> Has(q, e) /\ e # Head(q)
  <2>1. q # <<>>
    BY <1>1 DEF SendFails
  <2> QED BY <1>1, <2>1, HeadIs
<1>3. /\ wire' \in [PossibleDials -> Boxes] /\ UNCHANGED <<inbox, hold, log, sent, dial>>
      /\ \A c \in PossibleDials, m \in Nodes :
              /\ Apart(wire'[c][m]) /\ Len(wire'[c][m]) <= WireCap
              /\ \A e : Has(wire'[c][m], e) => Has(wire[c][m], e)
  <2>1. PICK hand : Drop(d, hand)
    BY DEF SendFails
  <2> QED BY <2>1, DropWire
<1>4. PICK r \in Seq(Events) : /\ queue' = [queue EXCEPT ![n][x] = r] /\ Apart(r) /\ Len(r) <= QueueCap
                              /\ \A e : Has(r, e) => Has(q, e)
  <2>1. CASE queue' = [queue EXCEPT ![n][x] = Tail(q)]
    <3>1. Len(Tail(q)) <= QueueCap
      BY <1>2, Bounds
    <3> QED BY <1>2, <2>1, <3>1
  <2>2. CASE queue' = [queue EXCEPT ![n][x] = Append(Tail(q), Head(q))]
    <3>1. PICK r, t, h : r = Append(t, h) /\ t = Tail(q) /\ h = Head(q)
      OBVIOUS
    <3>2. ~Has(t, h) /\ t \in Seq(Events) /\ Apart(t) /\ h \in Events
      BY <1>2, <3>1
    <3>3. /\ r \in Seq(Events) /\ Len(r) = Len(t) + 1 /\ Apart(r)
          /\ \A e : Has(r, e) <=> Has(t, e) \/ e = h
      BY <3>1, <3>2, ApartAppend
    <3>4. Len(r) <= QueueCap /\ \A e : Has(r, e) => Has(q, e)
      BY <1>2, <3>1, <3>3, Bounds
    <3> QED BY <2>2, <3>1, <3>3, <3>4
  <2> QED BY <1>1, <2>1, <2>2 DEF SendFails
<1>5. QueueBecomes(n, x, r)
  BY <1>4, QueuesTidy, QueueSet
<1>6. /\ queue' \in [Nodes -> Queues]
      /\ \A m \in Nodes, y \in Names :
           /\ Apart(queue'[m][y]) /\ Len(queue'[m][y]) <= QueueCap
           /\ \A e : Has(queue'[m][y], e) => Has(queue[m][y], e)
  BY <1>1, <1>4, <1>5, QueuesTidy DEF QueueBecomes
<1> QED BY <1>3, <1>6, LessIsFine

\* Transmit moves an event from a queue to a stream.
LEMMA TransmitEvent ==
  ASSUME EventInv, NEW d \in PossibleDials, NEW n \in Nodes, NEW x \in Names, Transmit(d, n, x)
  PROVE  EventInv'
<1>1. PICK q, b, m : q = queue[n][x] /\ b = wire[d][m] /\ m = x[2]
  OBVIOUS
<1>2. PICK e, r, c : e = Head(q) /\ r = Tail(q) /\ c = Append(b, e)
  OBVIOUS
<1>3. /\ q \in Seq(Events) /\ Apart(q) /\ Len(q) <= QueueCap /\ Len(q) \in Nat /\ e \in Events
      /\ r \in Seq(Events) /\ Len(r) = Len(q) - 1 /\ Apart(r) /\ Has(q, e)
      /\ \A f : Has(r, f) <=> Has(q, f) /\ f # e
  <2>1. q # <<>>
    BY <1>1 DEF Transmit
  <2>2. /\ q \in Seq(Events) /\ Apart(q) /\ Len(q) <= QueueCap /\ Len(q) \in Nat
        /\ Head(q) \in Events /\ Has(q, Head(q))
        /\ Tail(q) \in Seq(Events) /\ Len(Tail(q)) = Len(q) - 1 /\ Apart(Tail(q))
        /\ \A f : Has(Tail(q), f) <=> Has(q, f) /\ f # Head(q)
    BY <1>1, <2>1, HeadIs
  <2> QED BY <1>2, <2>2
<1>4. UNCHANGED <<inbox, hold, log, sent, dial>> /\ EventTyped /\ m \in Nodes /\ Len(b) < WireCap
  BY <1>1, NameIs DEF Transmit, linkVars, EventInv
<1>5. /\ queue' \in [Nodes -> Queues] /\ queue'[n][x] = r /\ Len(r) <= QueueCap
      /\ \A a \in Nodes, y \in Names : a # n \/ y # x => queue'[a][y] = queue[a][y]
  <2>1. queue' = [queue EXCEPT ![n][x] = r]
    BY <1>1, <1>2 DEF Transmit
  <2>2. QueueBecomes(n, x, r)
    BY <1>3, <1>4, <2>1, QueueSet
  <2> QED BY <1>3, <2>2, Bounds DEF QueueBecomes
<1>6. e <= Len(sent) /\ sent[e].origin = n /\ x = Id(m) /\ e # hold[n]
  BY <1>1, <1>3 DEF EventInv, QueueTidy
<1>7. Coming(m, e) /\ Settled(m, e)
  <2>1. Coming(m, e) /\ Place(m, e)
    BY <1>1, <1>3, <1>4, <1>6 DEF Coming, EventInv
  <2> QED BY <1>3, <1>4, <1>6, <2>1, EventTypes DEF Place
<1>8. ~Has(inbox[m], e) /\ ~OnWire(m, e) /\ log[m][e] = Own(m, e)
  BY <1>7 DEF Settled
<1>9. c \in Seq(Events) /\ Len(c) <= WireCap /\ Apart(c) /\ \A f : Has(c, f) <=> Has(b, f) \/ f = e
  <2>1. b \in Seq(Events) /\ Apart(b) /\ ~Has(b, e)
    BY <1>1, <1>4, <1>8, EventTypes, QueuesTidy DEF OnWire
  <2>2. c \in Seq(Events) /\ Len(c) = Len(b) + 1 /\ Apart(c) /\ \A f : Has(c, f) <=> Has(b, f) \/ f = e
    BY <1>2, <1>3, <2>1, ApartAppend
  <2> QED BY <1>4, <2>1, <2>2, Bounds
<1>10. /\ wire' \in [PossibleDials -> Boxes] /\ wire'[d][m] = c
       /\ \A k \in PossibleDials, a \in Nodes : k # d \/ a # m => wire'[k][a] = wire[k][a]
  <2>1. wire' = [wire EXCEPT ![d][m] = c]
    BY <1>1, <1>2 DEF Transmit
  <2>2. WireBecomes(d, m, c)
    BY <1>4, <1>9, <2>1, WireSet
  <2> QED BY <2>2 DEF WireBecomes
<1>11. EventTyped'
  <2>1. \A k \in PossibleDials, a \in Nodes : Len(wire'[k][a]) <= WireCap
    BY <1>4, <1>9, <1>10 DEF EventTyped
  <2>2. \A a \in Nodes, y \in Names : Len(queue'[a][y]) <= QueueCap
    BY <1>4, <1>5 DEF EventTyped
  <2> QED BY <1>4, <1>5, <1>10, <2>1, <2>2 DEF EventTyped
<1>12. ASSUME NEW a \in Nodes, NEW y \in Names PROVE QueueTidy(a, y)'
  <2>1. QueueTidy(a, y)
    BY DEF EventInv
  <2>2. Apart(queue'[a][y]) /\ \A f \in Events : Has(queue'[a][y], f) => Has(queue[a][y], f)
    BY <1>1, <1>3, <1>5, <2>1 DEF QueueTidy
  <2> QED BY <1>4, <2>1, <2>2 DEF QueueTidy
<1>13. ASSUME NEW a \in Nodes, NEW f, OnWire(a, f)' PROVE OnWire(a, f) \/ (a = m /\ f = e)
  <2>1. PICK k \in PossibleDials : Has(wire'[k][a], f)
    BY <1>13 DEF OnWire
  <2>2. Has(wire[k][a], f) \/ (a = m /\ f = e)
    BY <1>1, <1>9, <1>10, <2>1
  <2> QED BY <2>2 DEF OnWire
<1>14. ASSUME NEW a \in Nodes, NEW k \in PossibleDials
       PROVE  /\ Apart(wire'[k][a])
              /\ \A f \in Events : Has(wire'[k][a], f)
                   => f <= Len(sent) /\ \A j \in PossibleDials : Has(wire'[j][a], f) => j = k
  <2>1. WireTidy(a) /\ WireTidy(m)
    BY <1>4 DEF EventInv
  <2>2. Apart(wire'[k][a])
    BY <1>9, <1>10, <2>1 DEF WireTidy
  <2>3. ASSUME NEW f \in Events, Has(wire'[k][a], f)
        PROVE  f <= Len(sent) /\ \A j \in PossibleDials : Has(wire'[j][a], f) => j = k
    <3>1. CASE a = m /\ f = e
      <4>1. \A j \in PossibleDials : Has(wire'[j][m], e) => j = d
        BY <1>4, <1>8, <1>10 DEF OnWire
      <4> QED BY <1>6, <2>3, <3>1, <4>1
    <3>2. CASE ~(a = m /\ f = e)
      <4>1. \A j \in PossibleDials : Has(wire'[j][a], f) <=> Has(wire[j][a], f)
        BY <1>1, <1>9, <1>10, <3>2
      <4> QED BY <2>1, <2>3, <4>1 DEF WireTidy
    <3> QED BY <3>1, <3>2
  <2> QED BY <2>2, <2>3
<1>15. ASSUME NEW a \in Nodes PROVE BoxTidy(a)' /\ WireTidy(a)' /\ HoldTidy(a)'
  <2>1. BoxTidy(a) /\ HoldTidy(a)
    BY DEF EventInv
  <2>2. BoxTidy(a)' /\ WireTidy(a)'
    BY <1>4, <1>14, <2>1 DEF BoxTidy, WireTidy
  <2>3. ASSUME hold[a] # 0, NEW k \in Nodes PROVE ~OnWire(k, hold[a])'
    <3>1. PICK h : h = hold[a]
      OBVIOUS
    <3>2. sent[h].origin = a /\ ~OnWire(k, h) /\ hold'[a] = h
      BY <1>4, <2>1, <2>3, <3>1 DEF HoldTidy
    <3>3. h # e
      BY <1>6, <3>1, <3>2
    <3>4. ~OnWire(k, h)'
      BY <1>13, <3>2, <3>3
    <3> QED BY <3>1, <3>2, <3>4 DEF OnWire
  <2>4. HoldTidy(a)'
    BY <1>4, <2>1, <2>3 DEF HoldTidy, Own
  <2> QED BY <2>2, <2>4
<1>16. ASSUME NEW a \in Nodes, NEW f \in Events PROVE Place(a, f)'
  <2>1. Place(a, f) /\ Own(a, f)' = Own(a, f) /\ (DialsItself(a)' <=> DialsItself(a))
    BY <1>4 DEF EventInv, Own, DialsItself
  <2>2. Coming(a, f)' => Coming(a, f)
    BY <1>1, <1>3, <1>5, NameIs DEF Coming
  <2>3. CASE a = m /\ f = e
    <3>1. ~Coming(m, e)'
      <4>1. ASSUME NEW k \in Nodes, Has(queue'[k][x], e) PROVE FALSE
        <5>1. k # n
          BY <1>3, <1>5, <4>1
        <5>2. Has(queue[k][x], e)
          BY <1>5, <4>1, <5>1
        <5>3. sent[e].origin = k
          BY <1>3, <5>2 DEF EventInv, QueueTidy
        <5> QED BY <1>6, <5>1, <5>3
      <4> QED BY <1>6, <4>1 DEF Coming
    <3>2. Settled(m, e)'
      BY <1>4, <1>7, <1>8, <2>1, <2>3, <3>1 DEF Settled
    <3> QED BY <1>3, <1>4, <1>6, <2>3, <3>2, EventTypes DEF Place
  <2>4. CASE ~(a = m /\ f = e)
    <3>1. OnWire(a, f)' => OnWire(a, f)
      BY <1>13, <2>4
    <3> QED BY <1>4, <2>1, <2>2, <3>1 DEF Place, Settled
  <2> QED BY <2>3, <2>4
<1> QED BY <1>11, <1>12, <1>15, <1>16 DEF EventInv

\* Arrive moves an event from a stream to the channel, or loses it.
LEMMA ArriveEvent ==
  ASSUME EventInv, NEW d \in PossibleDials, NEW m \in Nodes, Arrive(d, m)
  PROVE  EventInv'
<1>1. PICK q : q = wire[d][m]
  OBVIOUS
<1>2. PICK e, r : e = Head(q) /\ r = Tail(q)
  OBVIOUS
<1>3. /\ q \in Seq(Events) /\ Len(q) <= WireCap /\ Len(q) \in Nat /\ e \in Events
      /\ r \in Seq(Events) /\ Len(r) = Len(q) - 1 /\ Apart(r) /\ Has(q, e)
      /\ \A f : Has(r, f) <=> Has(q, f) /\ f # e
  <2>1. q # <<>> /\ q \in Seq(Events) /\ Apart(q) /\ Len(q) <= WireCap
    BY <1>1, EventTypes, QueuesTidy DEF Arrive
  <2>2. Len(q) \in Nat
    BY <2>1
  <2>3. /\ Tail(q) \in Seq(Events) /\ Len(Tail(q)) = Len(q) - 1 /\ Apart(Tail(q))
        /\ Head(q) \in Events /\ Has(q, Head(q))
        /\ \A f : Has(Tail(q), f) <=> Has(q, f) /\ f # Head(q)
    BY <2>1, ApartTail
  <2> QED BY <1>2, <2>1, <2>2, <2>3
<1>4. UNCHANGED <<queue, hold, log, sent, dial>> /\ EventTyped
  BY DEF Arrive, linkVars, EventInv
<1>5. /\ wire' \in [PossibleDials -> Boxes] /\ wire'[d][m] = r
      /\ \A k \in PossibleDials, a \in Nodes : k # d \/ a # m => wire'[k][a] = wire[k][a]
  <2>1. wire' = [wire EXCEPT ![d][m] = r]
    BY <1>1, <1>2 DEF Arrive
  <2>2. WireBecomes(d, m, r)
    BY <1>3, <1>4, <2>1, WireSet
  <2> QED BY <2>2 DEF WireBecomes
<1>6. ASSUME NEW k \in PossibleDials, NEW a \in Nodes
      PROVE  /\ Apart(wire'[k][a]) /\ Len(wire'[k][a]) <= WireCap
             /\ \A f : Has(wire'[k][a], f) => Has(wire[k][a], f)
  <2>1. Len(r) <= WireCap
    BY <1>3, Bounds
  <2> QED BY <1>1, <1>3, <1>5, <2>1, QueuesTidy
<1>7. CASE inbox' = inbox
  <2>1. /\ queue' \in [Nodes -> Queues]
        /\ \A n \in Nodes, x \in Names :
             /\ Apart(queue'[n][x]) /\ Len(queue'[n][x]) <= QueueCap
             /\ \A f : Has(queue'[n][x], f) => Has(queue[n][x], f)
    BY <1>4, QueuesTidy
  <2> QED BY <1>4, <1>5, <1>6, <1>7, <2>1, LessIsFine
<1>8. CASE Len(inbox[m]) < InCap /\ inbox' = [inbox EXCEPT ![m] = Append(@, e)]
  <2>1. OnWire(m, e) /\ e <= Len(sent) /\ \A k \in PossibleDials : Has(wire[k][m], e) => k = d
    BY <1>1, <1>3 DEF EventInv, WireTidy, OnWire
  <2>2. Settled(m, e)
    BY <1>3, <1>4, <2>1, EventTypes DEF EventInv, Place
  <2>3. ~Has(inbox[m], e) /\ ~Coming(m, e) /\ log[m][e] = Own(m, e)
    BY <2>1, <2>2 DEF Settled
  <2>4. PICK b, c : b = inbox[m] /\ c = Append(b, e)
    OBVIOUS
  <2>5. /\ b \in Seq(Events) /\ Apart(b) /\ ~Has(b, e) /\ Len(b) < InCap
    BY <1>4, <1>8, <2>3, <2>4, EventTypes DEF EventInv, BoxTidy
  <2>6. c \in Seq(Events) /\ Len(c) <= InCap /\ Apart(c) /\ \A f : Has(c, f) <=> Has(b, f) \/ f = e
    <3>1. c \in Seq(Events) /\ Len(c) = Len(b) + 1 /\ Apart(c) /\ \A f : Has(c, f) <=> Has(b, f) \/ f = e
      BY <1>3, <2>4, <2>5, ApartAppend
    <3> QED BY <2>5, <3>1, Bounds
  <2>7. /\ inbox' \in Boxes /\ inbox'[m] = c
        /\ \A a \in Nodes : a # m => inbox'[a] = inbox[a]
    BY <1>4, <1>8, <2>4, <2>6 DEF EventTyped, Boxes
  <2>8. EventTyped'
    <3>1. \A a \in Nodes : Len(inbox'[a]) <= InCap
      BY <1>4, <2>6, <2>7 DEF EventTyped
    <3> QED BY <1>4, <1>5, <1>6, <2>7, <3>1 DEF EventTyped
  <2>9. \A a \in Nodes, y \in Names : QueueTidy(a, y)'
    BY <1>4 DEF EventInv, QueueTidy
  <2>10. \A a \in Nodes : \A f : OnWire(a, f)' => OnWire(a, f)
    BY <1>6 DEF OnWire
  <2>11. ~OnWire(m, e)'
    <3>1. ~Has(wire'[d][m], e)
      BY <1>3, <1>5
    <3>2. \A k \in PossibleDials : k # d => ~Has(wire'[k][m], e)
      BY <1>6, <2>1
    <3> QED BY <3>1, <3>2 DEF OnWire
  <2>12. ASSUME NEW a \in Nodes PROVE BoxTidy(a)' /\ WireTidy(a)' /\ HoldTidy(a)'
    <3>1. BoxTidy(a) /\ WireTidy(a) /\ HoldTidy(a)
      BY DEF EventInv
    <3>2. BoxTidy(a)'
      BY <1>4, <2>1, <2>4, <2>6, <2>7, <3>1 DEF BoxTidy
    <3>3. WireTidy(a)'
      BY <1>4, <1>6, <3>1 DEF WireTidy
    <3>4. ASSUME hold[a] # 0, NEW k \in Nodes PROVE ~Has(inbox'[k], hold[a]) /\ ~OnWire(k, hold[a])'
      <4>1. PICK h : h = hold[a]
        OBVIOUS
      <4>2. ~Has(inbox[k], h) /\ ~OnWire(k, h) /\ ~OnWire(m, h) /\ hold'[a] = h
        BY <1>4, <3>1, <3>4, <4>1 DEF HoldTidy
      <4>3. h # e
        BY <2>1, <4>2
      <4>4. ~Has(inbox'[k], h) /\ ~OnWire(k, h)'
        BY <2>4, <2>6, <2>7, <2>10, <4>2, <4>3
      <4> QED BY <4>1, <4>2, <4>4 DEF OnWire
    <3>5. HoldTidy(a)'
      BY <1>4, <3>1, <3>4 DEF HoldTidy, Own
    <3> QED BY <3>2, <3>3, <3>5
  <2>13. ASSUME NEW a \in Nodes, NEW f \in Events PROVE Place(a, f)'
    <3>1. /\ Place(a, f) /\ Own(a, f)' = Own(a, f) /\ (DialsItself(a)' <=> DialsItself(a))
          /\ (Coming(a, f)' <=> Coming(a, f))
      BY <1>4 DEF EventInv, Own, DialsItself, Coming
    <3>2. CASE a = m /\ f = e
      <4>1. Settled(m, e)'
        BY <1>4, <2>1, <2>2, <2>3, <2>11, <3>1, <3>2 DEF Settled
      <4> QED BY <1>3, <1>4, <2>1, <3>2, <4>1, EventTypes DEF Place
    <3>3. CASE ~(a = m /\ f = e)
      <4>1. Has(inbox'[a], f) <=> Has(inbox[a], f)
        BY <2>4, <2>6, <2>7, <3>3
      <4> QED BY <1>4, <2>10, <3>1, <4>1 DEF Place, Settled
    <3> QED BY <3>2, <3>3
  <2> QED BY <2>8, <2>9, <2>12, <2>13 DEF EventInv
<1> QED BY <1>1, <1>2, <1>7, <1>8 DEF Arrive

\* A published event is new: it is at its origin and nowhere else.
LEMMA PublishEvent ==
  ASSUME EventInv, NEW n \in Nodes, NEW t \in Topics, Publish(n, t)
  PROVE  EventInv'
<1>1. PICK e, v : e = Len(sent) + 1 /\ v = [topic |-> t, origin |-> n]
  OBVIOUS
<1>2. PICK S : S = [topic : Topics, origin : Nodes]
  OBVIOUS
<1>3. /\ hold[n] = 0 /\ Len(sent) < MaxEvents /\ sent' = Append(sent, v)
      /\ log' = [log EXCEPT ![n][e] = @ + 1] /\ hold' = [hold EXCEPT ![n] = e]
      /\ UNCHANGED <<queue, wire, inbox, dial>>
  BY <1>1 DEF Publish, linkVars
<1>4. /\ EventTyped /\ Len(sent) \in Nat /\ sent \in Seq(S) /\ v \in S /\ v.origin = n
      /\ e \in Events /\ e \in 0 .. MaxEvents /\ e \in Nat /\ e > Len(sent) /\ Events \subseteq Nat
  <2>1. EventTyped /\ Len(sent) \in Nat /\ Events \subseteq Nat
    BY EventTypes DEF EventInv
  <2>2. sent \in Seq(S) /\ v \in S /\ v.origin = n
    BY <1>1, <1>2, <2>1 DEF EventTyped
  <2> QED BY <1>1, <1>3, <2>1, <2>2, Bounds DEF Events
<1>5. /\ sent' \in Seq(S) /\ Len(sent') = e /\ Len(sent') <= MaxEvents /\ sent'[e].origin = n
      /\ \A f \in Events : f <= Len(sent) => sent'[f] = sent[f]
  <2>1. sent' \in Seq(S) /\ Len(sent') = Len(sent) + 1 /\ sent'[Len(sent) + 1] = v
        /\ \A f \in 1 .. Len(sent) : sent'[f] = sent[f]
    BY <1>3, <1>4
  <2> QED BY <1>1, <1>3, <1>4, <2>1, Bounds DEF Events
<1>6. /\ log' \in [Nodes -> [Events -> Nat]] /\ log'[n][e] = log[n][e] + 1
      /\ \A m \in Nodes, f \in Events : m # n \/ f # e => log'[m][f] = log[m][f]
  <2>1. log \in [Nodes -> [Events -> Nat]]
    BY <1>4 DEF EventTyped
  <2> QED BY <1>3, <1>4, <2>1
<1>7. /\ hold' \in [Nodes -> 0 .. MaxEvents] /\ hold'[n] = e
      /\ \A m \in Nodes : m # n => hold'[m] = hold[m]
  <2>1. hold \in [Nodes -> 0 .. MaxEvents]
    BY <1>4 DEF EventTyped
  <2> QED BY <1>3, <1>4, <2>1
<1>8. EventTyped'
  BY <1>2, <1>3, <1>4, <1>5, <1>6, <1>7 DEF EventTyped
<1>9. \A m \in Nodes : /\ ~Has(inbox[m], e) /\ ~OnWire(m, e) /\ log[m][e] = 0
                      /\ \A x \in Names : ~Has(queue[m][x], e)
  <2>1. \A m \in Nodes : ~OnWire(m, e)
    BY <1>4 DEF EventInv, WireTidy, OnWire
  <2> QED BY <1>4, <2>1 DEF EventInv, Place, BoxTidy, QueueTidy
<1>10. ASSUME NEW m \in Nodes, NEW x \in Names PROVE QueueTidy(m, x)'
  <2>1. QueueTidy(m, x) /\ queue' = queue
    BY <1>3 DEF EventInv
  <2>2. ASSUME NEW f \in Events, Has(queue[m][x], f)
        PROVE  f <= Len(sent') /\ sent'[f].origin = m /\ x = Id(x[2]) /\ f # hold'[m]
    <3>1. f <= Len(sent) /\ sent[f].origin = m /\ x = Id(x[2]) /\ f # hold[m] /\ f \in Nat
      BY <1>4, <2>1, <2>2 DEF QueueTidy
    <3>2. f # e
      BY <1>4, <3>1
    <3> QED BY <1>1, <1>4, <1>5, <1>7, <3>1, <3>2
  <2> QED BY <2>1, <2>2 DEF QueueTidy
<1>11. ASSUME NEW m \in Nodes, NEW f \in Events, f <= Len(sent) PROVE Own(m, f)' = Own(m, f)
  BY <1>5, <1>11 DEF Own
<1>12. ASSUME NEW m \in Nodes PROVE BoxTidy(m)' /\ WireTidy(m)' /\ HoldTidy(m)'
  <2>1. BoxTidy(m) /\ WireTidy(m) /\ HoldTidy(m) /\ \A a \in Nodes : \A f : OnWire(a, f)' <=> OnWire(a, f)
    BY <1>3 DEF EventInv, OnWire
  <2>2. BoxTidy(m)' /\ WireTidy(m)'
    <3>1. BoxTidy(m)'
      BY <1>1, <1>3, <1>4, <1>5, <2>1 DEF BoxTidy
    <3>2. ASSUME NEW f \in Events, f <= Len(sent) PROVE f <= Len(sent')
      <4>1. f \in Nat /\ Len(sent') = Len(sent) + 1
        BY <1>1, <1>4, <1>5
      <4> QED BY <1>4, <3>2, <4>1
    <3> QED BY <1>3, <2>1, <3>1, <3>2 DEF WireTidy
  <2>3. CASE m = n
    <3>1. ASSUME NEW a \in Nodes PROVE ~Has(inbox'[a], e) /\ ~OnWire(a, e)' /\ log'[a][e] = Own(a, e)'
      BY <1>3, <1>4, <1>5, <1>6, <1>9, <2>1 DEF Own
    <3>2. e <= Len(sent') /\ sent'[e].origin = n
      BY <1>4, <1>5
    <3>3. hold'[m] = e
      BY <1>7, <2>3
    <3>4. HoldTidy(m)'
      BY <2>3, <3>1, <3>2, <3>3 DEF HoldTidy, OnWire, Own
    <3> QED BY <2>2, <3>4
  <2>4. CASE m # n /\ hold[m] # 0
    <3>1. PICK h : h = hold[m]
      OBVIOUS
    <3>2. /\ h \in Events /\ h <= Len(sent) /\ h # e /\ sent[h].origin = m
          /\ \A a \in Nodes : ~Has(inbox[a], h) /\ ~OnWire(a, h) /\ log[a][h] = Own(a, h)
      BY <1>4, <2>1, <2>4, <3>1, EventTypes DEF HoldTidy
    <3>3. h <= Len(sent') /\ sent'[h].origin = m
      <4>1. sent'[h] = sent[h] /\ h \in Nat
        BY <1>4, <1>5, <3>2
      <4>2. h <= e
        BY <1>1, <1>4, <3>2, <4>1
      <4> QED BY <1>5, <3>2, <4>1, <4>2
    <3>4. \A a \in Nodes : ~Has(inbox'[a], h) /\ ~OnWire(a, h)' /\ log'[a][h] = Own(a, h)'
      BY <1>3, <1>6, <1>11, <2>1, <3>2
    <3>5. hold'[m] = h
      BY <1>7, <2>4, <3>1
    <3>6. HoldTidy(m)'
      BY <3>3, <3>4, <3>5 DEF HoldTidy, OnWire, Own
    <3> QED BY <2>2, <3>6
  <2>5. CASE m # n /\ hold[m] = 0
    BY <1>7, <2>2, <2>5 DEF HoldTidy
  <2> QED BY <2>3, <2>4, <2>5
<1>13. ASSUME NEW m \in Nodes, NEW f \in Events PROVE Place(m, f)'
  <2>1. /\ Place(m, f) /\ (Has(inbox[m], f)' <=> Has(inbox[m], f)) /\ (Coming(m, f)' <=> Coming(m, f))
        /\ (OnWire(m, f)' <=> OnWire(m, f)) /\ (DialsItself(m)' <=> DialsItself(m)) /\ f \in Nat
    BY <1>3, <1>4 DEF EventInv, Coming, OnWire, DialsItself
  <2>2. CASE f = e
    <3>1. ~Has(inbox[m], e) /\ ~OnWire(m, e) /\ ~Coming(m, e) /\ log'[m][e] = Own(m, e)'
      <4>1. ~Has(inbox[m], e) /\ ~OnWire(m, e) /\ ~Coming(m, e)
        BY <1>9, NameIs DEF Coming
      <4>2. log[m][e] = 0
        BY <1>9
      <4>3. CASE m = n
        BY <1>5, <1>6, <4>1, <4>2, <4>3 DEF Own
      <4>4. CASE m # n
        BY <1>4, <1>5, <1>6, <4>1, <4>2, <4>4 DEF Own
      <4> QED BY <4>3, <4>4
    <3>2. ~(e > Len(sent'))
      BY <1>4, <1>5
    <3> QED BY <2>1, <2>2, <3>1, <3>2 DEF Place, Settled
  <2>3. CASE f # e /\ f <= Len(sent)
    <3>1. Settled(m, f)
      BY <1>4, <2>1, <2>3 DEF Place
    <3>2. log'[m][f] = log[m][f] /\ Own(m, f)' = Own(m, f) /\ sent'[f] = sent[f]
      BY <1>5, <1>6, <1>11, <2>3
    <3>3. Settled(m, f)'
      BY <2>1, <3>1, <3>2 DEF Settled
    <3>4. ~(f > Len(sent'))
      BY <1>1, <1>4, <1>5, <2>1, <2>3
    <3> QED BY <3>3, <3>4 DEF Place
  <2>4. CASE f # e /\ f > Len(sent)
    <3>1. f > Len(sent')
      BY <1>1, <1>4, <1>5, <2>1, <2>4
    <3>2. log'[m][f] = 0
      BY <1>6, <2>1, <2>4 DEF Place
    <3> QED BY <3>1, <3>2 DEF Place
  <2> QED BY <1>4, <2>1, <2>2, <2>3, <2>4
<1> QED BY <1>8, <1>10, <1>12, <1>13 DEF EventInv

\* The event goes to names under which an interest is known: node IDs, and not
\* the node's own unless it dials itself.
LEMMA ForwardEvent ==
  ASSUME LinkInv, EventInv, NEW n \in Nodes, ForwardToPeers(n)
  PROVE  EventInv'
<1>1. PICK e : e = hold[n]
  OBVIOUS
<1>2. /\ e \in Events /\ hold' = [hold EXCEPT ![n] = 0] /\ EventTyped
      /\ \A m \in Nodes, x \in Names : m # n => queue'[m][x] = queue[m][x]
      /\ \A x \in Names :
              \/ queue'[n][x] = queue[n][x]
              \/ /\ queue'[n][x] = Append(queue[n][x], e)
                 /\ Len(queue[n][x]) < QueueCap
                 /\ x \in GetInterestedPeers(n, sent[e].topic)
      /\ UNCHANGED <<wire, inbox, log, sent>> /\ queue' \in [Nodes -> Queues]
  BY <1>1, ForwardIs DEF EventInv
<1>3. /\ e <= Len(sent) /\ sent[e].origin = n /\ e # 0 /\ UNCHANGED dial
      /\ \A m \in Nodes : ~Has(inbox[m], e) /\ ~OnWire(m, e) /\ log[m][e] = Own(m, e)
  <2>1. HoldTidy(n) /\ e # 0
    BY <1>2, EventTypes DEF EventInv, Events
  <2> QED BY <1>1, <2>1 DEF HoldTidy, ForwardToPeers, linkVars
<1>4. hold' \in [Nodes -> 0 .. MaxEvents] /\ hold'[n] = 0 /\ \A m \in Nodes : m # n => hold'[m] = hold[m]
  <2>1. hold \in [Nodes -> 0 .. MaxEvents] /\ 0 \in 0 .. MaxEvents
    BY <1>2, Bounds DEF EventTyped
  <2> QED BY <1>2, <2>1
<1>5. \A m \in Nodes, x \in Names : ~Has(queue[m][x], e)
  BY <1>1, <1>2, <1>3 DEF EventInv, QueueTidy
<1>6. ASSUME NEW x \in GetInterestedPeers(n, sent[e].topic), x \in Names
      PROVE  x = Id(x[2]) /\ (x = Id(n) => DialsItself(n))
  <2>1. entry[n][x] # None /\ sent[e].topic \in InterestOf(n, x)
    BY DEF GetInterestedPeers
  <2>2. x = Id(x[2])
    BY <2>1 DEF InterestOf
  <2>3. x = Id(n) => DialsItself(n)
    BY <2>1 DEF LinkInv, NoLoop
  <2> QED BY <2>2, <2>3
<1>7. ASSUME NEW x \in Names
      PROVE  /\ Apart(queue'[n][x]) /\ Len(queue'[n][x]) <= QueueCap
             /\ \A f : Has(queue'[n][x], f) =>
                   \/ Has(queue[n][x], f)
                   \/ f = e /\ x = Id(x[2]) /\ (x = Id(n) => DialsItself(n))
  <2>1. PICK q : q = queue[n][x]
    OBVIOUS
  <2>2. q \in Seq(Events) /\ Apart(q) /\ Len(q) <= QueueCap /\ Len(q) \in Nat
    <3>1. q \in Seq(Events) /\ Len(q) <= QueueCap
      BY <1>2, <2>1, EventTypes
    <3> QED BY <2>1, <3>1 DEF EventInv, QueueTidy
  <2>3. CASE queue'[n][x] = q
    BY <2>1, <2>2, <2>3
  <2>4. CASE /\ queue'[n][x] = Append(q, e) /\ Len(q) < QueueCap
             /\ x \in GetInterestedPeers(n, sent[e].topic)
    <3>1. ~Has(q, e)
      BY <1>5, <2>1
    <3>2. /\ Len(Append(q, e)) = Len(q) + 1 /\ Apart(Append(q, e))
          /\ \A f : Has(Append(q, e), f) <=> Has(q, f) \/ f = e
      BY <1>2, <2>2, <3>1, ApartAppend
    <3>3. Len(queue'[n][x]) <= QueueCap
      BY <2>2, <2>4, <3>2, Bounds
    <3>4. x = Id(x[2]) /\ (x = Id(n) => DialsItself(n))
      BY <1>6, <2>4
    <3> QED BY <2>1, <2>4, <3>2, <3>3, <3>4
  <2> QED BY <1>2, <2>1, <2>3, <2>4
<1>8. EventTyped'
  <2>1. \A m \in Nodes, x \in Names : Len(queue'[m][x]) <= QueueCap
    BY <1>2, <1>7 DEF EventTyped
  <2> QED BY <1>2, <1>4, <2>1 DEF EventTyped
<1>9. ASSUME NEW m \in Nodes, NEW x \in Names PROVE QueueTidy(m, x)'
  <2>1. QueueTidy(m, x)
    BY DEF EventInv
  <2>2. CASE m # n
    BY <1>2, <1>4, <2>1, <2>2 DEF QueueTidy
  <2>3. CASE m = n
    <3>1. ASSUME NEW f \in Events, Has(queue'[n][x], f)
          PROVE  f <= Len(sent) /\ sent[f].origin = n /\ x = Id(x[2]) /\ f # 0
      <4>1. f # 0
        BY EventTypes, Bounds DEF Events
      <4> QED BY <1>3, <1>7, <2>1, <2>3, <3>1, <4>1 DEF QueueTidy
    <3> QED BY <1>2, <1>4, <1>7, <2>3, <3>1 DEF QueueTidy
  <2> QED BY <2>2, <2>3
<1>10. ASSUME NEW m \in Nodes PROVE BoxTidy(m)' /\ WireTidy(m)' /\ HoldTidy(m)'
  <2>1. BoxTidy(m) /\ WireTidy(m) /\ HoldTidy(m)
    BY DEF EventInv
  <2>2. BoxTidy(m)' /\ WireTidy(m)'
    BY <1>2, <2>1 DEF BoxTidy, WireTidy
  <2>3. HoldTidy(m)'
    <3>1. CASE m = n
      BY <1>4, <3>1 DEF HoldTidy
    <3>2. CASE m # n
      BY <1>2, <1>4, <2>1, <3>2 DEF HoldTidy, Own, OnWire
    <3> QED BY <3>1, <3>2
  <2> QED BY <2>2, <2>3
<1>11. ASSUME NEW m \in Nodes, NEW f \in Events PROVE Place(m, f)'
  <2>1. Place(m, f) /\ Own(m, f)' = Own(m, f) /\ (DialsItself(m)' <=> DialsItself(m))
        /\ (OnWire(m, f)' <=> OnWire(m, f))
    BY <1>2, <1>3 DEF EventInv, Own, DialsItself, OnWire
  <2>2. Coming(m, f)' => Coming(m, f) \/ (f = e /\ (m = n => DialsItself(n)))
    <3>1. ASSUME NEW a \in Nodes, Has(queue'[a][Id(m)], f)
          PROVE  Has(queue[a][Id(m)], f) \/ (f = e /\ (m = n => DialsItself(n)))
      <4>1. Id(m) \in Names
        BY NameIs
      <4>2. CASE a = n
        BY <1>7, <3>1, <4>1, <4>2
      <4>3. CASE a # n
        BY <1>2, <3>1, <4>1, <4>3
      <4> QED BY <4>2, <4>3
    <3> QED BY <3>1 DEF Coming
  <2>3. CASE f = e
    <3>1. Settled(m, e)'
      BY <1>2, <1>3, <1>5, <2>1, <2>2, <2>3, NameIs DEF Settled, Coming
    <3>2. ~(e > Len(sent'))
      BY <1>2, <1>3, EventTypes
    <3> QED BY <2>3, <3>1, <3>2 DEF Place
  <2>4. CASE f # e
    BY <1>2, <2>1, <2>2, <2>4 DEF Place, Settled
  <2> QED BY <2>3, <2>4
<1> QED BY <1>8, <1>9, <1>10, <1>11 DEF EventInv

\* A received event is appended once and not passed on.
LEMMA ReceiveEvent ==
  ASSUME EventInv, NEW n \in Nodes, Receive(n)
  PROVE  EventInv'
<1>1. PICK q : q = inbox[n]
  OBVIOUS
<1>2. PICK e, r : e = Head(q) /\ r = Tail(q)
  OBVIOUS
<1>3. /\ q # <<>> /\ inbox' = [inbox EXCEPT ![n] = r] /\ log' = [log EXCEPT ![n][e] = @ + 1]
      /\ UNCHANGED <<queue, wire, hold, sent, dial>> /\ EventTyped
  BY <1>1, <1>2 DEF Receive, linkVars, EventInv
<1>4. q \in Seq(Events) /\ Apart(q) /\ Len(q) <= InCap /\ Len(q) \in Nat
  <2>1. q \in Seq(Events) /\ Apart(q) /\ Len(q) <= InCap
    BY <1>1, <1>3, EventTypes DEF EventInv, BoxTidy
  <2> QED BY <2>1
<1>5. /\ r \in Seq(Events) /\ Len(r) = Len(q) - 1 /\ Apart(r) /\ e \in Events /\ Has(q, e)
      /\ \A f : Has(r, f) <=> Has(q, f) /\ f # e
  <2>1. /\ Tail(q) \in Seq(Events) /\ Len(Tail(q)) = Len(q) - 1 /\ Apart(Tail(q))
        /\ Head(q) \in Events /\ Has(q, Head(q))
        /\ \A f : Has(Tail(q), f) <=> Has(q, f) /\ f # Head(q)
    BY <1>3, <1>4, ApartTail
  <2> QED BY <1>2, <2>1
<1>6. /\ inbox' \in Boxes /\ inbox'[n] = r
      /\ \A m \in Nodes : m # n => inbox'[m] = inbox[m]
  BY <1>3, <1>5 DEF EventTyped, Boxes
<1>7. /\ log' \in [Nodes -> [Events -> Nat]] /\ log'[n][e] = log[n][e] + 1
      /\ \A m \in Nodes, f \in Events : m # n \/ f # e => log'[m][f] = log[m][f]
  <2>1. log \in [Nodes -> [Events -> Nat]]
    BY <1>3 DEF EventTyped
  <2> QED BY <1>3, <1>5, <2>1
<1>8. EventTyped'
  <2>1. \A m \in Nodes : Len(inbox'[m]) <= InCap
    BY <1>3, <1>4, <1>5, <1>6, Bounds DEF EventTyped
  <2> QED BY <1>3, <1>6, <1>7, <2>1 DEF EventTyped
<1>9. \A m \in Nodes, x \in Names : QueueTidy(m, x)'
  BY <1>3 DEF EventInv, QueueTidy
<1>10. e <= Len(sent) /\ Settled(n, e)
  <2>1. BoxTidy(n) /\ Place(n, e)
    BY <1>5 DEF EventInv
  <2>2. e <= Len(sent)
    BY <1>1, <1>5, <2>1 DEF BoxTidy
  <2> QED BY <1>3, <1>5, <2>1, <2>2, EventTypes DEF Place
<1>11. log[n][e] = Own(n, e) /\ ~Coming(n, e) /\ ~OnWire(n, e) /\ (sent[e].origin = n => DialsItself(n))
  BY <1>1, <1>5, <1>10 DEF Settled
<1>12. ASSUME NEW m \in Nodes PROVE BoxTidy(m)' /\ WireTidy(m)' /\ HoldTidy(m)'
  <2>1. BoxTidy(m) /\ WireTidy(m) /\ HoldTidy(m) /\ \A a \in Nodes : \A f : OnWire(a, f)' <=> OnWire(a, f)
    BY <1>3 DEF EventInv, OnWire
  <2>2. BoxTidy(m)' /\ WireTidy(m)'
    <3>1. BoxTidy(m)'
      BY <1>1, <1>3, <1>5, <1>6, <2>1 DEF BoxTidy
    <3> QED BY <1>3, <2>1, <3>1 DEF WireTidy
  <2>3. ASSUME hold[m] # 0
        PROVE  \A a \in Nodes : ~Has(inbox'[a], hold[m]) /\ log'[a][hold[m]] = Own(a, hold[m])'
    <3>1. PICK h : h = hold[m]
      OBVIOUS
    <3>2. h \in Events /\ \A a \in Nodes : ~Has(inbox[a], h) /\ log[a][h] = Own(a, h)
      BY <1>3, <2>1, <2>3, <3>1, EventTypes DEF HoldTidy
    <3>3. h # e
      BY <1>1, <1>5, <3>2
    <3>4. ASSUME NEW a \in Nodes PROVE ~Has(inbox'[a], h) /\ log'[a][h] = Own(a, h)
      BY <1>1, <1>5, <1>6, <1>7, <3>2, <3>3
    <3> QED BY <1>3, <3>1, <3>4 DEF Own
  <2>4. HoldTidy(m)'
    BY <1>3, <2>1, <2>3 DEF HoldTidy, OnWire
  <2> QED BY <2>2, <2>4
<1>13. ASSUME NEW m \in Nodes, NEW f \in Events PROVE Place(m, f)'
  <2>1. /\ Place(m, f) /\ Own(m, f)' = Own(m, f) /\ (DialsItself(m)' <=> DialsItself(m))
        /\ (Coming(m, f)' <=> Coming(m, f)) /\ (OnWire(m, f)' <=> OnWire(m, f))
    BY <1>3 DEF EventInv, Own, DialsItself, Coming, OnWire
  <2>2. CASE m = n /\ f = e
    <3>1. ~Has(inbox'[n], e)
      BY <1>5, <1>6
    <3>2. Settled(n, e)'
      BY <1>3, <1>7, <1>11, <2>1, <2>2, <3>1 DEF Settled
    <3>3. ~(e > Len(sent'))
      BY <1>3, <1>5, <1>10, EventTypes
    <3> QED BY <2>2, <3>2, <3>3 DEF Place
  <2>3. CASE ~(m = n /\ f = e)
    <3>1. (Has(inbox'[m], f) <=> Has(inbox[m], f)) /\ log'[m][f] = log[m][f]
      BY <1>1, <1>5, <1>6, <1>7, <2>3
    <3> QED BY <1>3, <2>1, <3>1 DEF Place, Settled
  <2> QED BY <2>2, <2>3
<1> QED BY <1>8, <1>9, <1>12, <1>13 DEF EventInv

\* EventInv is inductive, given LinkInv.
LEMMA EventStep ==
  ASSUME LinkInv, EventInv, [Next]_vars
  PROVE  EventInv'
<1>1. CASE UNCHANGED vars
  BY <1>1, EventSame DEF vars, linkVars
<1>2. ASSUME NEW d \in PossibleDials, Connect(d) PROVE EventInv'
  BY <1>2, EventSame DEF Connect
<1>3. ASSUME NEW d \in PossibleDials, Establish(d) PROVE EventInv'
  BY <1>3, EventSame DEF Establish
<1>4. ASSUME NEW d \in PossibleDials, NEW n \in Nodes, NEW m \in Nodes, Gossip(d, n, m) PROVE EventInv'
  BY <1>4, EventSame DEF Gossip, linkVars
<1>5. ASSUME NEW n \in Nodes, NEW t \in Topics, Subscribe(n, t) PROVE EventInv'
  BY <1>5, EventSame DEF Subscribe, linkVars
<1> QED BY <1>1, <1>2, <1>3, <1>4, <1>5, BreakEvent, SendFailsEvent, TransmitEvent, ArriveEvent,
           PublishEvent, ForwardEvent, ReceiveEvent DEF Next, Progress, Outside

-----------------------------------------------------------------------------
(* The invariant *)

MeshInv == LinkInv /\ EventInv

\* No event is anywhere at first.
LEMMA MeshInit == Init => MeshInv
<1> SUFFICES ASSUME Init PROVE MeshInv
  OBVIOUS
<1> USE Bounds
<1>1. LinkTyped
  <2>1. PICK D \in SUBSET PossibleDials : dial = [d \in D |-> "todo"]
    BY DEF Init
  <2>2. \A d \in DOMAIN dial : d \in PossibleDials /\ dial[d] \in {"todo", "skipped", "running", "met"}
    BY <2>1
  <2>3. entry \in [Nodes -> [Names -> Entries]]
    BY DEF Init, Entries
  <2>4. /\ up \subseteq DOMAIN dial /\ view \in [Nodes -> [Nodes -> SUBSET Topics]]
        /\ wanted \in [Nodes -> SUBSET Topics]
    BY DEF Init
  <2> QED BY <2>2, <2>3, <2>4 DEF LinkTyped
<1>2. \A n \in Nodes : NoLoop(n)
  BY NameIs DEF Init, NoLoop
<1>3. EventTyped
  <2>1. \A n \in Nodes : /\ inbox[n] = <<>> /\ \A x \in Names : queue[n][x] = <<>>
                        /\ \A d \in PossibleDials : wire[d][n] = <<>>
    BY DEF Init
  <2>2. inbox \in Boxes /\ queue \in [Nodes -> Queues] /\ wire \in [PossibleDials -> Boxes]
    BY DEF Init, Queues, Boxes
  <2>3. hold \in [Nodes -> 0 .. MaxEvents] /\ log \in [Nodes -> [Events -> Nat]]
    BY DEF Init
  <2>4. sent \in Seq([topic : Topics, origin : Nodes]) /\ Len(sent) <= MaxEvents
    BY DEF Init
  <2> QED BY <2>1, <2>2, <2>3, <2>4 DEF EventTyped
<1>4. \A q : q = <<>> => Apart(q) /\ \A e : ~Has(q, e)
  BY DEF Apart, Has
<1>5. \A n \in Nodes, x \in Names : QueueTidy(n, x)
  BY <1>4 DEF Init, QueueTidy
<1>6. \A n \in Nodes : BoxTidy(n) /\ WireTidy(n) /\ HoldTidy(n)
  BY <1>4 DEF Init, BoxTidy, WireTidy, HoldTidy
<1>7. \A m \in Nodes, e \in Events : Place(m, e)
  <2>1. \A e \in Events : e > Len(sent)
    BY DEF Init, Events
  <2> QED BY <2>1 DEF Init, Place
<1> QED BY <1>1, <1>2, <1>3, <1>5, <1>6, <1>7 DEF MeshInv, LinkInv, EventInv

\* node_peer_events.go, grpc.go: every event is in at most one place on its way to
\* each node, whatever links and names lead there.
THEOREM MeshInvariant == Spec => []MeshInv
<1>1. MeshInv /\ [Next]_vars => MeshInv'
  BY LinkStep, EventStep DEF MeshInv
<1> QED BY <1>1, MeshInit, PTL DEF Spec

\* Queues and channels stay within their capacity and hold events only, and the
\* entries are dials that were configured, for every set of nodes and of dials.
THEOREM MeshTypes == Spec => []TypeOK
<1>1. MeshInv => TypeOK
  <2> SUFFICES ASSUME MeshInv PROVE TypeOK
    OBVIOUS
  <2>1. LinkTyped /\ EventTyped
    BY DEF MeshInv, LinkInv, EventInv
  <2>2. \A n \in Nodes, x \in Names : entry[n][x] \in Entries
    BY <2>1 DEF LinkTyped
  <2>3. \A n \in Nodes : hold[n] \in 0 .. MaxEvents
    BY <2>1 DEF EventTyped
  <2> QED BY <2>1, <2>2, <2>3, EventTypes DEF LinkTyped, Entries, TypeOK
<1> QED BY <1>1, MeshInvariant, PTL

\* However many streams and names lead to a node, it gets an event once: in any
\* mesh, whoever dials whom and by whatever names, and whatever breaks.
THEOREM EventOnce == Spec => []OneCopy
<1>1. MeshInv => OneCopy
  BY CopiesBounded DEF MeshInv
<1> QED BY <1>1, MeshInvariant, PTL
=============================================================================
