--------------------------- MODULE MeshNodeProofs ---------------------------
(***************************************************************************)
(* Proofs about a mesh node at work, for every number of publishers,       *)
(* streams, peers, clients and patterns and every bound.                   *)
(*                                                                         *)
(* Every step of the node is a step of its routing table or leaves it      *)
(* alone, so that what RoutingTableProofs shows of the table holds of the  *)
(* node.  NodeInv then relates the table to what accounts for its entries  *)
(* (subscription metadata, streams), and the log to what is under way.     *)
(*                                                                         *)
(* DeliveryInv adds what a publish promises: what is under way or          *)
(* delivered is in the log (LogInv), entries lead to channels that exist   *)
(* (ChanInv, ToInv), publishes are the readers Close waits for             *)
(* (ReadersInv), and an entry that has been there since the append is      *)
(* served or about to be (WatchInv).                                       *)
(***************************************************************************)
EXTENDS MeshNode, RoutingTableProofs, FunctionTheorems

\* The entry of client id for pattern k is in the table.
Has(k, id) == k \in DOMAIN subscriptions /\ id \in subscriptions[k]

ConnStates == {"idle", "on", "ending", "over"}

\* Streams have a client while they may touch the table, and topics of theirs
\* in it only between registration and teardown.
ConnOK ==
  /\ conn \in [Conns -> [st : ConnStates, client : Ids \cup {0}, todo : SUBSET Patterns,
                         topics : SUBSET Patterns, chan : Nat]]
  /\ chans \in Nat
  /\ \A i \in Conns : /\ conn[i].st \in {"on", "ending"} => conn[i].client \in Ids
                      /\ conn[i].st \in {"idle", "over"} => conn[i].topics = {}

SubsOK ==
  /\ subs \subseteq [n : Nat, client : Ids, topic : Patterns]
  /\ deletes \subseteq [n : Nat, client : Ids, topic : Patterns]
  /\ made \in Nat

ClosedEmpty == closed \in BOOLEAN /\ (closed => DOMAIN subscriptions = {})

\* NoOrphanRoute and NoDeadSubscription, in terms of Has.
RoutesOwned ==
  \A k \in Patterns, id \in Ids : Has(k, id) =>
    \/ \E s \in subs : s.client = id /\ s.topic = k
    \/ \E i \in Conns : conn[i].client = id /\ k \in conn[i].topics

SubsServed ==
  ~closed => \A s \in subs : <<s.topic, s.client>> \in torn \/ Has(s.topic, s.client)

\* Typing and TableOK carry the rest; each part is kept by every action.
NodeInv == TableOK /\ ConnOK /\ SubsOK /\ ClosedEmpty /\ RoutesOwned /\ SubsServed

-----------------------------------------------------------------------------
\* What the table's operations do to its entries.
LEMMA SubscribeHas ==
  ASSUME NEW k, NEW id, Subscribe(k, id)
  PROVE  \A k2, id2 : Has(k2, id2)' <=> Has(k2, id2) \/ (k2 = k /\ id2 = id)
<1>1. subscriptions' = [x \in DOMAIN subscriptions \cup {k} |->
                          IF x = k THEN Held(k) \cup {id} ELSE subscriptions[x]]
  BY DEF Subscribe, With
<1>2. DOMAIN subscriptions' = DOMAIN subscriptions \cup {k}
  BY <1>1
<1>3. \A x \in DOMAIN subscriptions' :
        subscriptions'[x] = IF x = k THEN Held(k) \cup {id} ELSE subscriptions[x]
  BY <1>1
<1> QED BY <1>2, <1>3 DEF Has, Held

\* Unsubscribe takes the one entry and no other.
LEMMA UnsubscribeHas ==
  ASSUME NEW k, NEW id, Unsubscribe(k, id)
  PROVE  \A k2, id2 : Has(k2, id2)' <=> Has(k2, id2) /\ ~(k2 = k /\ id2 = id)
<1> DEFINE S == Held(k) \ {id}
<1>1. CASE S = {}
  <2>1. subscriptions' = [x \in DOMAIN subscriptions \ {k} |-> subscriptions[x]]
    BY <1>1 DEF Unsubscribe, With
  <2> QED BY <1>1, <2>1 DEF Has, Held
<1>2. CASE S # {}
  <2>1. subscriptions' = [x \in DOMAIN subscriptions \cup {k} |->
                            IF x = k THEN S ELSE subscriptions[x]]
    BY <1>2 DEF Unsubscribe, With
  <2>2. k \in DOMAIN subscriptions
    BY <1>2 DEF Held
  <2> QED BY <2>1, <2>2 DEF Has, Held
<1> QED BY <1>1, <1>2

-----------------------------------------------------------------------------
\* A table that is left alone keeps its entries.
LEMMA SameHas ==
  ASSUME UNCHANGED vars
  PROVE  TableOK' = TableOK /\ ClosedEmpty' = ClosedEmpty /\ \A k, id : Has(k, id)' = Has(k, id)
BY DEF vars, TableOK, ClosedEmpty, Has

\* Steps that leave the table, the subscriptions and the streams alone.
LEMMA ElsewhereKeeps ==
  ASSUME NodeInv, UNCHANGED <<tableVars, subVars, conn, torn>>
  PROVE  NodeInv' /\ UNCHANGED vars
<1>1. UNCHANGED <<vars, chans, subs, made, deletes, conn, torn>>
  BY DEF tableVars, subVars
<1>2. UNCHANGED closed
  BY <1>1 DEF vars
<1>3. ConnOK' /\ SubsOK'
  BY <1>1 DEF NodeInv, ConnOK, SubsOK
<1>4. RoutesOwned' /\ SubsServed'
  BY <1>1, <1>2, SameHas DEF NodeInv, RoutesOwned, SubsServed
<1> QED BY <1>1, <1>3, <1>4, SameHas DEF NodeInv

\* CreateSubscription: the new entry has metadata, and the metadata an entry.
LEMMA CreateKeeps ==
  ASSUME NodeInv, NEW id \in Ids, NEW k \in Patterns, CreateSubscription(id, k)
  PROVE  NodeInv' /\ Subscribe(k, id)
<1>1. Subscribe(k, id) /\ UNCHANGED <<conn, deletes, closed>> /\ chans' = chans + 1
      /\ subs' = subs \cup {[n |-> made + 1, client |-> id, topic |-> k]} /\ made' = made + 1
      /\ torn' = torn \ {<<k, id>>} /\ ~closed
  BY DEF CreateSubscription, NewChan, Subscribe
<1>2. TableOK'
  BY <1>1, HeldIds, WithKeepsShape DEF Subscribe, NodeInv
<1>3. ConnOK' /\ SubsOK' /\ ClosedEmpty'
  BY <1>1 DEF NodeInv, ConnOK, SubsOK, ClosedEmpty
<1>4. \A k2, id2 : Has(k2, id2)' <=> Has(k2, id2) \/ (k2 = k /\ id2 = id)
  BY <1>1, SubscribeHas
<1> DEFINE new == [n |-> made + 1, client |-> id, topic |-> k]
<1>5. new.client = id /\ new.topic = k /\ subs' = subs \cup {new}
  BY <1>1
<1> HIDE DEF new
<1>6. RoutesOwned'
  <2> SUFFICES ASSUME NEW k2 \in Patterns, NEW id2 \in Ids, Has(k2, id2)'
               PROVE  \/ \E s \in subs' : s.client = id2 /\ s.topic = k2
                      \/ \E i \in Conns : conn'[i].client = id2 /\ k2 \in conn'[i].topics
    BY DEF RoutesOwned
  <2>1. CASE k2 = k /\ id2 = id
    BY <1>5, <2>1
  <2>2. CASE Has(k2, id2)
    BY <1>1, <1>5, <2>2 DEF NodeInv, RoutesOwned
  <2> QED BY <1>4, <2>1, <2>2
<1>7. SubsServed'
  <2> SUFFICES ASSUME NEW s \in subs'
               PROVE  <<s.topic, s.client>> \in torn' \/ Has(s.topic, s.client)'
    BY DEF SubsServed
  <2>1. CASE s = new
    BY <1>4, <1>5, <2>1
  <2>2. CASE s \in subs
    <3>1. <<s.topic, s.client>> \in torn \/ Has(s.topic, s.client)
      BY <1>1, <2>2 DEF NodeInv, SubsServed
    <3>2. <<s.topic, s.client>> = <<k, id>> => s.topic = k /\ s.client = id
      OBVIOUS
    <3> QED BY <1>1, <1>4, <3>1, <3>2
  <2> QED BY <1>5, <2>1, <2>2
<1> QED BY <1>1, <1>2, <1>3, <1>6, <1>7 DEF NodeInv

\* A DELETE takes the entry with all the metadata that would account for it.
LEMMA DeleteKeeps ==
  ASSUME NodeInv, NEW s \in deletes, DeleteApply(s)
  PROVE  NodeInv' /\ (Unsubscribe(s.topic, s.client) \/ UNCHANGED vars)
<1>0. s.topic \in Patterns /\ s.client \in Ids
  BY DEF NodeInv, SubsOK
<1>1. UNCHANGED <<conn, chans, torn, made>> /\ deletes' = deletes \ {s}
  BY DEF DeleteApply
<1>2. CASE Running
  <2>1. Unsubscribe(s.topic, s.client) /\ UNCHANGED closed
        /\ subs' = {x \in subs : x.client # s.client \/ x.topic # s.topic}
    BY <1>2 DEF DeleteApply, Unsubscribe
  <2>2. TableOK'
    BY <1>0, <2>1, HeldIds, WithKeepsShape DEF Unsubscribe, NodeInv
  <2>3. ConnOK' /\ SubsOK' /\ ClosedEmpty'
    BY <1>1, <1>2, <2>1 DEF NodeInv, ConnOK, SubsOK, ClosedEmpty, Running
  <2>4. \A k2, id2 : Has(k2, id2)' <=> Has(k2, id2) /\ ~(k2 = s.topic /\ id2 = s.client)
    BY <2>1, UnsubscribeHas
  <2>5. RoutesOwned'
    BY <1>1, <2>1, <2>4 DEF NodeInv, RoutesOwned
  <2>6. SubsServed'
    BY <1>1, <2>1, <2>4 DEF NodeInv, SubsServed
  <2> QED BY <2>1, <2>2, <2>3, <2>5, <2>6 DEF NodeInv
<1>3. CASE ~Running
  <2>1. UNCHANGED <<vars, subs>>
    BY <1>3 DEF DeleteApply
  <2>2. UNCHANGED closed
    BY <2>1 DEF vars
  <2>3. ConnOK' /\ SubsOK'
    BY <1>1, <2>1 DEF NodeInv, ConnOK, SubsOK
  <2>4. RoutesOwned' /\ SubsServed'
    BY <1>1, <2>1, <2>2, SameHas DEF NodeInv, RoutesOwned, SubsServed
  <2> QED BY <2>1, <2>3, <2>4, SameHas DEF NodeInv
<1> QED BY <1>2, <1>3

\* A stream that opens, ends or is over has nothing in the table, or keeps it.
LEMMA StreamKeeps ==
  ASSUME NodeInv, NEW i \in Conns,
         \/ \E id \in Ids : OpenStream(i, id)
         \/ RegisterFails(i) \/ StreamEnd(i) \/ StreamOver(i)
  PROVE  NodeInv' /\ UNCHANGED vars
<1>1. UNCHANGED <<vars, subs, made, deletes, torn>>
  BY DEF OpenStream, RegisterFails, StreamEnd, StreamOver, subVars, tableVars
<1>2. UNCHANGED closed
  BY <1>1 DEF vars
<1>3. SubsOK' /\ SubsServed' /\ TableOK' /\ ClosedEmpty'
  BY <1>1, <1>2, SameHas DEF NodeInv, SubsOK, SubsServed
<1>4. ConnOK'
  <2>1. ASSUME NEW id \in Ids, OpenStream(i, id) PROVE ConnOK'
    <3> DEFINE todo == {s.topic : s \in {s \in subs : s.client = id}}
    <3>1. todo \subseteq Patterns
      BY DEF NodeInv, SubsOK
    <3>2. conn' = [conn EXCEPT ![i] = [st |-> "on", client |-> id, topics |-> {},
                                       chan |-> chans + 1, todo |-> todo]]
          /\ chans' = chans + 1
      BY <2>1 DEF OpenStream, NewChan
    <3> HIDE DEF todo
    <3> QED BY <3>1, <3>2 DEF NodeInv, ConnOK, ConnStates
  <2>2. CASE RegisterFails(i)
    BY <2>2 DEF RegisterFails, IdleConn, tableVars, NodeInv, ConnOK, ConnStates
  <2>3. CASE StreamEnd(i)
    BY <2>3 DEF StreamEnd, tableVars, NodeInv, ConnOK, ConnStates
  <2>4. CASE StreamOver(i)
    BY <2>4 DEF StreamOver, IdleConn, tableVars, NodeInv, ConnOK, ConnStates
  <2> QED BY <2>1, <2>2, <2>3, <2>4
<1>5. RoutesOwned'
  <2>1. CASE RegisterFails(i)
    <3>1. \A k, id : ~Has(k, id)
      BY <2>1 DEF RegisterFails, NodeInv, ClosedEmpty, Has
    <3> QED BY <1>1, <3>1, SameHas DEF RoutesOwned
  <2>2. CASE ~RegisterFails(i)
    <3>1. \A j \in Conns : conn[j].topics # {} =>
            conn'[j].client = conn[j].client /\ conn'[j].topics = conn[j].topics
      <4>1. ASSUME NEW id \in Ids, OpenStream(i, id) PROVE conn[i].topics = {}
        BY <4>1 DEF OpenStream, NodeInv, ConnOK
      <4>2. CASE StreamEnd(i)
        BY <4>2 DEF StreamEnd, NodeInv, ConnOK
      <4>3. CASE StreamOver(i)
        BY <4>3 DEF StreamOver, NodeInv, ConnOK
      <4>4. \A j \in Conns : j # i => conn'[j] = conn[j]
        BY DEF OpenStream, RegisterFails, StreamEnd, StreamOver, NodeInv, ConnOK
      <4> QED BY <2>2, <4>1, <4>2, <4>3, <4>4
    <3> QED BY <1>1, <3>1, SameHas DEF NodeInv, RoutesOwned
  <2> QED BY <2>1, <2>2
<1> QED BY <1>1, <1>3, <1>4, <1>5 DEF NodeInv

\* A stream accounts for the entry it makes.
LEMMA RegisterKeeps ==
  ASSUME NodeInv, NEW i \in Conns, NEW k \in Patterns, RegisterTopic(i, k)
  PROVE  NodeInv' /\ conn[i].client \in Ids /\ Subscribe(k, conn[i].client)
<1> DEFINE id == conn[i].client
<1>1. Subscribe(k, id) /\ UNCHANGED <<subs, made, deletes, chans, closed>> /\ ~closed
      /\ conn' = [conn EXCEPT ![i].todo = @ \ {k}, ![i].topics = @ \cup {k}]
      /\ torn' = torn \ {<<k, id>>} /\ conn[i].st = "on"
  BY DEF RegisterTopic, Subscribe, subVars
<1>2. id \in Ids
  BY <1>1 DEF NodeInv, ConnOK
<1>3. TableOK'
  BY <1>1, <1>2, HeldIds, WithKeepsShape DEF Subscribe, NodeInv
<1>4. ConnOK' /\ SubsOK' /\ ClosedEmpty'
  BY <1>1 DEF NodeInv, ConnOK, ConnStates, SubsOK, ClosedEmpty
<1>5. \A k2, id2 : Has(k2, id2)' <=> Has(k2, id2) \/ (k2 = k /\ id2 = id)
  BY <1>1, SubscribeHas
<1>6. /\ \A j \in Conns : conn'[j].client = conn[j].client /\ conn[j].topics \subseteq conn'[j].topics
      /\ k \in conn'[i].topics
  BY <1>1 DEF NodeInv, ConnOK
<1>7. RoutesOwned'
  <2> SUFFICES ASSUME NEW k2 \in Patterns, NEW id2 \in Ids, Has(k2, id2)'
               PROVE  \/ \E s \in subs' : s.client = id2 /\ s.topic = k2
                      \/ \E j \in Conns : conn'[j].client = id2 /\ k2 \in conn'[j].topics
    BY DEF RoutesOwned
  <2>1. CASE k2 = k /\ id2 = id
    BY <1>6, <2>1
  <2>2. CASE Has(k2, id2)
    <3>1. \/ \E s \in subs : s.client = id2 /\ s.topic = k2
          \/ \E j \in Conns : conn[j].client = id2 /\ k2 \in conn[j].topics
      BY <2>2 DEF NodeInv, RoutesOwned
    <3>2. subs' = subs
      BY <1>1
    <3> QED BY <1>6, <3>1, <3>2
  <2> QED BY <1>5, <2>1, <2>2
<1>8. SubsServed'
  <2> SUFFICES ASSUME NEW s \in subs
               PROVE  <<s.topic, s.client>> \in torn' \/ Has(s.topic, s.client)'
    BY <1>1 DEF SubsServed
  <2>1. <<s.topic, s.client>> \in torn \/ Has(s.topic, s.client)
    BY <1>1 DEF NodeInv, SubsServed
  <2>2. <<s.topic, s.client>> = <<k, id>> => s.topic = k /\ s.client = id
    OBVIOUS
  <2> QED BY <1>1, <1>5, <2>1, <2>2
<1> QED BY <1>1, <1>2, <1>3, <1>4, <1>7, <1>8 DEF NodeInv

\* A stream's teardown removes the entry with its own claim to it, and says so.
LEMMA UnregisterKeeps ==
  ASSUME NodeInv, NEW i \in Conns, NEW k \in Patterns, UnregisterTopic(i, k)
  PROVE  /\ NodeInv' /\ conn[i].client \in Ids
         /\ Unsubscribe(k, conn[i].client) \/ UNCHANGED vars
<1> DEFINE id == conn[i].client
<1>1. UNCHANGED <<subs, made, deletes, chans>> /\ conn[i].st = "ending"
      /\ conn' = [conn EXCEPT ![i].topics = @ \ {k}]
  BY DEF UnregisterTopic, subVars
<1>2. id \in Ids
  BY <1>1 DEF NodeInv, ConnOK
<1>3. ConnOK' /\ SubsOK'
  BY <1>1 DEF NodeInv, ConnOK, ConnStates, SubsOK
<1>4. \A j \in Conns : /\ conn'[j].client = conn[j].client
                       /\ \A k2 \in conn[j].topics : (j = i /\ k2 = k) \/ k2 \in conn'[j].topics
  BY <1>1 DEF NodeInv, ConnOK
<1>5. CASE closed
  <2>1. UNCHANGED <<vars, torn>>
    BY <1>5 DEF UnregisterTopic
  <2>2. UNCHANGED closed
    BY <2>1 DEF vars
  <2>3. \A k2, id2 : ~Has(k2, id2)'
    BY <1>5, <2>1, SameHas DEF NodeInv, ClosedEmpty, Has
  <2> QED BY <1>2, <1>3, <1>5, <2>1, <2>2, <2>3, SameHas DEF NodeInv, RoutesOwned, SubsServed
<1>6. CASE ~closed
  <2>1. Unsubscribe(k, id) /\ UNCHANGED closed /\ torn' = torn \cup {<<k, id>>}
    BY <1>6 DEF UnregisterTopic, Unsubscribe
  <2>2. TableOK'
    BY <1>2, <2>1, HeldIds, WithKeepsShape DEF Unsubscribe, NodeInv
  <2>3. ClosedEmpty'
    BY <1>6, <2>1 DEF NodeInv, ClosedEmpty
  <2>4. \A k2, id2 : Has(k2, id2)' <=> Has(k2, id2) /\ ~(k2 = k /\ id2 = id)
    BY <2>1, UnsubscribeHas
  <2>5. RoutesOwned'
    BY <1>1, <1>4, <2>4 DEF NodeInv, RoutesOwned
  <2>6. SubsServed'
    BY <1>1, <1>6, <2>1, <2>4 DEF NodeInv, SubsServed
  <2> QED BY <1>2, <1>3, <2>1, <2>2, <2>3, <2>5, <2>6 DEF NodeInv
<1> QED BY <1>5, <1>6

\* DeleteFind only remembers a subscription that is there.
LEMMA FindKeeps ==
  ASSUME NodeInv, NEW s, DeleteFind(s)
  PROVE  NodeInv' /\ UNCHANGED vars
<1>1. UNCHANGED <<vars, subs, made, chans, conn, torn>> /\ s \in subs /\ deletes' = deletes \cup {s}
  BY DEF DeleteFind, tableVars
<1>2. UNCHANGED closed
  BY <1>1 DEF vars
<1>3. ConnOK' /\ SubsOK'
  BY <1>1 DEF NodeInv, ConnOK, SubsOK
<1>4. RoutesOwned' /\ SubsServed'
  BY <1>1, <1>2, SameHas DEF NodeInv, RoutesOwned, SubsServed
<1> QED BY <1>1, <1>3, <1>4, SameHas DEF NodeInv

\* A closed table has no entries left to account for.
LEMMA CloseKeeps ==
  ASSUME NodeInv, NodeClose
  PROVE  NodeInv' /\ Close
<1>1. Close /\ UNCHANGED <<subs, made, deletes, chans, conn, torn>>
  BY DEF NodeClose, Idle, subVars
<1>2. DOMAIN subscriptions' = {} /\ closed' = TRUE
  BY <1>1 DEF Close
<1>3. ConnOK' /\ SubsOK'
  BY <1>1 DEF NodeInv, ConnOK, SubsOK
<1>4. TableOK' /\ ClosedEmpty' /\ RoutesOwned' /\ SubsServed'
  BY <1>2 DEF TableOK, ClosedEmpty, RoutesOwned, SubsServed, Has
<1> QED BY <1>1, <1>3, <1>4 DEF NodeInv

\* Every step keeps NodeInv, and is a step of the routing table or none of it.
LEMMA NodeInductive ==
  NodeInv /\ [NodeNext]_meshVars => NodeInv' /\ [Next]_vars
<1> SUFFICES ASSUME NodeInv, [NodeNext]_meshVars PROVE NodeInv' /\ [Next]_vars
  OBVIOUS
<1>1. CASE UNCHANGED meshVars
  BY <1>1, ElsewhereKeeps DEF meshVars
<1>2. ASSUME NEW p \in Publishers, PublishStep(p) \/ \E topic \in EventTopics : PublishBegin(p, topic)
      PROVE  NodeInv' /\ [Next]_vars
  <2>1. UNCHANGED <<tableVars, subVars, conn, torn>>
    BY <1>2 DEF PublishStep, PublishBegin, PublishAppend, PublishLookup,
                DeliverToLocalSubscribers, DeliverTo, ForwardToPeers, PublishGivesUp
  <2> QED BY <2>1, ElsewhereKeeps
<1>3. ASSUME NEW id \in Ids, NEW k \in Patterns, CreateSubscription(id, k)
      PROVE  NodeInv' /\ [Next]_vars
  BY <1>3, CreateKeeps DEF Next
<1>4. ASSUME NEW s \in subs \cup deletes, DeleteFind(s) \/ DeleteApply(s)
      PROVE  NodeInv' /\ [Next]_vars
  <2>1. CASE DeleteFind(s)
    BY <2>1, FindKeeps
  <2>2. CASE DeleteApply(s)
    <3>1. s \in deletes
      BY <2>2 DEF DeleteApply
    <3>2. s.topic \in Patterns /\ s.client \in Ids
      BY <3>1 DEF NodeInv, SubsOK
    <3> QED BY <2>2, <3>1, <3>2, DeleteKeeps DEF Next
  <2> QED BY <1>4, <2>1, <2>2
<1>5. ASSUME NEW i \in Conns, StreamStep(i) PROVE NodeInv' /\ [Next]_vars
  <2>1. ASSUME NEW k \in Patterns, RegisterTopic(i, k) PROVE NodeInv' /\ [Next]_vars
    BY <2>1, RegisterKeeps DEF Next
  <2>2. ASSUME NEW k \in Patterns, UnregisterTopic(i, k) PROVE NodeInv' /\ [Next]_vars
    BY <2>2, UnregisterKeeps DEF Next
  <2>3. CASE StreamTake(i)
    BY <2>3, ElsewhereKeeps DEF StreamTake
  <2>4. CASE \/ \E id \in Ids : OpenStream(i, id)
             \/ RegisterFails(i) \/ StreamEnd(i) \/ StreamOver(i)
    BY <2>4, StreamKeeps
  <2> QED BY <1>5, <2>1, <2>2, <2>3, <2>4 DEF StreamStep
<1>6. CASE (\E topic \in EventTopics : InboundTake(topic)) \/ InboundAppend \/ InboundDeliver
  BY <1>6, ElsewhereKeeps DEF InboundTake, InboundAppend, InboundDeliver
<1>7. CASE NodeStop \/ NodeStart
  <2>1. UNCHANGED <<tableVars, subVars, conn, torn>>
    BY <1>7 DEF NodeStop, NodeStart, Idle, tableVars
  <2> QED BY <2>1, ElsewhereKeeps
<1>8. CASE NodeClose
  BY <1>8, CloseKeeps DEF Next
<1> QED BY <1>1, <1>2, <1>3, <1>4, <1>5, <1>6, <1>7, <1>8 DEF NodeNext, Request

\* The invariant of the table and its claims holds throughout.
LEMMA NodeInvAlways ==
  NodeSpec => []NodeInv
<1>1. NodeInit => NodeInv
  <2> SUFFICES ASSUME NodeInit PROVE NodeInv
    OBVIOUS
  <2>1. TableOK /\ ClosedEmpty /\ \A k, id : ~Has(k, id)
    BY DEF NodeInit, Init, TableOK, ClosedEmpty, Has
  <2>2. ConnOK
    BY DEF NodeInit, ConnOK, ConnStates, IdleConn
  <2>3. SubsOK /\ SubsServed
    BY DEF NodeInit, SubsOK, SubsServed
  <2> QED BY <2>1, <2>2, <2>3 DEF NodeInv, RoutesOwned
<1> QED BY <1>1, NodeInductive, PTL DEF NodeSpec

\* The mesh node uses its routing table through the table's own operations:
\* whatever handlers, streams and Close do concurrently is a behaviour of
\* RoutingTable.
THEOREM NodeImplementsTable ==
  NodeSpec => Spec
<1>1. NodeInit => Init
  BY DEF NodeInit
<1> QED BY <1>1, NodeInvAlways, NodeInductive, PTL DEF NodeSpec, Spec

\* On a running node an event finds every subscriber whose pattern stands for
\* its topic once, and nobody else.
THEOREM NodeDelivers ==
  NodeSpec => []DeliveredByDenotation
BY NodeImplementsTable, TableDelivers, PTL

\* A running node's table counts exactly the topics with a subscriber.
THEOREM NodeCounts ==
  NodeSpec => []NoEmptyTopic
BY NodeImplementsTable, TableCounts, PTL

\* handlers.go, node_subscriptions.go: every entry of the table is accounted for
\* by a subscription a DELETE can name or by a stream that will take it back,
\* although streams change the table without the node's lock.
THEOREM NoRouteOrphaned ==
  NodeSpec => []NoOrphanRoute
<1>1. NodeInv => NoOrphanRoute
  <2> SUFFICES ASSUME NodeInv, NEW e \in Entries
               PROVE  \/ \E s \in subs : s.client = e[2] /\ s.topic = e[1]
                      \/ \E i \in Conns : conn[i].client = e[2] /\ e[1] \in conn[i].topics
    BY DEF NoOrphanRoute
  <2>1. PICK d \in Keys : /\ d[1] \in DOMAIN subscriptions /\ d[2] \in subscriptions[d[1]]
                          /\ e = <<d[1], d[2], holder[d]>>
    BY DEF Entries
  <2>2. e[1] \in Patterns /\ e[2] \in Ids /\ Has(e[1], e[2])
    BY <2>1 DEF Keys, Has
  <2> QED BY <2>2 DEF NodeInv, RoutesOwned
<1> QED BY <1>1, NodeInvAlways, PTL

\* node_subscriptions.go: a listed subscription is in the table unless a stream
\* of its client has taken the entry away: no DELETE leaves one unserved.
THEOREM NoSubscriptionDead ==
  NodeSpec => []NoDeadSubscription
<1>1. NodeInv => NoDeadSubscription
  <2> SUFFICES ASSUME NodeInv, ~closed, NEW s \in subs, <<s.topic, s.client>> \notin torn
               PROVE  \E e \in Entries : e[1] = s.topic /\ e[2] = s.client
    BY DEF NoDeadSubscription
  <2> DEFINE d == <<s.topic, s.client>>
             e == <<s.topic, s.client, holder[d]>>
  <2>1. Has(s.topic, s.client) /\ s.topic \in Patterns /\ s.client \in Ids
    BY DEF NodeInv, SubsServed, SubsOK
  <2>2. d \in Keys /\ d[1] \in DOMAIN subscriptions /\ d[2] \in subscriptions[d[1]]
    BY <2>1 DEF Keys, Has
  <2>3. e = <<d[1], d[2], holder[d]>>
    OBVIOUS
  <2>4. e \in Entries
    BY <2>2, <2>3 DEF Entries
  <2> QED BY <2>4
<1> QED BY <1>1, NodeInvAlways, PTL
-----------------------------------------------------------------------------
(* The log and what is under way: an event in flight has its own number, and *)
(* is in the log once, from its append on.                                    *)

PubRecs ==
  [pc : {"idle", "append", "lookup", "deliver"}, id : 0 .. MaxEvents,
   topic : EventTopics \cup {<<>>}, to : SUBSET (Patterns \X Ids \X Nat), full : SUBSET Chans,
   res : {"none", "ok", "failed", "error"}]

InbRecs ==
  [pc : {"idle", "append", "deliver"}, id : 0 .. MaxEvents, topic : EventTopics \cup {<<>>},
   life : Nat]

Busy(p) == pub[p].pc # "idle"

FlowTypes ==
  /\ log \in [Events -> Nat] /\ events \in 0 .. MaxEvents
  /\ pub \in [Publishers -> PubRecs] /\ inb \in InbRecs /\ stops \in Nat
  /\ got \in [Chans -> SUBSET Events] /\ queued \in [Peers -> SUBSET Events]
  /\ holder \in [Keys -> Nat] /\ chans \in Nat

\* No two events in flight have the same number.
InFlight ==
  /\ \A p \in Publishers : Busy(p) => pub[p].id \in 1 .. events
  /\ \A p, r \in Publishers : Busy(p) /\ Busy(r) /\ p # r => pub[p].id # pub[r].id
  /\ inb.pc # "idle" => /\ inb.id \in 1 .. events
                        /\ \A p \in Publishers : Busy(p) => pub[p].id # inb.id

\* An event is in the log once from its append on, and not before.
Logged ==
  /\ \A e \in Events : e > events => log[e] = 0
  /\ \A p \in Publishers : Busy(p) => log[pub[p].id] = IF pub[p].pc = "append" THEN 0 ELSE 1
  /\ inb.pc # "idle" => log[inb.id] = IF inb.pc = "append" THEN 0 ELSE 1

LogInv == FlowTypes /\ InFlight /\ Logged /\ PersistedFirst

\* Events are numbered up to their bound.
LEMMA EventNumbers == MaxEvents \in Nat /\ Events = 1 .. MaxEvents
BY MeshNodeAssumption DEF Events

\* What a set of deliveries of event id may leave in the channels.
PutOnly(id) == got' \in [Chans -> SUBSET Events] /\ \A o \in Chans : got'[o] \subseteq got[o] \cup {id}

\* A delivery adds the event it was given to channels and no other event.
LEMMA PutAdds ==
  ASSUME LogInv, NEW to, NEW id \in Events, Put(to, id)
  PROVE  PutOnly(id)
BY DEF LogInv, FlowTypes, Put, PutOnly

\* What forwardToPeers may leave in the queues.
QueueOnly(id) ==
  queued' \in [Peers -> SUBSET Events] /\ \A q \in Peers : queued'[q] \subseteq queued[q] \cup {id}

\* Forwarding adds the event it was given to the peers' queues and no other.
LEMMA QueueAdds ==
  ASSUME LogInv, NEW Q, NEW id \in Events, Queue(Q, id)
  PROVE  QueueOnly(id)
BY DEF LogInv, FlowTypes, Queue, QueueOnly

\* What the entries of the table are, and what is found for a topic.
LEMMA EntriesAre ==
  ASSUME NEW e
  PROVE  e \in Entries <=> \E k \in Patterns, id \in Ids : Has(k, id) /\ e = <<k, id, holder[<<k, id>>]>>
<1>1. ASSUME e \in Entries
      PROVE  \E k \in Patterns, id \in Ids : Has(k, id) /\ e = <<k, id, holder[<<k, id>>]>>
  <2>1. PICK d \in Keys : /\ d[1] \in DOMAIN subscriptions /\ d[2] \in subscriptions[d[1]]
                          /\ e = <<d[1], d[2], holder[d]>>
    BY <1>1 DEF Entries
  <2>2. d[1] \in Patterns /\ d[2] \in Ids /\ Has(d[1], d[2]) /\ d = <<d[1], d[2]>>
    BY <2>1 DEF Keys, Has
  <2> QED BY <2>1, <2>2
<1>2. ASSUME NEW k \in Patterns, NEW id \in Ids, Has(k, id), e = <<k, id, holder[<<k, id>>]>>
      PROVE  e \in Entries
  <2>1. PICK d : d = <<k, id>>
    OBVIOUS
  <2>2. d \in Keys /\ d[1] \in DOMAIN subscriptions /\ d[2] \in subscriptions[d[1]]
        /\ e = <<d[1], d[2], holder[d]>>
    BY <1>2, <2>1 DEF Keys, Has
  <2> QED BY <2>2 DEF Entries
<1> QED BY <1>1, <1>2

\* What a lookup finds, entry by entry.
LEMMA FoundIs ==
  ASSUME NEW topic, NEW e
  PROVE  e \in Found(topic) <=> e \in Entries /\ Matches(e[1], topic)
<1>1. ASSUME e \in Entries
      PROVE  e \in Found(topic) <=> Matches(e[1], topic)
  <2>1. PICK k \in Patterns, id \in Ids : Has(k, id) /\ e = <<k, id, holder[<<k, id>>]>>
    BY <1>1, EntriesAre
  <2>2. e[1] = k /\ e[2] = id
    BY <2>1
  <2>3. e \in Found(topic) <=> <<k, id>> \in GetSubscribers(topic).exact \cup GetSubscribers(topic).wild
    BY <1>1, <2>2 DEF Found
  <2>4. <<k, id>> \in GetSubscribers(topic).exact <=> k = topic
    BY <2>1 DEF GetSubscribers, Held, Has
  <2>5. <<k, id>> \in GetSubscribers(topic).wild <=> k # topic /\ Matches(k, topic)
    BY <2>1 DEF GetSubscribers, Has
  <2> QED BY <2>2, <2>3, <2>4, <2>5, SelfMatch
<1>2. e \in Found(topic) => e \in Entries
  BY DEF Found
<1> QED BY <1>1, <1>2

\* Entries are a pattern, a client and a channel.
LEMMA FoundTyped ==
  ASSUME LogInv, NEW topic
  PROVE  Found(topic) \subseteq Entries /\ Entries \subseteq Patterns \X Ids \X Nat
<1>1. Found(topic) \subseteq Entries
  BY DEF Found
<1>2. ASSUME NEW e \in Entries PROVE e \in Patterns \X Ids \X Nat
  <2>1. PICK k \in Patterns, id \in Ids : e = <<k, id, holder[<<k, id>>]>>
    BY EntriesAre
  <2>2. <<k, id>> \in Keys
    BY DEF Keys
  <2>3. holder[<<k, id>>] \in Nat
    BY <2>2 DEF LogInv, FlowTypes
  <2> QED BY <2>1, <2>3
<1> QED BY <1>1, <1>2
-----------------------------------------------------------------------------
\* What a publisher's record becomes.
PubRec(pc, id, topic, to, full, res) ==
  [pc |-> pc, id |-> id, topic |-> topic, to |-> to, full |-> full, res |-> res]

\* The record of a publish is its six fields.
LEMMA PubIs ==
  ASSUME NEW r \in PubRecs
  PROVE  r = PubRec(r.pc, r.id, r.topic, r.to, r.full, r.res)
BY DEF PubRecs, PubRec

\* pub after each of a publisher's steps.
PubBecomes(p, r) == pub' = [pub EXCEPT ![p] = r]

\* What PublishEvent begins with.
LEMMA BeginMoves ==
  ASSUME NEW p \in Publishers, NEW topic, PublishBegin(p, topic)
  PROVE  PubBecomes(p, PubRec("append", events + 1, topic, {}, {}, "none"))
<1>1. PICK n, r0 : n = events + 1 /\ r0 = [IdlePub EXCEPT !.pc = "append"]
  OBVIOUS
<1>2. PICK ap, zero, tup, none, no : /\ ap = "append" /\ zero = 0 /\ tup = <<>> /\ none = {}
                                     /\ no = "none"
  OBVIOUS
<1>3. r0 = PubRec(ap, zero, tup, none, none, no)
  BY <1>1, <1>2 DEF IdlePub, PubRec
<1>4. [r0 EXCEPT !.id = n] = PubRec(ap, n, tup, none, none, no)
  BY ONLY <1>3 DEF PubRec
<1>5. PICK r1 : r1 = [r0 EXCEPT !.id = n]
  OBVIOUS
<1>6. r1 = PubRec(ap, n, tup, none, none, no)
  BY <1>4, <1>5
<1>7. [r1 EXCEPT !.topic = topic] = PubRec(ap, n, topic, none, none, no)
  BY ONLY <1>6 DEF PubRec
<1> QED BY <1>1, <1>2, <1>5, <1>7 DEF PublishBegin, PubBecomes

\* A publish that returns is idle, has its result, and gives up the read lock.
LEMMA ReturnMoves ==
  ASSUME NEW p \in Publishers, NEW res, PublishReturn(p, res)
  PROVE  PubBecomes(p, PubRec("idle", 0, <<>>, {}, {}, res)) /\ readers' = readers - 1
<1>1. PICK r0, id, zero, tup, none, no :
        /\ r0 = IdlePub /\ id = "idle" /\ zero = 0 /\ tup = <<>> /\ none = {} /\ no = "none"
  OBVIOUS
<1>2. r0 = PubRec(id, zero, tup, none, none, no)
  BY <1>1 DEF IdlePub, PubRec
<1>3. [r0 EXCEPT !.res = res] = PubRec(id, zero, tup, none, none, res)
  BY ONLY <1>2 DEF PubRec
<1> QED BY <1>1, <1>3 DEF PublishReturn, PubBecomes

\* Where each step of a publish leaves it.
LEMMA StepMoves ==
  ASSUME NEW p \in Publishers, FlowTypes, NEW r, r = pub[p]
  PROVE  /\ PublishAppend(p) =>
              PubBecomes(p, PubRec("lookup", r.id, r.topic, r.to, r.full, r.res))
         /\ PublishLookup(p) =>
              PubBecomes(p, PubRec("deliver", r.id, r.topic, Found(r.topic), r.full, r.res))
         /\ \A e : DeliverTo(p, e) =>
              PubBecomes(p, PubRec(r.pc, r.id, r.topic, r.to \ {e}, r.full \cup Overfull({e}), r.res))
<1>1. r \in PubRecs
  BY DEF FlowTypes
<1>2. r = PubRec(r.pc, r.id, r.topic, r.to, r.full, r.res)
  BY <1>1, PubIs
<1>3. PICK i, topic, to, full, res : r = PubRec(r.pc, i, topic, to, full, res)
        /\ i = r.id /\ topic = r.topic /\ to = r.to /\ full = r.full /\ res = r.res
  BY <1>2
<1>4. ASSUME NEW t, NEW v
      PROVE  /\ [r EXCEPT !.pc = v] = PubRec(v, i, topic, to, full, res)
             /\ [[r EXCEPT !.pc = v] EXCEPT !.to = t] = PubRec(v, i, topic, t, full, res)
             /\ [[r EXCEPT !.to = t] EXCEPT !.full = v] = PubRec(r.pc, i, topic, t, v, res)
  <2>1. PICK r1 : r1 = [r EXCEPT !.pc = v]
    OBVIOUS
  <2>2. r1 = PubRec(v, i, topic, to, full, res)
    BY <1>3, <2>1 DEF PubRec
  <2>3. [r1 EXCEPT !.to = t] = PubRec(v, i, topic, t, full, res)
    BY <2>2 DEF PubRec
  <2>4. PICK r2 : r2 = [r EXCEPT !.to = t]
    OBVIOUS
  <2>5. r2 = PubRec(r.pc, i, topic, t, full, res)
    BY <1>3, <2>4 DEF PubRec
  <2>6. [r2 EXCEPT !.full = v] = PubRec(r.pc, i, topic, t, v, res)
    BY <2>5 DEF PubRec
  <2> QED BY <2>1, <2>2, <2>3, <2>4, <2>6
<1>6. PublishAppend(p) => pub' = [pub EXCEPT ![p] = [r EXCEPT !.pc = "lookup"]]
  BY DEF PublishAppend
<1>7. PublishLookup(p) =>
        pub' = [pub EXCEPT ![p] = [[r EXCEPT !.pc = "deliver"] EXCEPT !.to = Found(r.topic)]]
  BY DEF PublishLookup
<1>8. ASSUME NEW e, DeliverTo(p, e)
      PROVE  PubBecomes(p, PubRec(r.pc, i, topic, to \ {e}, full \cup Overfull({e}), res))
  <2>1. PICK t, v : t = to \ {e} /\ v = full \cup Overfull({e})
    OBVIOUS
  <2>2. pub' = [pub EXCEPT ![p] = [[r EXCEPT !.to = t] EXCEPT !.full = v]]
    BY <1>3, <1>8, <2>1 DEF DeliverTo
  <2> QED BY <1>4, <2>1, <2>2 DEF PubBecomes
<1>9. PICK found : found = Found(r.topic)
  OBVIOUS
<1>10. /\ [r EXCEPT !.pc = "lookup"] = PubRec("lookup", i, topic, to, full, res)
       /\ [[r EXCEPT !.pc = "deliver"] EXCEPT !.to = found] = PubRec("deliver", i, topic, found, full, res)
  BY ONLY <1>4
<1> QED BY <1>3, <1>6, <1>7, <1>8, <1>9, <1>10 DEF PubBecomes

\* The other publishers stay where they are.
LEMMA PubOthers ==
  ASSUME FlowTypes, NEW p \in Publishers, NEW r, PubBecomes(p, r)
  PROVE  pub'[p] = r /\ \A x \in Publishers : x # p => pub'[x] = pub[x]
BY DEF FlowTypes, PubBecomes
\* Steps that have nothing to do with events.
LEMMA LogElsewhere ==
  ASSUME LogInv, UNCHANGED <<log, events, pub, inb, got, queued>>,
         holder' \in [Keys -> Nat], chans' \in Nat, stops' \in Nat
  PROVE  LogInv'
<1>1. FlowTypes'
  BY DEF LogInv, FlowTypes
<1>2. InFlight' /\ Logged' /\ PersistedFirst'
  BY DEF LogInv, InFlight, Logged, PersistedFirst, Busy
<1> QED BY <1>1, <1>2 DEF LogInv

\* An event's deliveries after its append leave only logged events behind.
LEMMA DeliveriesLogged ==
  ASSUME LogInv, UNCHANGED log, NEW id \in Events, log[id] > 0,
         got' = got \/ PutOnly(id), queued' = queued \/ QueueOnly(id)
  PROVE  PersistedFirst' /\ got' \in [Chans -> SUBSET Events] /\ queued' \in [Peers -> SUBSET Events]
<1>1. \A o \in Chans : got'[o] \subseteq got[o] \cup {id}
  BY DEF PutOnly
<1>2. \A q \in Peers : queued'[q] \subseteq queued[q] \cup {id}
  BY DEF QueueOnly
<1>3. PersistedFirst'
  BY <1>1, <1>2 DEF LogInv, PersistedFirst
<1> QED BY <1>3 DEF LogInv, FlowTypes, PutOnly, QueueOnly

\* A publisher that is past its append moves on, or any returns.
LEMMA PublisherMovesOn ==
  ASSUME LogInv, NEW p \in Publishers, NEW r \in PubRecs, PubBecomes(p, r), Busy(p),
         UNCHANGED <<log, events, inb, stops, holder, chans>>,
         r.pc = "idle" \/ (r.id = pub[p].id /\ r.pc # "append" /\ pub[p].pc # "append"),
         \/ UNCHANGED <<got, queued>>
         \/ /\ pub[p].pc # "append"
            /\ got' = got \/ PutOnly(pub[p].id)
            /\ queued' = queued \/ QueueOnly(pub[p].id)
  PROVE  LogInv'
<1>1. pub'[p] = r /\ \A x \in Publishers : x # p => pub'[x] = pub[x]
  BY PubOthers DEF LogInv
<1>2. pub[p].id \in Events /\ (pub[p].pc # "append" => log[pub[p].id] = 1)
  <2>1. pub[p].id \in 1 .. events /\ events \in 0 .. MaxEvents
    BY DEF LogInv, FlowTypes, InFlight
  <2> QED BY <2>1, EventNumbers DEF LogInv, Logged
<1>3. PersistedFirst' /\ got' \in [Chans -> SUBSET Events] /\ queued' \in [Peers -> SUBSET Events]
  <2>1. CASE UNCHANGED <<got, queued>>
    BY <2>1 DEF LogInv, FlowTypes, PersistedFirst
  <2>2. CASE ~UNCHANGED <<got, queued>>
    BY <1>2, <2>2, DeliveriesLogged
  <2> QED BY <2>1, <2>2
<1>4. FlowTypes'
  BY <1>3 DEF LogInv, FlowTypes, PubBecomes
<1>5. InFlight'
  BY <1>1 DEF LogInv, InFlight, Busy
<1>6. Logged'
  BY <1>1, <1>2 DEF LogInv, Logged, Busy
<1> QED BY <1>3, <1>4, <1>5, <1>6 DEF LogInv

\* A publisher's steps keep LogInv: it appends before it delivers or forwards.
LEMMA PublisherLogs ==
  ASSUME LogInv, NEW p \in Publishers, PublishStep(p) \/ \E topic \in EventTopics : PublishBegin(p, topic),
         UNCHANGED stops
  PROVE  LogInv'
<1> DEFINE r == pub[p]
<1>0. r \in PubRecs /\ FlowTypes
  BY DEF LogInv, FlowTypes
<1>1. r = PubRec(r.pc, r.id, r.topic, r.to, r.full, r.res)
  BY <1>0, PubIs
<1>2. Busy(p) => r.id \in Events /\ r.id \in 1 .. events
  BY EventNumbers DEF LogInv, FlowTypes, InFlight
<1>3. ASSUME NEW topic \in EventTopics, PublishBegin(p, topic) PROVE LogInv'
  <2> DEFINE n == PubRec("append", events + 1, topic, {}, {}, "none")
  <2>1. PubBecomes(p, n) /\ events' = events + 1 /\ events + 1 \in Events /\ r.pc = "idle"
        /\ UNCHANGED <<log, inb, got, queued, holder, chans>>
    <3>1. PubBecomes(p, n)
      BY <1>3, BeginMoves
    <3>2. events < MaxEvents /\ events' = events + 1 /\ r.pc = "idle"
          /\ UNCHANGED <<log, inb, got, queued, holder, chans>>
      BY <1>3 DEF PublishBegin, chanVars, tableVars
    <3>3. events + 1 \in Events
      BY <1>0, <3>2, EventNumbers DEF FlowTypes
    <3> QED BY <3>1, <3>2, <3>3
  <2>2. n \in PubRecs /\ n.pc = "append" /\ n.id = events + 1
    BY <2>1, EventNumbers DEF PubRec, PubRecs
  <2> HIDE DEF n
  <2>3. pub'[p] = n /\ \A x \in Publishers : x # p => pub'[x] = pub[x]
    BY <1>0, <2>1, PubOthers
  <2>4. events \in Nat
    BY DEF LogInv, FlowTypes
  <2>5. FlowTypes'
    BY <2>1, <2>2, EventNumbers DEF LogInv, FlowTypes, PubBecomes
  <2>6. InFlight'
    BY <2>1, <2>2, <2>3, <2>4 DEF LogInv, InFlight, Busy
  <2>7. Logged'
    BY <2>1, <2>2, <2>3, <2>4, EventNumbers DEF LogInv, Logged, Busy
  <2>8. PersistedFirst'
    BY <2>1 DEF LogInv, PersistedFirst
  <2> QED BY <2>5, <2>6, <2>7, <2>8 DEF LogInv
<1>4. CASE PublishAppend(p)
  <2> DEFINE n == PubRec("lookup", r.id, r.topic, r.to, r.full, r.res)
  <2>1. PubBecomes(p, n) /\ r.pc = "append" /\ log' = [log EXCEPT ![r.id] = @ + 1]
        /\ UNCHANGED <<events, inb, got, queued, holder, chans>>
    BY <1>0, <1>4, StepMoves DEF PublishAppend, chanVars, tableVars
  <2>2. n \in PubRecs /\ n.pc = "lookup" /\ n.id = r.id
    BY <1>0 DEF PubRec, PubRecs
  <2> HIDE DEF n
  <2>3. pub'[p] = n /\ \A x \in Publishers : x # p => pub'[x] = pub[x]
    BY <1>0, <2>1, PubOthers
  <2>4. Busy(p) /\ log[r.id] = 0 /\ r.id \in Events /\ r.id <= events /\ events \in Nat
    BY <1>2, <2>1, EventNumbers DEF LogInv, Logged, FlowTypes, Busy
  <2>5. log' \in [Events -> Nat] /\ log'[r.id] = 1 /\ \A e \in Events : e # r.id => log'[e] = log[e]
    BY <2>1, <2>4 DEF LogInv, FlowTypes
  <2>6. FlowTypes'
    BY <2>1, <2>2, <2>5 DEF LogInv, FlowTypes, PubBecomes
  <2>7. InFlight'
    BY <2>1, <2>2, <2>3, <2>4 DEF LogInv, InFlight, Busy
  <2>8. Logged'
    <3>1. \A e \in Events : e > events => log'[e] = 0
      BY <2>4, <2>5, EventNumbers DEF LogInv, Logged
    <3>2. ASSUME NEW x \in Publishers, x # p, Busy(x)
          PROVE  log'[pub[x].id] = log[pub[x].id]
      BY <2>4, <2>5, <3>2, EventNumbers DEF LogInv, InFlight, FlowTypes
    <3>3. inb.pc # "idle" => log'[inb.id] = log[inb.id]
      BY <2>4, <2>5, EventNumbers DEF LogInv, InFlight, FlowTypes
    <3> QED BY <2>1, <2>2, <2>3, <2>5, <3>1, <3>2, <3>3 DEF LogInv, Logged, Busy
  <2>9. PersistedFirst'
    BY <2>1, <2>4, <2>5 DEF LogInv, PersistedFirst, FlowTypes
  <2> QED BY <2>6, <2>7, <2>8, <2>9 DEF LogInv
<1>5. CASE PublishLookup(p)
  <2> DEFINE n == PubRec("deliver", r.id, r.topic, Found(r.topic), r.full, r.res)
  <2>1. PubBecomes(p, n) /\ r.pc = "lookup" /\ UNCHANGED <<log, events, inb, got, queued, holder, chans>>
    BY <1>0, <1>5, StepMoves DEF PublishLookup, chanVars, tableVars, logVars
  <2>2. n \in PubRecs /\ n.pc = "deliver" /\ n.id = r.id
    BY <1>0, FoundTyped DEF PubRec, PubRecs
  <2> HIDE DEF n
  <2> QED BY <2>1, <2>2, PublisherMovesOn DEF Busy
<1>6. ASSUME NEW e, DeliverTo(p, e) PROVE LogInv'
  <2> DEFINE n == PubRec(r.pc, r.id, r.topic, r.to \ {e}, r.full \cup Overfull({e}), r.res)
  <2>1. PubBecomes(p, n) /\ r.pc = "deliver" /\ UNCHANGED <<log, events, inb, queued, holder, chans>>
    BY <1>0, <1>6, StepMoves DEF DeliverTo, tableVars, logVars
  <2>2. n \in PubRecs /\ n.pc = "deliver" /\ n.id = r.id
    BY <1>0, <2>1 DEF PubRec, PubRecs, Overfull
  <2>3. PutOnly(r.id)
    BY <1>2, <1>6, <2>1, PutAdds DEF DeliverTo, Busy
  <2> HIDE DEF n
  <2> QED BY <2>1, <2>2, <2>3, PublisherMovesOn DEF Busy
<1>7. ASSUME NEW res \in {"ok", "failed", "error"}, PublishReturn(p, res), Busy(p),
             UNCHANGED <<log, events, inb, holder, chans>>,
             \/ UNCHANGED <<got, queued>>
             \/ r.pc # "append" /\ (got' = got \/ PutOnly(r.id)) /\ (queued' = queued \/ QueueOnly(r.id))
      PROVE  LogInv'
  <2> DEFINE n == PubRec("idle", 0, <<>>, {}, {}, res)
  <2>1. n \in PubRecs /\ n.pc = "idle"
    BY EventNumbers DEF PubRec, PubRecs
  <2>2. PubBecomes(p, n)
    BY <1>7, ReturnMoves
  <2> HIDE DEF n
  <2> QED BY <1>7, <2>1, <2>2, PublisherMovesOn
<1>8. CASE ForwardToPeers(p)
  <2>1. PICK Q : Queue(Q, r.id) /\ PublishReturn(p, IF r.full = {} /\ Q = Reached THEN "ok" ELSE "failed")
    BY <1>8 DEF ForwardToPeers
  <2>2. r.pc = "deliver" /\ Busy(p) /\ UNCHANGED <<log, events, inb, got, holder, chans>>
    BY <1>8 DEF ForwardToPeers, Busy, tableVars, chanVars, logVars
  <2>3. QueueOnly(r.id)
    BY <1>2, <2>1, <2>2, QueueAdds
  <2> QED BY <1>7, <2>1, <2>2, <2>3
<1>9. CASE PublishGivesUp(p)
  <2>1. PublishReturn(p, "error") /\ Busy(p) /\ UNCHANGED <<log, events, inb, got, holder, chans>>
    BY <1>9 DEF PublishGivesUp, Busy, tableVars, logVars, chanVars
  <2>2. CASE r.pc = "append" /\ UNCHANGED queued
    BY <1>7, <2>1, <2>2
  <2>3. ASSUME NEW Q, r.pc = "deliver", Queue(Q, r.id) PROVE LogInv'
    BY <1>2, <1>7, <2>1, <2>3, QueueAdds
  <2> QED BY <1>9, <2>2, <2>3 DEF PublishGivesUp
<1> QED BY <1>3, <1>4, <1>5, <1>6, <1>8, <1>9 DEF PublishStep, DeliverToLocalSubscribers
\* The consumer of events from peers.
LEMMA InboundLogs ==
  ASSUME LogInv, (\E topic \in EventTopics : InboundTake(topic)) \/ InboundAppend \/ InboundDeliver,
         UNCHANGED stops
  PROVE  LogInv'
<1>0. UNCHANGED <<pub, queued, holder, chans>> /\ events \in Nat /\ stops \in Nat /\ inb \in InbRecs
  BY DEF InboundTake, InboundAppend, InboundDeliver, tableVars, LogInv, FlowTypes
<1>1. ASSUME NEW topic \in EventTopics, InboundTake(topic) PROVE LogInv'
  <2>1. /\ inb.pc = "idle" /\ events < MaxEvents /\ events' = events + 1
        /\ inb' = [pc |-> "append", id |-> events + 1, topic |-> topic, life |-> stops]
        /\ UNCHANGED <<log, got>>
    BY <1>1 DEF InboundTake, chanVars
  <2>2. inb' \in InbRecs /\ inb'.pc = "append" /\ inb'.id = events + 1 /\ events + 1 \in Events
    BY <1>0, <2>1, EventNumbers DEF InbRecs
  <2>3. FlowTypes'
    BY <1>0, <2>1, <2>2, EventNumbers DEF LogInv, FlowTypes
  <2>4. InFlight'
    BY <1>0, <2>1, <2>2 DEF LogInv, InFlight, Busy
  <2>5. Logged'
    BY <1>0, <2>1, <2>2, EventNumbers DEF LogInv, Logged, Busy
  <2>6. PersistedFirst'
    BY <1>0, <2>1 DEF LogInv, PersistedFirst
  <2> QED BY <2>3, <2>4, <2>5, <2>6 DEF LogInv
<1>2. NoInbound \in InbRecs /\ NoInbound.pc = "idle"
  BY EventNumbers DEF NoInbound, InbRecs
<1>3. ASSUME inb' = NoInbound, UNCHANGED <<log, events, got>> PROVE LogInv'
  <2>1. FlowTypes' /\ PersistedFirst'
    BY <1>0, <1>2, <1>3 DEF LogInv, FlowTypes, PersistedFirst
  <2>2. InFlight' /\ Logged'
    BY <1>0, <1>2, <1>3 DEF LogInv, InFlight, Logged, Busy
  <2> QED BY <2>1, <2>2 DEF LogInv
<1>4. inb.pc # "idle" => inb.id \in Events /\ inb.id <= events
  BY <1>0, EventNumbers DEF LogInv, InFlight, FlowTypes
<1>5. CASE InboundAppend
  <2>1. inb.pc = "append" /\ UNCHANGED <<events, got>>
    BY <1>5 DEF InboundAppend, chanVars
  <2>2. CASE inb' = NoInbound /\ UNCHANGED log
    BY <1>3, <2>1, <2>2
  <2>3. CASE log' = [log EXCEPT ![inb.id] = @ + 1] /\ inb' = [inb EXCEPT !.pc = "deliver"]
    <3>1. log' = [log EXCEPT ![inb.id] = @ + 1] /\ inb' = [inb EXCEPT !.pc = "deliver"]
      BY <2>3
    <3>2. inb' \in InbRecs /\ inb'.pc = "deliver" /\ inb'.id = inb.id
      BY <1>0, <3>1 DEF InbRecs
    <3>3. log[inb.id] = 0 /\ inb.id \in Events
      BY <1>4, <2>1 DEF LogInv, Logged
    <3>4. log' \in [Events -> Nat] /\ log'[inb.id] = 1
          /\ \A e \in Events : e # inb.id => log'[e] = log[e]
      BY <3>1, <3>3 DEF LogInv, FlowTypes
    <3>5. FlowTypes'
      BY <1>0, <2>1, <3>2, <3>4 DEF LogInv, FlowTypes
    <3>6. InFlight'
      BY <1>0, <2>1, <3>2 DEF LogInv, InFlight, Busy
    <3>7. Logged'
      <4>1. \A e \in Events : e > events => log'[e] = 0
        BY <1>0, <1>4, <2>1, <3>4, EventNumbers DEF LogInv, Logged
      <4>2. ASSUME NEW p \in Publishers, Busy(p) PROVE log'[pub[p].id] = log[pub[p].id]
        BY <2>1, <3>4, <4>2, EventNumbers DEF LogInv, InFlight, FlowTypes
      <4> QED BY <1>0, <2>1, <3>2, <3>4, <4>1, <4>2 DEF LogInv, Logged, Busy
    <3>8. PersistedFirst'
      BY <1>0, <2>1, <3>3, <3>4 DEF LogInv, PersistedFirst, FlowTypes
    <3> QED BY <3>5, <3>6, <3>7, <3>8 DEF LogInv
  <2> QED BY <1>5, <2>2, <2>3 DEF InboundAppend
<1>6. CASE InboundDeliver
  <2>1. inb.pc = "deliver" /\ Put(Found(inb.topic), inb.id) /\ inb' = NoInbound /\ UNCHANGED <<log, events>>
    BY <1>6 DEF InboundDeliver, logVars
  <2>2. log[inb.id] = 1 /\ inb.id \in Events
    BY <1>4, <2>1 DEF LogInv, Logged
  <2>3. PutOnly(inb.id)
    BY <2>1, <2>2, PutAdds
  <2>4. PersistedFirst' /\ got' \in [Chans -> SUBSET Events]
    BY <1>0, <2>1, <2>2, <2>3, DeliveriesLogged
  <2>5. FlowTypes'
    BY <1>0, <1>2, <2>1, <2>4 DEF LogInv, FlowTypes
  <2>6. InFlight' /\ Logged'
    BY <1>0, <1>2, <2>1 DEF LogInv, InFlight, Logged, Busy
  <2> QED BY <2>4, <2>5, <2>6 DEF LogInv
<1> QED BY <1>1, <1>5, <1>6

\* An entry is given a channel that is a number.
LEMMA HoldTyped ==
  ASSUME LogInv, NEW k \in Patterns, NEW id \in Ids, NEW o \in Nat, Hold(k, id, o)
  PROVE  holder' \in [Keys -> Nat]
<1>1. PICK d : d = <<k, id>>
  OBVIOUS
<1>2. d \in Keys /\ holder' = [holder EXCEPT ![d] = o]
  BY <1>1 DEF Keys, Hold
<1> QED BY <1>2 DEF LogInv, FlowTypes

\* LogInv is inductive, given NodeInv.
LEMMA LogInductive ==
  ASSUME NodeInv, LogInv, [NodeNext]_meshVars
  PROVE  LogInv'
<1>0. holder \in [Keys -> Nat] /\ chans \in Nat /\ stops \in Nat
  BY DEF LogInv, FlowTypes
<1>1. CASE UNCHANGED meshVars
  BY <1>0, <1>1, LogElsewhere DEF meshVars, logVars, chanVars, tableVars, runVars
<1>2. ASSUME NEW id \in Ids, NEW k \in Patterns, CreateSubscription(id, k), UNCHANGED stops
      PROVE  LogInv'
  <2>1. Hold(k, id, chans + 1) /\ chans' = chans + 1
        /\ UNCHANGED <<log, events, pub, inb, got, queued>>
    BY <1>2 DEF CreateSubscription, NewChan, logVars, chanVars
  <2>2. holder' \in [Keys -> Nat]
    BY <1>0, <2>1, HoldTyped
  <2> QED BY <1>0, <1>2, <2>1, <2>2, LogElsewhere
<1>3. ASSUME NEW s \in subs \cup deletes, DeleteFind(s) \/ DeleteApply(s), UNCHANGED stops
      PROVE  LogInv'
  <2>1. UNCHANGED <<log, events, pub, inb, got, queued, chans>>
    BY <1>3 DEF DeleteFind, DeleteApply, logVars, chanVars, tableVars
  <2>2. s.topic \in Patterns /\ s.client \in Ids
    BY DEF NodeInv, SubsOK
  <2>3. holder' = holder \/ Hold(s.topic, s.client, 0)
    BY <1>3 DEF DeleteFind, DeleteApply, tableVars
  <2>4. holder' \in [Keys -> Nat]
    BY <1>0, <2>2, <2>3, HoldTyped
  <2> QED BY <1>0, <1>3, <2>1, <2>4, LogElsewhere
<1>4. ASSUME NEW i \in Conns, StreamStep(i), UNCHANGED stops
      PROVE  LogInv'
  <2>1. UNCHANGED <<log, events, pub, inb, got, queued>> /\ chans' \in {chans, chans + 1}
    BY <1>4 DEF StreamStep, OpenStream, RegisterTopic, UnregisterTopic, RegisterFails, StreamTake,
                StreamEnd, StreamOver, logVars, chanVars, tableVars, NewChan
  <2>2. \/ holder' = holder
        \/ \E k \in Patterns : /\ conn[i].st \in {"on", "ending"}
                               /\ Hold(k, conn[i].client, conn[i].chan) \/ Hold(k, conn[i].client, 0)
    BY <1>4 DEF StreamStep, OpenStream, RegisterTopic, UnregisterTopic, RegisterFails, StreamTake,
                StreamEnd, StreamOver, tableVars
  <2>3. conn[i].chan \in Nat /\ (conn[i].st \in {"on", "ending"} => conn[i].client \in Ids)
    BY DEF NodeInv, ConnOK
  <2>4. holder' \in [Keys -> Nat]
    BY <1>0, <2>2, <2>3, HoldTyped
  <2> QED BY <1>0, <1>4, <2>1, <2>4, LogElsewhere
<1>5. CASE NodeStop \/ NodeStart \/ NodeClose
  <2>1. UNCHANGED <<log, events, pub, inb, got, queued, chans>> /\ stops' \in {stops, stops + 1}
    BY <1>5 DEF NodeStop, NodeStart, NodeClose, Idle, logVars, chanVars
  <2>2. holder' \in [Keys -> Nat]
    BY <1>0, <1>5 DEF NodeStop, NodeStart, NodeClose
  <2> QED BY <1>0, <2>1, <2>2, LogElsewhere
<1>6. CASE Request /\ UNCHANGED runVars
  <2>1. UNCHANGED stops
    BY <1>6 DEF runVars
  <2> QED BY <1>2, <1>3, <1>4, <1>6, <2>1, PublisherLogs, InboundLogs DEF Request
<1> QED BY <1>1, <1>5, <1>6 DEF NodeNext

\* LogInv holds throughout.
LEMMA LogInvAlways == NodeSpec => []LogInv
<1>1. ASSUME NodeInit PROVE LogInv
  <2>1. FlowTypes
    BY <1>1, EventNumbers DEF NodeInit, FlowTypes, IdlePub, PubRecs, NoInbound, InbRecs
  <2>2. InFlight /\ Logged /\ PersistedFirst
    BY <1>1, EventNumbers DEF NodeInit, InFlight, Logged, PersistedFirst, Busy, IdlePub, NoInbound
  <2> QED BY <2>1, <2>2 DEF LogInv
<1> QED BY <1>1, LogInductive, NodeInvAlways, PTL DEF NodeSpec

\* REQ-MNODE-002, node_publish.go and node_peer_events.go: an event that a subscriber's
\* channel or a peer's queue has ever held is in the log, however publishes,
\* events from peers, cancellations, Stop and Close interleave.
THEOREM LogBeforeDelivery == NodeSpec => []PersistedFirst
<1>1. LogInv => PersistedFirst
  BY DEF LogInv
<1> QED BY <1>1, LogInvAlways, PTL
-----------------------------------------------------------------------------
(* Channels and the node's lock: every entry delivers to a channel that was   *)
(* made, no channel is filled beyond its capacity, and the node is not closed *)
(* under a publish.                                                           *)

Opened == {i \in Conns : conn[i].st # "idle"}
BusyPublishers == {p \in Publishers : pub[p].pc # "idle"}

\* There is a channel for every subscription and every stream there may be.
LEMMA ChanNumbers ==
  /\ MaxSubs \in Nat /\ Cardinality(Conns) \in Nat /\ IsFiniteSet(Conns)
  /\ Chans = 1 .. MaxSubs + Cardinality(Conns)
  /\ IsFiniteSet(Chans) /\ Cardinality(Chans) = MaxSubs + Cardinality(Conns)
<1>1. MaxSubs \in Nat /\ Cardinality(Conns) \in Nat /\ IsFiniteSet(Conns)
  BY MeshNodeAssumption, FS_CardinalityType
<1>2. PICK n : n = MaxSubs + Cardinality(Conns)
  OBVIOUS
<1>3. n \in Nat /\ Chans = 1 .. n
  BY <1>1, <1>2 DEF Chans
<1>4. IsFiniteSet(1 .. n) /\ Cardinality(1 .. n) = n
  BY <1>3, FS_Interval
<1> QED BY <1>1, <1>2, <1>3, <1>4

\* There are finitely many possible entries.
LEMMA RoutesFinite == IsFiniteSet(Patterns \X Ids \X Chans)
<1> DEFINE S == Patterns \X Ids \X Chans
           T == (Patterns \X Ids) \X Chans
           f == [e \in S |-> <<<<e[1], e[2]>>, e[3]>>]
<1>1. IsFiniteSet(T)
  BY FiniteAssumption, ChanNumbers, FS_Product
<1>2. f \in [S -> T]
  OBVIOUS
<1>3. \A a, b \in S : f[a] = f[b] => a = b
  OBVIOUS
<1> HIDE DEF f, S, T
<1>4. f \in Injection(S, T)
  BY <1>2, <1>3, Fun_IsInj
<1>5. IsFiniteSet(S)
  BY <1>1, <1>4, FS_Injection
<1> QED BY <1>5 DEF S

\* The least of two numbers.
LEMMA MinOfTwo ==
  ASSUME NEW a \in Int, NEW b \in Int
  PROVE  Min({a, b}) \in {a, b} /\ Min({a, b}) <= a /\ Min({a, b}) <= b
<1>1. \E x \in {a, b} : \A y \in {a, b} : x <= y
  <2>1. CASE a <= b
    BY <2>1
  <2>2. CASE b <= a
    BY <2>2
  <2> QED BY <2>1, <2>2
<1> QED BY <1>1 DEF Min

ChanInv ==
  /\ made \in 0 .. MaxSubs
  /\ chans = made + Cardinality(Opened)
  /\ \A d \in Keys : holder[d] \in 0 .. chans
  /\ \A k \in Patterns, id \in Ids : Has(k, id) => holder[<<k, id>>] # 0
  /\ \A i \in Conns : conn[i].st \in {"on", "ending"} => conn[i].chan \in 1 .. chans
  /\ subs \cup deletes \subseteq [n : 1 .. MaxSubs, client : Ids, topic : Patterns]
  /\ fill \in [Chans -> 0 .. ChanCap]

\* Whoever publishes holds the read lock, which Close waits for.
ReadersInv ==
  /\ readers = Cardinality(BusyPublishers)
  /\ closed => BusyPublishers = {}

\* What was looked up, for a publisher about to deliver.
ToInv == \A p \in Publishers : pub[p].to \subseteq Patterns \X Ids \X Chans

\* The channels made so far are among the possible ones.
LEMMA ChansMade ==
  ASSUME ChanInv
  PROVE  1 .. chans \subseteq Chans /\ chans \in Nat /\ chans <= Cardinality(Chans)
<1>1. IsFiniteSet(Opened) /\ Cardinality(Opened) <= Cardinality(Conns) /\ Cardinality(Opened) \in Nat
  <2>1. Opened \in SUBSET Conns
    BY DEF Opened
  <2> QED BY <2>1, ChanNumbers, FS_Subset, FS_CardinalityType
<1> QED BY <1>1, ChanNumbers DEF ChanInv

\* An entry leads to a channel that was made.
LEMMA EntryChans ==
  ASSUME ChanInv
  PROVE  Entries \subseteq Patterns \X Ids \X Chans
<1> SUFFICES ASSUME NEW e \in Entries PROVE e \in Patterns \X Ids \X Chans
  OBVIOUS
<1>1. PICK k \in Patterns, id \in Ids : Has(k, id) /\ e = <<k, id, holder[<<k, id>>]>>
  BY EntriesAre
<1>2. PICK d : d = <<k, id>>
  OBVIOUS
<1>3. d \in Keys
  BY <1>2 DEF Keys
<1>4. holder[d] \in 0 .. chans /\ holder[d] # 0
  BY <1>1, <1>2, <1>3 DEF ChanInv
<1>5. holder[d] \in Chans
  BY <1>4, ChansMade
<1> QED BY <1>1, <1>2, <1>5

\* Deliveries keep within the channels, take nothing from them, and reach every
\* channel with room for all of its entries.
LEMMA PutEffect ==
  ASSUME ChanInv, LogInv, NEW to \in SUBSET (Patterns \X Ids \X Chans), NEW id, Put(to, id)
  PROVE  /\ fill' \in [Chans -> 0 .. ChanCap]
         /\ \A o \in Chans : got[o] \subseteq got'[o]
         /\ \A e \in to : e[3] \in Chans /\ (e[3] \in Overfull(to) \/ id \in got'[e[3]])
<1>1. ChanCap \in Nat /\ fill \in [Chans -> 0 .. ChanCap] /\ DOMAIN got = Chans
  BY MeshNodeAssumption DEF ChanInv, LogInv, FlowTypes
<1>2. ASSUME NEW o \in Chans
      PROVE  Times(to, o) \in Nat /\ ((\E e \in to : e[3] = o) => Times(to, o) > 0)
  <2> DEFINE S == {e \in to : e[3] = o}
  <2>1. IsFiniteSet(S)
    BY RoutesFinite, FS_Subset
  <2>2. Cardinality(S) \in Nat /\ (Cardinality(S) = 0 <=> S = {})
    BY <2>1, FS_CardinalityType, FS_EmptySet
  <2> QED BY <2>2 DEF Times
<1>3. ASSUME NEW o \in Chans
      PROVE  /\ Room(o) \in 0 .. ChanCap /\ Room(o) = ChanCap - fill[o]
             /\ Min({Times(to, o), Room(o)}) \in 0 .. Room(o)
  <2>1. Room(o) \in 0 .. ChanCap /\ Room(o) = ChanCap - fill[o]
    BY <1>1 DEF Room
  <2>2. PICK a, b : a = Times(to, o) /\ b = Room(o)
    OBVIOUS
  <2>3. Min({a, b}) \in {a, b} /\ Min({a, b}) <= a /\ Min({a, b}) <= b
    <3>1. a \in Int /\ b \in Int
      BY <1>1, <1>2, <2>1, <2>2
    <3> QED BY <3>1, MinOfTwo
  <2> QED BY <1>1, <1>2, <2>1, <2>2, <2>3
<1>4. fill' \in [Chans -> 0 .. ChanCap]
  <2>1. fill' = [o \in Chans |-> fill[o] + Min({Times(to, o), Room(o)})]
    BY DEF Put
  <2>2. \A o \in Chans : fill[o] + Min({Times(to, o), Room(o)}) \in 0 .. ChanCap
    BY <1>1, <1>3
  <2> QED BY <2>1, <2>2
<1>5. got' = [o \in Chans |-> IF Times(to, o) > 0 /\ Room(o) > 0 THEN got[o] \cup {id} ELSE got[o]]
  BY DEF Put
<1>6. ASSUME NEW e \in to PROVE e[3] \in Chans /\ (e[3] \in Overfull(to) \/ id \in got'[e[3]])
  <2>1. PICK o \in Chans : o = e[3]
    OBVIOUS
  <2>2. Times(to, o) > 0 /\ Times(to, o) \in Nat /\ Room(o) \in Int
    <3>1. \E x \in to : x[3] = o
      BY <2>1
    <3>2. Room(o) \in Int
      BY <1>1 DEF Room
    <3> QED BY <1>2, <3>1, <3>2
  <2>3. CASE Times(to, o) > Room(o)
    BY <2>1, <2>3 DEF Overfull
  <2>4. CASE ~(Times(to, o) > Room(o))
    <3>1. Room(o) > 0
      BY <2>2, <2>4
    <3> QED BY <1>5, <2>1, <2>2, <3>1
  <2> QED BY <2>1, <2>3, <2>4
<1> QED BY <1>4, <1>5, <1>6
\* What a step does to a publisher: nothing, or one of its own steps.
LEMMA PublisherSteps ==
  ASSUME [NodeNext]_meshVars, LogInv, NEW p \in Publishers
  PROVE  \/ pub'[p] = pub[p]
         \/ PublishStep(p)
         \/ \E topic \in EventTopics : PublishBegin(p, topic)
<1>1. ASSUME NEW x \in Publishers, PublishStep(x) \/ \E topic \in EventTopics : PublishBegin(x, topic)
      PROVE  x = p \/ pub'[p] = pub[p]
  <2>1. FlowTypes
    BY DEF LogInv
  <2>2. \E r : PubBecomes(x, r)
    <3>1. CASE \E topic \in EventTopics : PublishBegin(x, topic)
      BY <3>1, BeginMoves
    <3>2. CASE PublishAppend(x) \/ PublishLookup(x) \/ DeliverToLocalSubscribers(x)
      BY <2>1, <3>2, StepMoves DEF DeliverToLocalSubscribers
    <3>3. CASE ForwardToPeers(x) \/ PublishGivesUp(x)
      <4>1. \E res : PublishReturn(x, res)
        BY <3>3 DEF ForwardToPeers, PublishGivesUp
      <4> QED BY <4>1, ReturnMoves
    <3> QED BY <1>1, <3>1, <3>2, <3>3 DEF PublishStep
  <2> QED BY <2>1, <2>2, PubOthers
<1>2. ASSUME \/ UNCHANGED meshVars
             \/ \E id \in Ids, k \in Patterns : CreateSubscription(id, k)
             \/ \E s \in subs \cup deletes : DeleteFind(s) \/ DeleteApply(s)
             \/ \E i \in Conns : StreamStep(i)
             \/ \E topic \in EventTopics : InboundTake(topic)
             \/ InboundAppend \/ InboundDeliver
             \/ NodeStop \/ NodeStart \/ NodeClose
      PROVE  UNCHANGED pub
  BY <1>2 DEF meshVars, CreateSubscription, DeleteFind, DeleteApply, StreamStep, OpenStream,
              RegisterTopic, UnregisterTopic, RegisterFails, StreamTake, StreamEnd, StreamOver,
              InboundTake, InboundAppend, InboundDeliver, NodeStop, NodeStart, NodeClose, Idle
<1> QED BY <1>1, <1>2 DEF NodeNext, Request

\* The lock: publishers enter and leave one by one, and only Close closes.
LEMMA ReadersStep ==
  ASSUME [NodeNext]_meshVars, LogInv, ReadersInv
  PROVE  ReadersInv'
<1>0. IsFiniteSet(BusyPublishers) /\ FlowTypes /\ Cardinality(BusyPublishers) \in Nat
  <2>1. BusyPublishers \in SUBSET Publishers
    BY DEF BusyPublishers
  <2> QED BY <2>1, MeshNodeAssumption, FS_Subset, FS_CardinalityType DEF LogInv
<1>1. ASSUME UNCHANGED <<pub, readers, closed>> PROVE ReadersInv'
  BY <1>1 DEF ReadersInv, BusyPublishers
<1>2. ASSUME NEW p \in Publishers, NEW topic \in EventTopics, PublishBegin(p, topic) PROVE ReadersInv'
  <2>1. PubBecomes(p, PubRec("append", events + 1, topic, {}, {}, "none"))
    BY <1>2, BeginMoves
  <2>2. pub'[p].pc = "append" /\ \A x \in Publishers : x # p => pub'[x] = pub[x]
    BY <1>0, <2>1, PubOthers DEF PubRec
  <2>3. pub[p].pc = "idle" /\ readers' = readers + 1 /\ ~closed /\ UNCHANGED closed
    BY <1>2 DEF PublishBegin, Running, tableVars, vars
  <2>4. BusyPublishers' = BusyPublishers \cup {p} /\ p \notin BusyPublishers
    BY <2>2, <2>3 DEF BusyPublishers
  <2>5. Cardinality(BusyPublishers') = Cardinality(BusyPublishers) + 1
    BY <1>0, <2>4, FS_AddElement
  <2> QED BY <2>3, <2>5 DEF ReadersInv
<1>3. ASSUME NEW p \in Publishers, PublishStep(p) PROVE ReadersInv'
  <2>1. pub[p].pc # "idle" /\ UNCHANGED closed /\ ~closed
    <3>1. pub[p].pc # "idle" /\ UNCHANGED closed
      BY <1>3 DEF PublishStep, PublishAppend, PublishLookup, DeliverToLocalSubscribers,
                  DeliverTo, ForwardToPeers, PublishGivesUp, tableVars, vars
    <3> QED BY <3>1 DEF ReadersInv, BusyPublishers
  <2>2. ASSUME NEW res, PublishReturn(p, res) PROVE ReadersInv'
    <3>1. PubBecomes(p, PubRec("idle", 0, <<>>, {}, {}, res)) /\ readers' = readers - 1
      BY <2>2, ReturnMoves
    <3>2. pub'[p].pc = "idle" /\ \A x \in Publishers : x # p => pub'[x] = pub[x]
      BY <1>0, <3>1, PubOthers DEF PubRec
    <3>3. BusyPublishers' = BusyPublishers \ {p} /\ p \in BusyPublishers
      BY <2>1, <3>2 DEF BusyPublishers
    <3>4. Cardinality(BusyPublishers') = Cardinality(BusyPublishers) - 1
      BY <1>0, <3>3, FS_RemoveElement
    <3> QED BY <2>1, <3>1, <3>4 DEF ReadersInv
  <2>3. CASE /\ PublishAppend(p) \/ PublishLookup(p) \/ DeliverToLocalSubscribers(p)
             /\ UNCHANGED readers
    <3>1. PICK r : PubBecomes(p, r) /\ r.pc # "idle"
      <4>1. \A x, a, b, c, d, e : PubRec(x, a, b, c, d, e).pc = x
        BY DEF PubRec
      <4>2. CASE PublishAppend(p) \/ PublishLookup(p)
        BY <1>0, <4>1, <4>2, StepMoves
      <4>3. ASSUME NEW e, DeliverTo(p, e) PROVE \E r : PubBecomes(p, r) /\ r.pc # "idle"
        <5>1. PubBecomes(p, PubRec(pub[p].pc, pub[p].id, pub[p].topic, pub[p].to \ {e},
                                   pub[p].full \cup Overfull({e}), pub[p].res))
          BY <1>0, <4>3, StepMoves
        <5> QED BY <2>1, <4>1, <5>1
      <4> QED BY <2>3, <4>2, <4>3 DEF DeliverToLocalSubscribers
    <3>2. pub'[p] = r /\ \A x \in Publishers : x # p => pub'[x] = pub[x]
      BY <1>0, <3>1, PubOthers
    <3>3. BusyPublishers' = BusyPublishers
      BY <2>1, <3>1, <3>2 DEF BusyPublishers
    <3> QED BY <2>1, <2>3, <3>3 DEF ReadersInv
  <2>4. ForwardToPeers(p) \/ PublishGivesUp(p) => \E res : PublishReturn(p, res)
    BY DEF ForwardToPeers, PublishGivesUp
  <2> QED BY <1>3, <2>2, <2>3, <2>4 DEF PublishStep
<1>4. CASE NodeClose
  <2>1. readers = 0 /\ UNCHANGED <<pub, readers>>
    BY <1>4 DEF NodeClose, LockFree, Idle
  <2>2. BusyPublishers = {} /\ BusyPublishers' = BusyPublishers
    BY <1>0, <2>1, FS_EmptySet DEF ReadersInv, BusyPublishers
  <2> QED BY <2>1, <2>2 DEF ReadersInv
<1>5. ASSUME \/ UNCHANGED meshVars
             \/ \E id \in Ids, k \in Patterns : CreateSubscription(id, k)
             \/ \E s \in subs \cup deletes : DeleteFind(s) \/ DeleteApply(s)
             \/ \E i \in Conns : StreamStep(i)
             \/ \E topic \in EventTopics : InboundTake(topic)
             \/ InboundAppend \/ InboundDeliver
             \/ NodeStop \/ NodeStart
      PROVE  UNCHANGED <<pub, readers, closed>>
  BY <1>5 DEF meshVars, CreateSubscription, DeleteFind, DeleteApply, StreamStep, OpenStream,
              RegisterTopic, UnregisterTopic, RegisterFails, StreamTake, StreamEnd, StreamOver,
              InboundTake, InboundAppend, InboundDeliver, NodeStop, NodeStart, Idle, tableVars,
              vars, Subscribe, Unsubscribe
<1> QED BY <1>1, <1>2, <1>3, <1>4, <1>5 DEF NodeNext, Request
\* Steps that leave the table, the subscriptions and the streams alone.
LEMMA ChanElsewhere ==
  ASSUME ChanInv, UNCHANGED <<vars, holder, chans, subs, made, deletes, conn>>,
         fill' \in [Chans -> 0 .. ChanCap]
  PROVE  ChanInv'
<1>1. Opened' = Opened /\ \A k, id : Has(k, id)' <=> Has(k, id)
  BY DEF Opened, vars, Has
<1> QED BY <1>1 DEF ChanInv

\* An entry that is made or removed, and the channel it holds or gives back.
LEMMA HoldKeeps ==
  ASSUME ChanInv, LogInv, NEW k \in Patterns, NEW id \in Ids, NEW o \in 0 .. chans', Hold(k, id, o),
         chans' \in Nat, chans <= chans',
         \A k2, id2 : Has(k2, id2)' => (Has(k2, id2) /\ ~(k2 = k /\ id2 = id)) \/ (k2 = k /\ id2 = id /\ o # 0)
  PROVE  /\ \A d \in Keys : holder'[d] \in 0 .. chans'
         /\ \A k2 \in Patterns, id2 \in Ids : Has(k2, id2)' => holder'[<<k2, id2>>] # 0
<1>1. PICK d : d = <<k, id>>
  OBVIOUS
<1>2. d \in Keys /\ holder' = [holder EXCEPT ![d] = o] /\ DOMAIN holder = Keys
  BY <1>1 DEF Keys, Hold, LogInv, FlowTypes
<1>3. holder'[d] = o /\ \A x \in Keys : x # d => holder'[x] = holder[x]
  BY <1>2
<1>4. \A x \in Keys : holder'[x] \in 0 .. chans'
  <2>1. \A x \in Keys : holder[x] \in 0 .. chans
    BY DEF ChanInv
  <2> QED BY <1>3, <2>1, ChansMade
<1>5. ASSUME NEW k2 \in Patterns, NEW id2 \in Ids, Has(k2, id2)' PROVE holder'[<<k2, id2>>] # 0
  <2>1. PICK x : x = <<k2, id2>>
    OBVIOUS
  <2>2. x \in Keys /\ (x = d <=> k2 = k /\ id2 = id)
    BY <1>1, <2>1 DEF Keys
  <2>3. CASE x = d
    BY <1>3, <1>5, <2>1, <2>2, <2>3
  <2>4. CASE x # d
    BY <1>3, <1>5, <2>1, <2>2, <2>4 DEF ChanInv
  <2> QED BY <2>3, <2>4
<1> QED BY <1>4, <1>5

\* CreateSubscription makes a channel that was not there.
LEMMA CreateChans ==
  ASSUME NodeInv, LogInv, ChanInv, NEW id \in Ids, NEW k \in Patterns, CreateSubscription(id, k)
  PROVE  ChanInv'
<1>1. /\ Subscribe(k, id) /\ made < MaxSubs /\ made' = made + 1
      /\ Hold(k, id, chans + 1) /\ chans' = chans + 1
      /\ subs' = subs \cup {[n |-> made + 1, client |-> id, topic |-> k]}
      /\ UNCHANGED <<deletes, conn, fill>>
  BY DEF CreateSubscription, NewChan, chanVars
<1>2. chans \in Nat /\ made \in Nat /\ MaxSubs \in Nat
  BY ChansMade, ChanNumbers DEF ChanInv
<1>3. \A k2, id2 : Has(k2, id2)' <=> Has(k2, id2) \/ (k2 = k /\ id2 = id)
  BY <1>1, SubscribeHas
<1>4. PICK o : o = chans + 1
  OBVIOUS
<1>5. o \in 0 .. chans' /\ o # 0 /\ Hold(k, id, o) /\ chans' \in Nat /\ chans <= chans'
  BY <1>1, <1>2, <1>4
<1>6. /\ \A d \in Keys : holder'[d] \in 0 .. chans'
      /\ \A k2 \in Patterns, id2 \in Ids : Has(k2, id2)' => holder'[<<k2, id2>>] # 0
  BY <1>3, <1>5, HoldKeeps
<1>7. Opened' = Opened
  BY <1>1 DEF Opened
<1>8. made' \in 0 .. MaxSubs /\ chans' = made' + Cardinality(Opened')
  <2>1. Cardinality(Opened) \in Nat
    <3>1. Opened \in SUBSET Conns
      BY DEF Opened
    <3> QED BY <3>1, ChanNumbers, FS_Subset, FS_CardinalityType
  <2> QED BY <1>1, <1>2, <1>7, <2>1 DEF ChanInv
<1>9. (subs \cup deletes)' \subseteq [n : 1 .. MaxSubs, client : Ids, topic : Patterns]
  <2>1. [n |-> made + 1, client |-> id, topic |-> k] \in [n : 1 .. MaxSubs, client : Ids, topic : Patterns]
    BY <1>1, <1>2
  <2> QED BY <1>1, <2>1 DEF ChanInv
<1>10. \A i \in Conns : conn'[i].st \in {"on", "ending"} => conn'[i].chan \in 1 .. chans'
  BY <1>1, <1>2 DEF ChanInv
<1> QED BY <1>1, <1>6, <1>8, <1>9, <1>10 DEF ChanInv

\* An entry removed, with its channel or none; made, opened and the rest stay.
LEMMA RemoveChans ==
  ASSUME LogInv, ChanInv, NEW k \in Patterns, NEW id \in Ids, Unsubscribe(k, id), Hold(k, id, 0),
         UNCHANGED <<chans, made, fill>>, Opened' = Opened,
         \A i \in Conns : conn'[i].st = conn[i].st /\ conn'[i].chan = conn[i].chan,
         (subs \cup deletes)' \subseteq subs \cup deletes
  PROVE  ChanInv'
<1>1. \A k2, id2 : Has(k2, id2)' <=> Has(k2, id2) /\ ~(k2 = k /\ id2 = id)
  BY UnsubscribeHas
<1>2. PICK o : o = 0
  OBVIOUS
<1>3. o \in 0 .. chans' /\ Hold(k, id, o) /\ chans' \in Nat /\ chans <= chans'
  BY <1>2, ChansMade
<1>4. /\ \A d \in Keys : holder'[d] \in 0 .. chans'
      /\ \A k2 \in Patterns, id2 \in Ids : Has(k2, id2)' => holder'[<<k2, id2>>] # 0
  BY <1>1, <1>3, HoldKeeps
<1> QED BY <1>4 DEF ChanInv

\* A stream makes a channel when it opens and only then.
LEMMA StreamChans ==
  ASSUME NodeInv, LogInv, ChanInv, NEW i \in Conns, StreamStep(i)
  PROVE  ChanInv'
<1>0. chans \in Nat /\ conn \in [Conns -> [st : ConnStates, client : Ids \cup {0}, todo : SUBSET Patterns,
                                          topics : SUBSET Patterns, chan : Nat]]
  BY ChansMade DEF NodeInv, ConnOK
<1>1. ASSUME NEW id \in Ids, OpenStream(i, id) PROVE ChanInv'
  <2>1. /\ conn[i].st = "idle" /\ chans' = chans + 1
        /\ UNCHANGED <<vars, holder, subs, made, deletes, fill>>
    BY <1>1 DEF OpenStream, NewChan, subVars, chanVars
  <2>2. conn'[i].st = "on" /\ conn'[i].chan = chans + 1 /\ \A x \in Conns : x # i => conn'[x] = conn[x]
    BY <1>0, <1>1 DEF OpenStream, NewChan
  <2>3. Opened' = Opened \cup {i} /\ i \notin Opened
    BY <2>1, <2>2 DEF Opened
  <2>4. IsFiniteSet(Opened) /\ Cardinality(Opened) \in Nat
    <3>1. Opened \in SUBSET Conns
      BY DEF Opened
    <3> QED BY <3>1, ChanNumbers, FS_Subset, FS_CardinalityType
  <2>5. Cardinality(Opened') = Cardinality(Opened) + 1
    BY <2>3, <2>4, FS_AddElement
  <2>6. \A k, id2 : Has(k, id2)' <=> Has(k, id2)
    BY <2>1 DEF vars, Has
  <2>7. made \in Nat /\ MaxSubs \in Nat
    BY ChanNumbers DEF ChanInv
  <2>8. chans' = made' + Cardinality(Opened')
    BY <1>0, <2>1, <2>4, <2>5, <2>7 DEF ChanInv
  <2>9. \A x \in Conns : conn'[x].st \in {"on", "ending"} => conn'[x].chan \in 1 .. chans'
    BY <1>0, <2>1, <2>2 DEF ChanInv
  <2>10. \A d \in Keys : holder'[d] \in 0 .. chans'
    BY <1>0, <2>1 DEF ChanInv
  <2> QED BY <2>1, <2>6, <2>8, <2>9, <2>10 DEF ChanInv
<1>2. ASSUME NEW k \in Patterns, RegisterTopic(i, k) PROVE ChanInv'
  <2>1. /\ Subscribe(k, conn[i].client) /\ Hold(k, conn[i].client, conn[i].chan) /\ conn[i].st = "on"
        /\ conn' = [conn EXCEPT ![i].todo = @ \ {k}, ![i].topics = @ \cup {k}]
        /\ UNCHANGED <<subs, made, deletes, chans, fill>>
    BY <1>2 DEF RegisterTopic, subVars, chanVars
  <2>2. \A x \in Conns : conn'[x].st = conn[x].st /\ conn'[x].chan = conn[x].chan
    BY <1>0, <2>1
  <2>3. PICK id, o : id = conn[i].client /\ o = conn[i].chan
    OBVIOUS
  <2>4. id \in Ids /\ o \in 1 .. chans
    BY <2>1, <2>3 DEF NodeInv, ConnOK, ChanInv
  <2>5. \A k2, id2 : Has(k2, id2)' <=> Has(k2, id2) \/ (k2 = k /\ id2 = id)
    BY <2>1, <2>3, SubscribeHas
  <2>6. o \in 0 .. chans' /\ o # 0 /\ Hold(k, id, o) /\ chans' \in Nat /\ chans <= chans'
    BY <1>0, <2>1, <2>3, <2>4
  <2>7. /\ \A d \in Keys : holder'[d] \in 0 .. chans'
        /\ \A k2 \in Patterns, id2 \in Ids : Has(k2, id2)' => holder'[<<k2, id2>>] # 0
    BY <2>4, <2>5, <2>6, HoldKeeps
  <2>8. Opened' = Opened
    BY <2>2 DEF Opened
  <2> QED BY <2>1, <2>2, <2>7, <2>8 DEF ChanInv
<1>3. ASSUME NEW k \in Patterns, UnregisterTopic(i, k) PROVE ChanInv'
  <2>1. /\ conn[i].st = "ending" /\ conn' = [conn EXCEPT ![i].topics = @ \ {k}]
        /\ UNCHANGED <<subs, made, deletes, chans, fill>>
    BY <1>3 DEF UnregisterTopic, subVars, chanVars
  <2>2. \A x \in Conns : conn'[x].st = conn[x].st /\ conn'[x].chan = conn[x].chan
    BY <1>0, <2>1
  <2>3. Opened' = Opened
    BY <2>2 DEF Opened
  <2>4. CASE closed
    <3>1. UNCHANGED <<vars, holder>>
      BY <1>3, <2>4 DEF UnregisterTopic
    <3>2. \A k2, id2 : Has(k2, id2)' <=> Has(k2, id2)
      BY <3>1 DEF vars, Has
    <3> QED BY <2>1, <2>2, <2>3, <3>1, <3>2 DEF ChanInv
  <2>5. CASE ~closed
    <3>1. Unsubscribe(k, conn[i].client) /\ Hold(k, conn[i].client, 0) /\ conn[i].client \in Ids
      BY <1>3, <2>1, <2>5 DEF UnregisterTopic, NodeInv, ConnOK
    <3> QED BY <2>1, <2>2, <2>3, <3>1, RemoveChans
  <2> QED BY <2>4, <2>5
<1>4. CASE RegisterFails(i) \/ StreamEnd(i) \/ StreamOver(i)
  <2>1. conn[i].st \in {"on", "ending"} /\ UNCHANGED <<vars, holder, chans, subs, made, deletes, fill>>
    BY <1>4 DEF RegisterFails, StreamEnd, StreamOver, tableVars, subVars, chanVars
  <2>2. \A x \in Conns : x # i => conn'[x] = conn[x]
    BY <1>0, <1>4 DEF RegisterFails, StreamEnd, StreamOver
  <2>3. conn'[i].st = "over" \/ (conn'[i].st = "ending" /\ conn'[i].chan = conn[i].chan)
    <3>1. CASE StreamEnd(i)
      BY <1>0, <3>1 DEF StreamEnd
    <3>2. CASE RegisterFails(i) \/ StreamOver(i)
      BY <1>0, <3>2 DEF RegisterFails, StreamOver, IdleConn
    <3> QED BY <1>4, <3>1, <3>2
  <2>4. Opened' = Opened
    BY <2>1, <2>2, <2>3 DEF Opened
  <2>5. \A k2, id2 : Has(k2, id2)' <=> Has(k2, id2)
    BY <2>1 DEF vars, Has
  <2>6. \A x \in Conns : conn'[x].st \in {"on", "ending"} => conn'[x].chan \in 1 .. chans'
    BY <2>1, <2>2, <2>3 DEF ChanInv
  <2> QED BY <2>1, <2>4, <2>5, <2>6 DEF ChanInv
<1>5. CASE StreamTake(i)
  <2>1. /\ conn[i].st = "on" /\ fill[conn[i].chan] > 0 /\ fill' = [fill EXCEPT ![conn[i].chan] = @ - 1]
        /\ UNCHANGED <<vars, holder, chans, subs, made, deletes, conn>>
    BY <1>5 DEF StreamTake, tableVars, subVars
  <2>2. conn[i].chan \in Chans
    BY <2>1, ChansMade DEF ChanInv
  <2>3. ChanCap \in Nat
    BY MeshNodeAssumption
  <2>4. fill' \in [Chans -> 0 .. ChanCap]
    BY <2>1, <2>2, <2>3 DEF ChanInv
  <2> QED BY <2>1, <2>4, ChanElsewhere
<1> QED BY <1>1, <1>2, <1>3, <1>4, <1>5 DEF StreamStep
\* A publisher's step, seen from the channels.
LEMMA PublisherChans ==
  ASSUME LogInv, ChanInv, ToInv, NEW p \in Publishers,
         PublishStep(p) \/ \E topic \in EventTopics : PublishBegin(p, topic)
  PROVE  ChanInv' /\ \A o \in Chans : got[o] \subseteq got'[o]
<1>1. UNCHANGED <<vars, holder, chans, subs, made, deletes, conn>>
  BY DEF PublishStep, PublishBegin, PublishAppend, PublishLookup, DeliverToLocalSubscribers,
         DeliverTo, ForwardToPeers, PublishGivesUp, tableVars, subVars
<1>2. pub[p].to \in SUBSET (Patterns \X Ids \X Chans)
  BY DEF ToInv
<1>3. UNCHANGED <<fill, got>> \/ \E S \in SUBSET pub[p].to : Put(S, pub[p].id)
  BY DEF PublishStep, PublishBegin, PublishAppend, PublishLookup, DeliverToLocalSubscribers,
         DeliverTo, ForwardToPeers, PublishGivesUp, chanVars
<1>4. fill' \in [Chans -> 0 .. ChanCap] /\ \A o \in Chans : got[o] \subseteq got'[o]
  <2>1. CASE UNCHANGED <<fill, got>>
    BY <2>1 DEF ChanInv
  <2>2. ASSUME NEW S \in SUBSET pub[p].to, Put(S, pub[p].id)
        PROVE  fill' \in [Chans -> 0 .. ChanCap] /\ \A o \in Chans : got[o] \subseteq got'[o]
    <3>1. S \in SUBSET (Patterns \X Ids \X Chans)
      BY <1>2
    <3> QED BY <2>2, <3>1, PutEffect
  <2> QED BY <1>3, <2>1, <2>2
<1> QED BY <1>1, <1>4, ChanElsewhere

\* ChanInv is inductive, and a channel never unlearns an event it has had.
LEMMA ChanStep ==
  ASSUME NodeInv, LogInv, ChanInv, ToInv, [NodeNext]_meshVars
  PROVE  ChanInv' /\ \A o \in Chans : got[o] \subseteq got'[o]
<1>0. fill \in [Chans -> 0 .. ChanCap]
  BY DEF ChanInv
<1>1. ASSUME NEW s \in subs \cup deletes, DeleteFind(s) \/ DeleteApply(s) PROVE ChanInv'
  <2>1. s.topic \in Patterns /\ s.client \in Ids
    BY DEF NodeInv, SubsOK
  <2>2. CASE DeleteFind(s)
    <3>1. UNCHANGED <<vars, holder, chans, subs, made, conn, fill>> /\ deletes' = deletes \cup {s} /\ s \in subs
      BY <2>2 DEF DeleteFind, tableVars, chanVars
    <3>2. Opened' = Opened /\ \A k, id : Has(k, id)' <=> Has(k, id)
      BY <3>1 DEF Opened, vars, Has
    <3> QED BY <3>1, <3>2 DEF ChanInv
  <2>3. CASE DeleteApply(s)
    <3>1. UNCHANGED <<chans, made, conn, fill>> /\ deletes' \subseteq deletes
      BY <2>3 DEF DeleteApply, chanVars
    <3>2. Opened' = Opened
      BY <3>1 DEF Opened
    <3>3. CASE Running
      <4>1. Unsubscribe(s.topic, s.client) /\ Hold(s.topic, s.client, 0) /\ subs' \subseteq subs
        BY <2>3, <3>3 DEF DeleteApply
      <4> QED BY <2>1, <3>1, <3>2, <4>1, RemoveChans
    <3>4. CASE ~Running
      <4>1. UNCHANGED <<vars, holder, subs>>
        BY <2>3, <3>4 DEF DeleteApply
      <4>2. \A k, id : Has(k, id)' <=> Has(k, id)
        BY <4>1 DEF vars, Has
      <4> QED BY <3>1, <3>2, <4>1, <4>2 DEF ChanInv
    <3> QED BY <3>3, <3>4
  <2> QED BY <1>1, <2>2, <2>3
<1>2. CASE (\E topic \in EventTopics : InboundTake(topic)) \/ InboundAppend \/ InboundDeliver
  <2>1. UNCHANGED <<vars, holder, chans, subs, made, deletes, conn>>
    BY <1>2 DEF InboundTake, InboundAppend, InboundDeliver, tableVars, subVars
  <2>2. UNCHANGED <<fill, got>> \/ Put(Found(inb.topic), inb.id)
    BY <1>2 DEF InboundTake, InboundAppend, InboundDeliver, chanVars
  <2>3. Found(inb.topic) \in SUBSET (Patterns \X Ids \X Chans)
    BY EntryChans DEF Found
  <2>4. fill' \in [Chans -> 0 .. ChanCap] /\ \A o \in Chans : got[o] \subseteq got'[o]
    BY <1>0, <2>2, <2>3, PutEffect
  <2> QED BY <2>1, <2>4, ChanElsewhere
<1>3. CASE UNCHANGED meshVars \/ NodeStop \/ NodeStart
  <2>1. UNCHANGED <<vars, holder, chans, subs, made, deletes, conn, fill, got>>
    BY <1>3 DEF meshVars, NodeStop, NodeStart, Idle, tableVars, subVars, chanVars
  <2> QED BY <1>0, <2>1, ChanElsewhere
<1>4. CASE NodeClose
  <2>1. /\ Close /\ holder' = [e \in Keys |-> 0]
        /\ UNCHANGED <<chans, subs, made, deletes, conn, fill, got>>
    BY <1>4 DEF NodeClose, Idle, subVars, chanVars
  <2>2. Opened' = Opened /\ \A k, id : ~Has(k, id)'
    BY <2>1 DEF Opened, Close, Has
  <2>3. \A d \in Keys : holder'[d] \in 0 .. chans'
    BY <2>1, ChansMade
  <2> QED BY <2>1, <2>2, <2>3 DEF ChanInv
<1>5. ASSUME \/ \E id \in Ids, k \in Patterns : CreateSubscription(id, k)
             \/ \E s \in subs \cup deletes : DeleteFind(s) \/ DeleteApply(s)
             \/ \E i \in Conns : StreamStep(i)
      PROVE  UNCHANGED got
  BY <1>5 DEF CreateSubscription, DeleteFind, DeleteApply, StreamStep, OpenStream, RegisterTopic,
              UnregisterTopic, RegisterFails, StreamTake, StreamEnd, StreamOver, chanVars
<1>6. CASE Request
  BY <1>1, <1>2, <1>5, <1>6, CreateChans, StreamChans, PublisherChans DEF Request
<1> QED BY <1>3, <1>4, <1>6 DEF NodeNext

\* ToInv is inductive: a publish delivers to what its lookup found.
LEMMA ToStep ==
  ASSUME LogInv, ChanInv, ToInv, [NodeNext]_meshVars
  PROVE  ToInv'
<1> SUFFICES ASSUME NEW p \in Publishers PROVE pub'[p].to \subseteq Patterns \X Ids \X Chans
  BY DEF ToInv
<1>0. FlowTypes /\ pub[p].to \subseteq Patterns \X Ids \X Chans
      /\ \A pc, a, b, to, c, d : PubRec(pc, a, b, to, c, d).to = to
  BY DEF LogInv, ToInv, PubRec
<1>1. ASSUME NEW topic \in EventTopics, PublishBegin(p, topic) PROVE pub'[p].to = {}
  BY <1>0, <1>1, BeginMoves, PubOthers
<1>2. ASSUME NEW res, PublishReturn(p, res) PROVE pub'[p].to = {}
  BY <1>0, <1>2, ReturnMoves, PubOthers
<1>3. PublishAppend(p) \/ DeliverToLocalSubscribers(p) => pub'[p].to \subseteq pub[p].to
  <2>1. PublishAppend(p) => pub'[p].to = pub[p].to
    BY <1>0, StepMoves, PubOthers
  <2>2. ASSUME NEW e, DeliverTo(p, e) PROVE pub'[p].to = pub[p].to \ {e}
    <3>1. PubBecomes(p, PubRec(pub[p].pc, pub[p].id, pub[p].topic, pub[p].to \ {e},
                               pub[p].full \cup Overfull({e}), pub[p].res))
      BY <1>0, <2>2, StepMoves
    <3> QED BY <1>0, <3>1, PubOthers
  <2> QED BY <2>1, <2>2 DEF DeliverToLocalSubscribers
<1>4. PublishLookup(p) => pub'[p].to = Found(pub[p].topic)
  BY <1>0, StepMoves, PubOthers
<1>5. ForwardToPeers(p) \/ PublishGivesUp(p) => \E res : PublishReturn(p, res)
  BY DEF ForwardToPeers, PublishGivesUp
<1>6. Found(pub[p].topic) \subseteq Patterns \X Ids \X Chans
  BY EntryChans DEF Found
<1> QED BY <1>0, <1>1, <1>2, <1>3, <1>4, <1>5, <1>6, PublisherSteps DEF PublishStep

\* What is known of a watched entry at each point of the publish.
Served(p, e) ==
  /\ e \in Entries /\ Matches(e[1], pub[p].topic)
  /\ pub[p].pc = "deliver" => e \in pub[p].to \/ e[3] \in pub[p].full \/ pub[p].id \in got[e[3]]

WatchInv ==
  \A p \in Publishers : pub[p].pc \notin {"idle", "append"} => \A e \in must[p] : Served(p, e)

\* WatchInv is inductive: an entry that was there at the append and still is, is
\* among those the publish delivers to or has delivered to.
LEMMA WatchStep ==
  ASSUME NodeInv, LogInv, ChanInv, ToInv, WatchInv, NodeNext
  PROVE  WatchInv'
<1> SUFFICES ASSUME NEW p \in Publishers, pub'[p].pc \notin {"idle", "append"}, NEW e \in must'[p]
             PROVE  Served(p, e)'
  BY DEF WatchInv
<1>0. FlowTypes /\ pub[p] \in PubRecs
  BY DEF LogInv, FlowTypes
<1>1. must'[p] = IF pub[p].pc = "append" THEN Found(pub[p].topic)' ELSE must[p] \cap Entries'
  BY DEF NodeNext, Watch
<1>2. \A o \in Chans : got[o] \subseteq got'[o]
  BY ChanStep
<1>3. ASSUME pub[p].pc \notin {"idle", "append"}
      PROVE  e \in must[p] /\ e \in Entries' /\ Served(p, e) /\ e[3] \in Chans
  <2>1. e \in must[p] /\ e \in Entries'
    BY <1>1, <1>3
  <2>2. Served(p, e)
    BY <1>3, <2>1 DEF WatchInv
  <2> QED BY <2>1, <2>2, EntryChans DEF Served
<1>4. CASE pub'[p] = pub[p]
  BY <1>2, <1>3, <1>4 DEF Served
<1>5. CASE PublishAppend(p)
  <2>1. PICK t : t = pub[p].topic
    OBVIOUS
  <2>2. PubBecomes(p, PubRec("lookup", pub[p].id, t, pub[p].to, pub[p].full, pub[p].res))
    BY <1>0, <1>5, <2>1, StepMoves
  <2>3. pub'[p].pc = "lookup" /\ pub'[p].topic = t
    BY <1>0, <2>2, PubOthers DEF PubRec
  <2>4. pub[p].pc = "append" /\ UNCHANGED <<subscriptions, holder>>
    BY <1>5 DEF PublishAppend, tableVars, vars
  <2>5. Entries' = Entries
    BY <2>4 DEF Entries
  <2>6. Found(pub[p].topic)' = Found(t)
    BY <2>3, <2>4, <2>5 DEF Found, GetSubscribers, Held
  <2>7. e \in Entries /\ Matches(e[1], t)
    BY <1>1, <2>4, <2>6, FoundIs
  <2> QED BY <2>3, <2>5, <2>7 DEF Served
<1>6. CASE PublishLookup(p)
  <2>1. PubBecomes(p, PubRec("deliver", pub[p].id, pub[p].topic, Found(pub[p].topic), pub[p].full, pub[p].res))
    BY <1>0, <1>6, StepMoves
  <2>2. pub'[p].pc = "deliver" /\ pub'[p].topic = pub[p].topic /\ pub'[p].to = Found(pub[p].topic)
    BY <1>0, <2>1, PubOthers DEF PubRec
  <2>3. pub[p].pc = "lookup"
    BY <1>6 DEF PublishLookup
  <2>4. e \in Entries' /\ e \in Entries /\ Matches(e[1], pub[p].topic)
    BY <1>3, <2>3 DEF Served
  <2>5. e \in Found(pub[p].topic)
    BY <2>4, FoundIs
  <2> QED BY <2>2, <2>4, <2>5 DEF Served
<1>7. ASSUME NEW d \in pub[p].to, DeliverTo(p, d) PROVE Served(p, e)'
  <2>1. PICK full : full = Overfull({d})
    OBVIOUS
  <2>2. PubBecomes(p, PubRec(pub[p].pc, pub[p].id, pub[p].topic, pub[p].to \ {d}, pub[p].full \cup full,
                             pub[p].res))
    BY <1>0, <1>7, <2>1, StepMoves
  <2>3. /\ pub'[p].pc = pub[p].pc /\ pub'[p].topic = pub[p].topic /\ pub'[p].id = pub[p].id
        /\ pub'[p].to = pub[p].to \ {d} /\ pub'[p].full = pub[p].full \cup full
    BY <1>0, <2>2, PubOthers DEF PubRec
  <2>4. pub[p].pc = "deliver" /\ Put({d}, pub[p].id) /\ {d} \in SUBSET (Patterns \X Ids \X Chans)
    BY <1>7 DEF DeliverTo, ToInv
  <2>5. /\ e \in Entries' /\ Matches(e[1], pub[p].topic) /\ e[3] \in Chans
        /\ e \in pub[p].to \/ e[3] \in pub[p].full \/ pub[p].id \in got[e[3]]
    BY <1>3, <2>4 DEF Served
  <2>6. d[3] \in full \/ pub[p].id \in got'[d[3]]
    BY <2>1, <2>4, PutEffect
  <2> QED BY <1>2, <2>3, <2>5, <2>6 DEF Served
<1>8. ASSUME NEW topic \in EventTopics, PublishBegin(p, topic) PROVE FALSE
  <2>1. PubBecomes(p, PubRec("append", events + 1, topic, {}, {}, "none"))
    BY <1>8, BeginMoves
  <2>2. pub'[p].pc = "append"
    BY <1>0, <2>1, PubOthers DEF PubRec
  <2> QED BY <2>2
<1>9. ASSUME NEW res, PublishReturn(p, res) PROVE FALSE
  <2>1. PubBecomes(p, PubRec("idle", 0, <<>>, {}, {}, res))
    BY <1>9, ReturnMoves
  <2>2. pub'[p].pc = "idle"
    BY <1>0, <2>1, PubOthers DEF PubRec
  <2> QED BY <2>2
<1>10. ForwardToPeers(p) \/ PublishGivesUp(p) => \E res : PublishReturn(p, res)
  BY DEF ForwardToPeers, PublishGivesUp
<1> QED BY <1>4, <1>5, <1>6, <1>7, <1>8, <1>9, <1>10, PublisherSteps
        DEF PublishStep, DeliverToLocalSubscribers

DeliveryInv == NodeInv /\ LogInv /\ ChanInv /\ ToInv /\ ReadersInv /\ WatchInv

\* The six parts together hold throughout.
LEMMA DeliveryInvAlways == NodeSpec => []DeliveryInv
<1>1. ASSUME NodeInit PROVE ChanInv /\ ToInv /\ ReadersInv /\ WatchInv
  <2>1. ChanInv
    <3>1. Opened = {} /\ Cardinality(Opened) = 0
      BY <1>1, FS_EmptySet DEF NodeInit, Opened, IdleConn
    <3>2. ChanCap \in Nat
      BY MeshNodeAssumption
    <3> QED BY <1>1, <3>1, <3>2, ChanNumbers DEF NodeInit, Init, ChanInv, Has, IdleConn
  <2>2. ReadersInv
    <3>1. BusyPublishers = {}
      BY <1>1 DEF NodeInit, BusyPublishers, IdlePub
    <3> QED BY <1>1, <3>1, FS_EmptySet DEF NodeInit, ReadersInv
  <2>3. ToInv /\ WatchInv
    BY <1>1 DEF NodeInit, ToInv, WatchInv, IdlePub
  <2> QED BY <2>1, <2>2, <2>3
<1>2. ASSUME DeliveryInv, NodeInv', LogInv', [NodeNext]_meshVars PROVE DeliveryInv'
  <2>1. ChanInv' /\ ToInv' /\ ReadersInv'
    BY <1>2, ChanStep, ToStep, ReadersStep DEF DeliveryInv
  <2>2. CASE NodeNext
    BY <1>2, <2>1, <2>2, WatchStep DEF DeliveryInv
  <2>3. CASE UNCHANGED meshVars
    <3>1. UNCHANGED <<pub, must, got, holder, subscriptions>>
      BY <2>3 DEF meshVars, tableVars, vars, chanVars
    <3>2. WatchInv'
      BY <1>2, <3>1 DEF DeliveryInv, WatchInv, Served, Entries
    <3> QED BY <1>2, <2>1, <3>2 DEF DeliveryInv
  <2> QED BY <1>2, <2>2, <2>3
<1>3. NodeInit /\ NodeInv /\ LogInv => DeliveryInv
  BY <1>1 DEF DeliveryInv
<1> QED BY <1>2, <1>3, NodeInvAlways, LogInvAlways, PTL DEF NodeSpec

\* Channels stay within their capacity and the entries within the channels made,
\* and the goroutines counted in n.mu are the publishes under way.
THEOREM NodeTypes == NodeSpec => []NodeTypeOK
<1>1. ASSUME DeliveryInv PROVE NodeTypeOK
  <2>1. holder \in [Keys -> 0 .. Cardinality(Chans)]
    <3>1. \A d \in Keys : holder[d] \in 0 .. chans
      BY <1>1 DEF DeliveryInv, ChanInv
    <3>2. chans \in Nat /\ chans <= Cardinality(Chans) /\ Cardinality(Chans) \in Nat
      BY <1>1, ChansMade, ChanNumbers DEF DeliveryInv
    <3>3. holder \in [Keys -> Nat]
      BY <1>1 DEF DeliveryInv, LogInv, FlowTypes
    <3> QED BY <3>1, <3>2, <3>3
  <2> QED BY <1>1, <2>1 DEF DeliveryInv, LogInv, FlowTypes, ChanInv, ReadersInv, BusyPublishers, NodeTypeOK
<1> QED BY <1>1, DeliveryInvAlways, PTL

\* What a publish that ends now has done.
LEMMA ReturnsWith ==
  ASSUME DeliveryInv, [NodeNext]_meshVars, NEW p \in Publishers, NEW res \in {"ok", "failed"},
         Returns(p, res)
  PROVE  /\ UNCHANGED <<got, log>> /\ log[pub[p].id] = 1
         /\ \A e \in must[p] : e[3] \in pub[p].full \/ pub[p].id \in got[e[3]]
         /\ res = "ok" => pub[p].full = {} /\ \A q \in Peers : pub[p].id \in queued'[q]
<1>0. FlowTypes /\ LogInv /\ pub[p].pc # "idle" /\ pub'[p].pc = "idle" /\ pub'[p].res = res
      /\ \A a, b, c, d, e, f : PubRec(a, b, c, d, e, f).pc = a /\ PubRec(a, b, c, d, e, f).res = f
  BY DEF DeliveryInv, LogInv, Returns, PubRec
<1>1. ASSUME NEW topic \in EventTopics, PublishBegin(p, topic) PROVE FALSE
  BY <1>0, <1>1 DEF PublishBegin
<1>2. ~(PublishAppend(p) \/ PublishLookup(p) \/ DeliverToLocalSubscribers(p))
  <2>1. ASSUME NEW e, DeliverTo(p, e) PROVE FALSE
    <3>1. PubBecomes(p, PubRec(pub[p].pc, pub[p].id, pub[p].topic, pub[p].to \ {e},
                               pub[p].full \cup Overfull({e}), pub[p].res))
      BY <1>0, <2>1, StepMoves
    <3>2. pub'[p].pc = pub[p].pc
      BY <1>0, <3>1, PubOthers
    <3> QED BY <1>0, <3>2
  <2>2. ~(PublishAppend(p) \/ PublishLookup(p))
    BY <1>0, StepMoves, PubOthers
  <2> QED BY <2>1, <2>2 DEF DeliverToLocalSubscribers
<1>3. ~PublishGivesUp(p)
  <2>1. ASSUME PublishReturn(p, "error") PROVE pub'[p].res = "error"
    BY <1>0, <2>1, ReturnMoves, PubOthers
  <2> QED BY <1>0, <2>1 DEF PublishGivesUp
<1>4. ForwardToPeers(p)
  BY <1>0, <1>1, <1>2, <1>3, PublisherSteps DEF PublishStep
<1>5. pub[p].pc = "deliver" /\ pub[p].to = {} /\ UNCHANGED <<got, log>>
  BY <1>4 DEF ForwardToPeers, logVars, chanVars
<1>6. log[pub[p].id] = 1
  BY <1>5 DEF DeliveryInv, LogInv, Logged, Busy
<1>7. \A e \in must[p] : e[3] \in pub[p].full \/ pub[p].id \in got[e[3]]
  BY <1>5 DEF DeliveryInv, WatchInv, Served
<1>8. ASSUME res = "ok" PROVE pub[p].full = {} /\ \A q \in Peers : pub[p].id \in queued'[q]
  <2>1. PICK Q \in SUBSET Reached :
          /\ Queue(Q, pub[p].id)
          /\ PublishReturn(p, IF pub[p].full = {} /\ Q = Reached THEN "ok" ELSE "failed")
    BY <1>4 DEF ForwardToPeers
  <2>2. pub[p].full = {} /\ Q = Reached
    <3>1. ASSUME PublishReturn(p, "failed") PROVE FALSE
      <4>1. pub'[p].res = "failed"
        BY <1>0, <3>1, ReturnMoves, PubOthers
      <4> QED BY <1>0, <1>8, <4>1
    <3> QED BY <2>1, <3>1
  <2>3. ~closed
    BY <1>0 DEF DeliveryInv, ReadersInv, BusyPublishers
  <2>4. Q = Peers
    BY <2>2, <2>3 DEF Reached
  <2> QED BY <2>1, <2>2, <2>4 DEF Queue
<1> QED BY <1>5, <1>6, <1>7, <1>8

\* node_publish.go PublishEvent: no error means that every subscriber that was
\* there from the append on and every interested peer has the event, although
\* streams register and unregister without n.mu and Close may be waiting.
THEOREM OkDelivers == NodeSpec => OkMeansDelivered
<1>1. ASSUME DeliveryInv, [NodeNext]_meshVars
      PROVE  [\A p \in Publishers : Returns(p, "ok") =>
                /\ \A e \in must[p] : pub[p].id \in got'[e[3]]
                /\ \A q \in Peers : pub[p].id \in queued'[q]]_meshVars
  BY <1>1, ReturnsWith
<1> QED BY <1>1, DeliveryInvAlways, PTL DEF NodeSpec, OkMeansDelivered

\* node_publish.go deliverToLocalSubscribers: a full channel takes the event from
\* nobody else, and a publish that failed is in the log all the same, once.
THEOREM FailureStaysLocal == NodeSpec => FailureIsolated
<1>1. ASSUME DeliveryInv, [NodeNext]_meshVars
      PROVE  [\A p \in Publishers : Returns(p, "failed") =>
                /\ \A e \in must[p] : e[3] \in pub[p].full \/ pub[p].id \in got'[e[3]]
                /\ log'[pub[p].id] = 1]_meshVars
  BY <1>1, ReturnsWith
<1> QED BY <1>1, DeliveryInvAlways, PTL DEF NodeSpec, FailureIsolated
=============================================================================
