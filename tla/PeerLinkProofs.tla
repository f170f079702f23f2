--------------------------- MODULE PeerLinkProofs ---------------------------
(***************************************************************************)
(* Proofs about one node's link to a peer, for every queue size, number of *)
(* attempts, connections and messages.  Links are numbered as they are     *)
(* made, which is what "newer" means for the connections entry; a message  *)
(* is counted in the data queue, in the senders' hands and in what became  *)
(* of it, and every step moves it from one of these to another.            *)
(***************************************************************************)
EXTENDS PeerLink, FiniteSetTheorems, FunctionTheorems, TLAPS

Hands == {<<>>, <<Heartbeat>>} \cup {<<m>> : m \in Msgs}
LinkStates == {"unused"} \cup OutStates \cup InStates

-----------------------------------------------------------------------------
(* Messages in hands and queues *)

\* What is assumed of the bounds.
LEMMA Bounds ==
  QueueCap \in Nat /\ QueueCap > 0 /\ MaxAttempts \in Nat /\ MaxLinks \in Nat /\ MaxMsgs \in Nat
    /\ MaxBreaks \in Nat
BY QueueCapAssumption, LinkBoundsAssumption

\* What a full hand holds, and the user event in it, if it is one.
LEMMA HandIs ==
  ASSUME NEW h \in Hands
  PROVE  \/ h = <<>> /\ Ids(h) = {}
         \/ h = <<Heartbeat>> /\ Head(h) = Heartbeat /\ Ids(h) = {}
         \/ /\ Head(h) \in Msgs /\ h = <<Head(h)>> /\ Ids(h) = {Head(h).id} /\ Head(h) # Heartbeat
            /\ Head(h).id \in 1 .. MaxMsgs /\ Head(h).tries \in 0 .. MaxAttempts
<1>1. CASE h = <<>>
  BY <1>1 DEF Ids
<1>2. CASE h = <<Heartbeat>>
  <2>1. Head(h) = Heartbeat /\ DOMAIN h = {1} /\ h[1].id = 0
    BY <1>2 DEF Heartbeat
  <2> QED BY <1>2, <2>1 DEF Ids
<1>3. ASSUME NEW m \in Msgs, h = <<m>>
      PROVE  /\ Head(h) \in Msgs /\ h = <<Head(h)>> /\ Ids(h) = {Head(h).id} /\ Head(h) # Heartbeat
             /\ Head(h).id \in 1 .. MaxMsgs /\ Head(h).tries \in 0 .. MaxAttempts
  <2>1. Head(h) = m /\ DOMAIN h = {1} /\ h[1] = m
    BY <1>3
  <2>2. m.id \in 1 .. MaxMsgs /\ m.tries \in 0 .. MaxAttempts /\ m.id # 0
    BY Bounds DEF Msgs
  <2>3. m # Heartbeat
    BY <2>2 DEF Heartbeat
  <2> QED BY <1>3, <2>1, <2>2, <2>3 DEF Ids
<1> QED BY <1>1, <1>2, <1>3 DEF Hands

\* Typing, with Hands for the hand's states.
LEMMA TypedHands ==
  TypeOK <=> /\ entry \in 0 .. MaxLinks /\ link \in [Links -> LinkStates] /\ listed \in 0 .. OwnEntry
             /\ dataQ \in Seq(Msgs) /\ Len(dataQ) <= QueueCap /\ ctlQ \in 0 .. QueueCap
             /\ hand \in [Links -> Hands] /\ pending \in [Links -> BOOLEAN]
             /\ health \in {"Healthy", "Unhealthy", "Disconnected"} /\ quiet \in BOOLEAN
             /\ drops \in Nat /\ calls \in 0 .. MaxMsgs /\ breaks \in 0 .. MaxBreaks
             /\ \A S \in {refused, sent, dropped, lost} : S \subseteq 1 .. MaxMsgs
BY DEF TypeOK, Hands, LinkStates

\* A sender that takes a message and one that is done with it.
LEMMA HandsKept ==
  ASSUME TypeOK, NEW i \in Links, NEW h \in Hands, hand' = [hand EXCEPT ![i] = h]
  PROVE  hand' \in [Links -> Hands] /\ hand'[i] = h /\ \A x \in Links : x # i => hand'[x] = hand[x]
BY DEF TypeOK, Hands

\* A connection that changes its state keeps the shape of the array.
LEMMA LinkKept ==
  ASSUME TypeOK, NEW i \in Links, NEW s \in LinkStates, link' = [link EXCEPT ![i] = s]
  PROVE  link' \in [Links -> LinkStates]
BY DEF TypeOK, LinkStates

\* TypeOK is inductive, given that there is a next connection number.
LEMMA TypeStep ==
  ASSUME TypeOK, NextLink \in Nat, [Next]_vars
  PROVE  TypeOK'
<1> DEFINE Rest == <<listed, queueVars, pending, healthVars, msgVars, breaks>>
<1>0. /\ entry \in 0 .. MaxLinks /\ link \in [Links -> LinkStates] /\ listed \in 0 .. OwnEntry
      /\ dataQ \in Seq(Msgs) /\ Len(dataQ) <= QueueCap /\ ctlQ \in 0 .. QueueCap
      /\ hand \in [Links -> Hands] /\ pending \in [Links -> BOOLEAN]
      /\ health \in {"Healthy", "Unhealthy", "Disconnected"} /\ quiet \in BOOLEAN
      /\ drops \in Nat /\ calls \in 0 .. MaxMsgs /\ breaks \in 0 .. MaxBreaks
      /\ \A S \in {refused, sent, dropped, lost} : S \subseteq 1 .. MaxMsgs
  BY TypedHands
<1> USE Bounds DEF queueVars, healthVars, msgVars
<1>1. CASE UNCHANGED vars
  BY <1>0, <1>1 DEF vars, TypeOK
<1>2. CASE Connect \/ ConnectFails \/ Accept
  <2>1. PICK s \in {"dial", "stillborn", "greet"} : link' = [link EXCEPT ![NextLink] = s]
    BY <1>2 DEF Connect, ConnectFails, Accept
  <2>2. NextLink <= MaxLinks /\ entry' = NextLink /\ UNCHANGED Rest
    BY <1>2 DEF Connect, ConnectFails, Accept
  <2>3. link' \in [Links -> LinkStates]
    BY <1>0, <2>1 DEF LinkStates, OutStates, InStates
  <2> QED BY <1>0, <2>2, <2>3 DEF TypeOK, LinkStates
<1>17. Links \subseteq 0 .. OwnEntry /\ 0 \in 0 .. OwnEntry /\ OwnEntry \in 0 .. OwnEntry
  BY DEF Links, OwnEntry
<1>18. CASE PeerConnect \/ PeerCleanup
  BY <1>0, <1>17, <1>18 DEF PeerConnect, PeerCleanup, TypeOK, LinkStates
<1>19. ASSUME NEW i \in Links, EstablishFails(i) PROVE TypeOK'
  BY <1>0, <1>17, <1>19 DEF EstablishFails, TypeOK, LinkStates
<1>3. CASE SendEvent
  <2>1. [id |-> calls + 1, tries |-> 0] \in Msgs
    BY <1>0, <1>3 DEF SendEvent, Msgs
  <2>2. dataQ' \in Seq(Msgs) /\ Len(dataQ') <= QueueCap
    BY <1>0, <1>3, <2>1 DEF SendEvent
  <2> QED BY <1>0, <1>3, <2>2 DEF SendEvent, TypeOK
<1>4. CASE SendEventTimeout
  <2>1. Cardinality({calls + 1}) = 1
    BY FS_Singleton
  <2> QED BY <1>0, <1>4, <2>1 DEF SendEventTimeout, RecordPlaneDrop, TypeOK
<1>5. CASE Silence
  BY <1>0, <1>5 DEF Silence, TypeOK
<1>6. CASE HeartbeatTick
  BY <1>0, <1>6 DEF HeartbeatTick, SendHeartbeat, NoticedHealth, TypeOK
<1>7. ASSUME NEW i \in Links, Greet(i) \/ GreetFails(i) \/ Establish(i) PROVE TypeOK'
  <2>1. PICK s \in {"in-up", "over", "out-up"} : link' = [link EXCEPT ![i] = s]
    BY <1>7 DEF Greet, GreetFails, Establish
  <2>2. link' \in [Links -> LinkStates]
    BY <2>1, LinkKept DEF LinkStates, OutStates, InStates
  <2>3. CASE Greet(i)
    BY <1>0, <2>2, <2>3 DEF Greet, TypeOK, LinkStates
  <2>4. CASE GreetFails(i)
    BY <1>0, <2>2, <2>4 DEF GreetFails, TypeOK, LinkStates
  <2>5. CASE Establish(i)
    BY <1>0, <1>17, <2>2, <2>5 DEF Establish, MarkPeerSeen, TypeOK, LinkStates
  <2> QED BY <1>7, <2>3, <2>4, <2>5
<1>8. ASSUME NEW i \in Links, Break(i) PROVE TypeOK'
  <2>1. PICK s \in {"out-broken", "in-broken"} : link' = [link EXCEPT ![i] = s]
    BY <1>8 DEF Break
  <2>2. link' \in [Links -> LinkStates]
    BY <2>1, LinkKept DEF LinkStates, OutStates, InStates
  <2> QED BY <1>0, <1>8, <2>2 DEF Break, TypeOK, LinkStates
<1>9. ASSUME NEW i \in Links, Leave(i) PROVE link' \in [Links -> LinkStates]
  <2>1. PICK s \in {"dial", "closed"} : link' = [link EXCEPT ![i] = s]
    BY <1>9 DEF Leave
  <2> QED BY <2>1, LinkKept DEF LinkStates, OutStates, InStates
<1>10. ASSUME NEW i \in Links, Receive(i) \/ Handle(i) PROVE TypeOK'
  BY <1>0, <1>10 DEF Receive, Handle, MarkPeerSeen, TypeOK
<1>11. ASSUME NEW i \in Links, Take(i) PROVE TypeOK'
  <2>1. CASE /\ ctlQ > 0 /\ ctlQ' = ctlQ - 1 /\ hand' = [hand EXCEPT ![i] = <<Heartbeat>>]
             /\ UNCHANGED dataQ
    <3>1. hand' \in [Links -> Hands]
      BY <2>1, HandsKept DEF Hands
    <3> QED BY <1>0, <1>11, <2>1, <3>1 DEF Take, TypeOK, Hands
  <2>2. CASE /\ dataQ # <<>> /\ dataQ' = Tail(dataQ) /\ hand' = [hand EXCEPT ![i] = <<Head(dataQ)>>]
             /\ UNCHANGED ctlQ
    <3>1. Head(dataQ) \in Msgs /\ dataQ' \in Seq(Msgs) /\ Len(dataQ') <= QueueCap
      BY <1>0, <2>2
    <3>2. hand' \in [Links -> Hands]
      BY <2>2, <3>1, HandsKept DEF Hands
    <3> QED BY <1>0, <1>11, <2>2, <3>1, <3>2 DEF Take, TypeOK, Hands
  <2> QED BY <1>11, <2>1, <2>2 DEF Take
<1>12. ASSUME NEW i \in Links, hand' = [hand EXCEPT ![i] = <<>>]
       PROVE  hand' \in [Links -> Hands] /\ Ids(hand[i]) \subseteq 1 .. MaxMsgs
  <2>1. hand' \in [Links -> Hands]
    BY <1>12, HandsKept DEF Hands
  <2> QED BY <1>0, <2>1, HandIs
<1>13. ASSUME NEW i \in Links, Send(i) \/ ServerSendFails(i) PROVE TypeOK'
  <2>1. hand' \in [Links -> Hands] /\ Ids(hand[i]) \subseteq 1 .. MaxMsgs
    BY <1>12, <1>13 DEF Send, ServerSendFails
  <2>2. link' \in [Links -> LinkStates]
    BY <1>0, <1>9, <1>13 DEF Send, ServerSendFails
  <2> QED BY <1>0, <1>13, <2>1, <2>2 DEF Send, ServerSendFails, TypeOK, Hands, LinkStates
<1>14. ASSUME NEW i \in Links, SendFails(i) PROVE TypeOK'
  <2>1. hand' \in [Links -> Hands] /\ Ids(hand[i]) \subseteq 1 .. MaxMsgs
    BY <1>12, <1>14 DEF SendFails
  <2>2. link' \in [Links -> LinkStates]
    BY <1>9, <1>14 DEF SendFails
  <2>3. CASE Requeue(i)
    <3>1. hand[i] \in Hands /\ hand[i] # <<>>
      BY <1>0, <1>14 DEF SendFails
    <3>2. dataQ' \in Seq(Msgs) /\ Len(dataQ') <= QueueCap /\ ctlQ' \in 0 .. QueueCap
      <4>1. CASE Head(hand[i]) = Heartbeat
        BY <1>0, <2>3, <4>1 DEF Requeue
      <4>2. CASE Head(hand[i]) # Heartbeat
        <5>1. PICK m : m = Head(hand[i])
          OBVIOUS
        <5>2. m \in Msgs /\ m.tries < MaxAttempts
          BY <2>3, <3>1, <4>2, <5>1, HandIs DEF Requeue
        <5>3. [m EXCEPT !.tries = @ + 1] \in Msgs
          BY <5>2 DEF Msgs
        <5>4. PICK n : n = [m EXCEPT !.tries = @ + 1]
          OBVIOUS
        <5>5. Len(dataQ) < QueueCap /\ dataQ' = Append(dataQ, n) /\ ctlQ' = ctlQ
          BY <2>3, <4>2, <5>1, <5>4 DEF Requeue
        <5> QED BY <1>0, <5>3, <5>4, <5>5
      <4> QED BY <4>1, <4>2
    <3> QED BY <1>0, <1>14, <2>1, <2>2, <2>3, <3>2 DEF SendFails, Requeue, TypeOK, Hands, LinkStates
  <2>4. CASE DropFailedMessage(i)
    <3>1. Cardinality(Ids(hand[i])) \in Nat
      <4>1. IsFiniteSet(Ids(hand[i]))
        <5>1. PICK S : S = Ids(hand[i])
          OBVIOUS
        <5>2. IsFiniteSet(1 .. MaxMsgs)
          BY FS_Interval
        <5> QED BY <2>1, <5>1, <5>2, FS_Subset
      <4> QED BY <4>1, FS_CardinalityType
    <3> QED BY <1>0, <1>14, <2>1, <2>2, <2>4, <3>1
            DEF SendFails, DropFailedMessage, RecordPlaneDrop, TypeOK, Hands, LinkStates
  <2> QED BY <1>14, <2>3, <2>4 DEF SendFails
<1>15. ASSUME NEW i \in Links, Notice(i) PROVE TypeOK'
  BY <1>0, <1>9, <1>15 DEF Notice, TypeOK, LinkStates
<1>16. ASSUME NEW i \in Links, Cleanup(i) PROVE TypeOK'
  <2>1. PICK s \in {"over"} : link' = [link EXCEPT ![i] = s]
    BY <1>16 DEF Cleanup
  <2>2. link' \in [Links -> LinkStates]
    BY <2>1, LinkKept DEF LinkStates, OutStates, InStates
  <2> QED BY <1>0, <1>16, <2>2 DEF Cleanup, TypeOK, LinkStates
<1> QED BY <1>1, <1>2, <1>3, <1>4, <1>5, <1>6, <1>7, <1>8, <1>10, <1>11, <1>13, <1>14, <1>15, <1>16,
          <1>18, <1>19
        DEF Next, Sender
-----------------------------------------------------------------------------
(* Connections: the newest one has the entry *)

\* Links are numbered in the order in which they are made.
InOrder == \E n \in 0 .. MaxLinks : Used = 1 .. n

\* What a step that makes no connection does to the links: the same ones are in
\* use, one that is over stays so, and the entry is only given up by a link that
\* is over from then on.
Moves ==
  /\ Used' = Used
  /\ \A j \in Links : link[j] = "over" => link'[j] = "over"
  /\ entry' = entry \/ (entry' = 0 /\ link'[entry] = "over")

\* Connections are numbered from 1 without gaps, so the next one is the newest.
LEMMA Newest ==
  ASSUME InOrder
  PROVE  /\ Cardinality(Used) \in 0 .. MaxLinks /\ Used = 1 .. Cardinality(Used)
         /\ NextLink \in Nat /\ NextLink = Cardinality(Used) + 1
<1>1. PICK n \in 0 .. MaxLinks : Used = 1 .. n
  BY DEF InOrder
<1>2. n \in Int /\ 1 \in Int /\ n >= 0 /\ n <= MaxLinks
  BY Bounds
<1>3. Cardinality(1 .. n) = n
  <2>1. Cardinality(1 .. n) = IF 1 > n THEN 0 ELSE n - 1 + 1
    BY <1>2, FS_Interval
  <2> QED BY <1>2, <2>1
<1> QED BY <1>1, <1>2, <1>3 DEF NextLink

\* One link moves on, from a state in which it is in use and not over.
LEMMA LinkMoves ==
  ASSUME TypeOK, NEW i \in Links, NEW s \in LinkStates \ {"unused"},
         link' = [link EXCEPT ![i] = s], link[i] \notin {"unused", "over"}
  PROVE  /\ Used' = Used /\ link'[i] = s
         /\ \A j \in Links : link[j] = "over" => link'[j] = "over"
<1>1. \A j \in Links : link'[j] = IF j = i THEN s ELSE link[j]
  BY DEF TypeOK
<1>2. Used' = Used
  <2>1. \A j \in Links : link'[j] # "unused" <=> link[j] # "unused"
    BY <1>1
  <2> QED BY <2>1 DEF Used
<1> QED BY <1>1, <1>2

\* Only Connect, failed or not, and Accept make a connection; other steps move existing ones.
LEMMA StepMoves ==
  ASSUME TypeOK, [Next]_vars, ~Connect, ~ConnectFails, ~Accept
  PROVE  Moves
<1> USE DEF LinkStates, OutStates, InStates
<1>1. ASSUME UNCHANGED <<entry, link>> PROVE Moves
  BY <1>1 DEF Moves, Used
<1>2. ASSUME NEW i \in Links, NEW s \in LinkStates \ {"unused"}, link' = [link EXCEPT ![i] = s],
             link[i] \notin {"unused", "over"}, UNCHANGED entry
      PROVE  Moves
  BY <1>2, LinkMoves DEF Moves
<1>3. CASE UNCHANGED vars
  BY <1>1, <1>3 DEF vars
<1>4. CASE SendEvent \/ SendEventTimeout \/ Silence \/ HeartbeatTick
  BY <1>1, <1>4 DEF SendEvent, SendEventTimeout, Silence, HeartbeatTick
<1>10. CASE PeerConnect \/ PeerCleanup
  BY <1>1, <1>10 DEF PeerConnect, PeerCleanup
<1>5. ASSUME NEW i \in Links,
             Take(i) \/ Send(i) \/ Receive(i) \/ Handle(i) \/ EstablishFails(i)
      PROVE  Moves
  BY <1>1, <1>5 DEF Take, Send, Receive, Handle, EstablishFails
<1>6. ASSUME NEW i \in Links, Greet(i) \/ GreetFails(i) \/ Establish(i) PROVE Moves
  <2>1. PICK s \in {"in-up", "over", "out-up"} : link' = [link EXCEPT ![i] = s]
    BY <1>6 DEF Greet, GreetFails, Establish
  <2>2. link[i] \in {"greet", "dial"} /\ UNCHANGED entry
    BY <1>6 DEF Greet, GreetFails, Establish
  <2> QED BY <1>2, <2>1, <2>2
<1>7. ASSUME NEW i \in Links, Break(i) PROVE Moves
  <2>1. PICK s \in {"out-broken", "in-broken"} : link' = [link EXCEPT ![i] = s]
    BY <1>7 DEF Break
  <2>2. link[i] \in {"out-up", "in-up"} /\ UNCHANGED entry
    BY <1>7 DEF Break, Up
  <2> QED BY <1>2, <2>1, <2>2
<1>8. ASSUME NEW i \in Links, Notice(i) \/ SendFails(i) \/ ServerSendFails(i) PROVE Moves
  <2>1. PICK s \in {"dial", "closed"} : link' = [link EXCEPT ![i] = s]
    BY <1>8 DEF Notice, SendFails, ServerSendFails, Leave
  <2>2. link[i] \in {"out-broken", "in-broken"} /\ UNCHANGED entry
    BY <1>8 DEF Notice, SendFails, ServerSendFails, Broken
  <2> QED BY <1>2, <2>1, <2>2
<1>9. ASSUME NEW i \in Links, Cleanup(i) PROVE Moves
  <2>1. PICK s \in {"over"} : link' = [link EXCEPT ![i] = s]
    BY <1>9 DEF Cleanup
  <2>2. link[i] = "closed" /\ entry' = IF entry = i THEN 0 ELSE entry
    BY <1>9 DEF Cleanup
  <2>3. Used' = Used /\ link'[i] = s /\ \A j \in Links : link[j] = "over" => link'[j] = "over"
    BY <2>1, <2>2, LinkMoves
  <2> QED BY <2>1, <2>2, <2>3 DEF Moves
<1> QED BY <1>3, <1>4, <1>5, <1>6, <1>7, <1>8, <1>9, <1>10 DEF Next, Sender

\* Connect, failed or not, and Accept make the next link and give it the entry.
LEMMA StepConnects ==
  ASSUME TypeOK, InOrder, Connect \/ ConnectFails \/ Accept
  PROVE  /\ Cardinality(Used)' = Cardinality(Used) + 1 /\ Cardinality(Used)' <= MaxLinks
         /\ Used' = 1 .. Cardinality(Used)' /\ entry' = Cardinality(Used)'
<1>1. PICK n : n = Cardinality(Used)
  OBVIOUS
<1>2. n \in 0 .. MaxLinks /\ Used = 1 .. n /\ NextLink = n + 1 /\ n + 1 \in Int /\ 1 \in Int
  BY <1>1, Newest, Bounds
<1>3. PICK s \in {"dial", "stillborn", "greet"} : link' = [link EXCEPT ![n + 1] = s]
  BY <1>2 DEF Connect, ConnectFails, Accept
<1>4. n + 1 <= MaxLinks /\ entry' = n + 1
  BY <1>2 DEF Connect, ConnectFails, Accept
<1>5. \A j \in Links : link'[j] = IF j = n + 1 THEN s ELSE link[j]
  BY <1>3 DEF TypeOK
<1>6. Used' = 1 .. n + 1
  <2>1. \A j \in Links : link[j] # "unused" <=> j \in 1 .. n
    BY <1>2 DEF Used
  <2>2. \A j \in Links : link'[j] # "unused" <=> j \in 1 .. n + 1
    BY <1>2, <1>5, <2>1, Bounds DEF Links
  <2>3. \A j \in 1 .. n + 1 : j \in Links
    BY <1>2, <1>4, Bounds DEF Links
  <2> QED BY <2>2, <2>3 DEF Used
<1>7. Cardinality(1 .. n + 1) = n + 1
  <2>1. Cardinality(1 .. n + 1) = IF 1 > n + 1 THEN 0 ELSE n + 1 - 1 + 1
    BY <1>2, FS_Interval
  <2> QED BY <1>2, <2>1
<1> QED BY <1>1, <1>2, <1>4, <1>6, <1>7

\* The entry is only removed by the stream it names.
LEMMA EntryStep ==
  ASSUME TypeOK, InOrder, CleanupKeepsNewer, [Next]_vars
  PROVE  InOrder' /\ CleanupKeepsNewer'
<1>1. CASE Connect \/ ConnectFails \/ Accept
  <2>1. /\ Cardinality(Used)' = Cardinality(Used) + 1 /\ Cardinality(Used)' <= MaxLinks
        /\ Used' = 1 .. Cardinality(Used)' /\ entry' = Cardinality(Used)'
    BY <1>1, StepConnects
  <2>2. Cardinality(Used)' \in 0 .. MaxLinks
    BY <2>1, Newest, Bounds
  <2> QED BY <2>1, <2>2 DEF InOrder, CleanupKeepsNewer
<1>2. CASE ~Connect /\ ~ConnectFails /\ ~Accept
  <2>1. Moves
    BY <1>2, StepMoves
  <2>2. Used' = Used
    BY <2>1 DEF Moves
  <2>3. PICK n : n = Cardinality(Used)
    OBVIOUS
  <2>4. n \in 0 .. MaxLinks /\ Used = 1 .. n /\ Cardinality(Used)' = n
    BY <2>2, <2>3, Newest
  <2>5. InOrder'
    BY <2>2 DEF InOrder
  <2>6. ASSUME Registered' PROVE entry' = n \/ (entry' = 0 /\ link'[n] = "over")
    <3>1. Registered
      BY <2>2, <2>6 DEF Registered
    <3>2. n \in Links
      BY <2>4, <3>1, Bounds DEF Registered, Links
    <3>3. entry = n \/ (entry = 0 /\ link[n] = "over")
      BY <2>3, <3>1 DEF CleanupKeepsNewer
    <3>4. CASE entry = n
      BY <2>1, <3>4 DEF Moves
    <3>5. CASE entry = 0 /\ link[n] = "over"
      BY <2>1, <3>2, <3>5 DEF Moves
    <3> QED BY <3>3, <3>4, <3>5
  <2> QED BY <2>4, <2>5, <2>6 DEF CleanupKeepsNewer
<1> QED BY <1>1, <1>2
-----------------------------------------------------------------------------
(* Messages: every one is in one place *)

InQ(m) == \E k \in 1 .. Len(dataQ) : dataQ[k].id = m
InHand(m) == \E i \in Links : m \in Ids(hand[i])

\* The queue holds no message twice, no two senders have the same one, ...
ApartQ == \A k, n \in 1 .. Len(dataQ) : dataQ[k].id = dataQ[n].id => k = n
ApartHands == \A i, j \in Links, m \in 1 .. MaxMsgs : m \in Ids(hand[i]) /\ m \in Ids(hand[j]) => i = j

\* ... and what is in one of the six places is in no other.
Alone(m) ==
  /\ InQ(m) => ~InHand(m) /\ m \notin refused /\ m \notin sent /\ m \notin dropped /\ m \notin lost
  /\ InHand(m) => m \notin refused /\ m \notin sent /\ m \notin dropped /\ m \notin lost
  /\ m \in refused => m \notin sent /\ m \notin dropped /\ m \notin lost
  /\ m \in sent => m \notin dropped /\ m \notin lost
  /\ m \in dropped => m \notin lost

\* A message is somewhere from the call that brought it on, and not before.
Somewhere(m) ==
  m <= calls <=> \/ InQ(m) \/ InHand(m)
                 \/ m \in refused \/ m \in sent \/ m \in dropped \/ m \in lost

Counted == drops = Cardinality(refused) + Cardinality(dropped)

MsgInv ==
  ApartQ /\ ApartHands /\ Counted /\ \A m \in 1 .. MaxMsgs : Alone(m) /\ Somewhere(m)

\* A set with at most one element has as many as it has.
LEMMA AtMostOne ==
  ASSUME NEW S, \A x, y \in S : x = y
  PROVE  IsFiniteSet(S) /\ Cardinality(S) = IF S = {} THEN 0 ELSE 1
<1>1. CASE S = {}
  BY <1>1, FS_EmptySet
<1>2. CASE S # {}
  <2>1. PICK x : S = {x}
    BY <1>2
  <2> QED BY <1>2, <2>1, FS_Singleton
<1> QED BY <1>1, <1>2

\* The two ways to say where the messages are: MsgInv counts them once.
LEMMA MsgInvCounts ==
  ASSUME TypeOK, MsgInv
  PROVE  EachMessageOnce
<1>1. ASSUME NEW m \in 1 .. calls PROVE Copies(m) = 1
  <2> DEFINE Q == {k \in DOMAIN dataQ : dataQ[k].id = m}
             H == {i \in Links : m \in Ids(hand[i])}
             F == {S \in {1, 2, 3, 4} : m \in <<refused, sent, dropped, lost>>[S]}
  <2>1. m \in 1 .. MaxMsgs /\ m <= calls /\ Alone(m) /\ Somewhere(m)
    BY Bounds DEF TypeOK, MsgInv
  <2>2. Cardinality(Q) = IF InQ(m) THEN 1 ELSE 0
    <3>1. DOMAIN dataQ = 1 .. Len(dataQ)
      BY DEF TypeOK
    <3>2. \A x, y \in Q : x = y
      BY <3>1 DEF MsgInv, ApartQ
    <3>3. Q = {} <=> ~InQ(m)
      BY <3>1 DEF InQ
    <3> HIDE DEF Q
    <3> QED BY <3>2, <3>3, AtMostOne
  <2>3. Cardinality(H) = IF InHand(m) THEN 1 ELSE 0
    <3>1. \A x, y \in H : x = y
      BY <2>1 DEF MsgInv, ApartHands
    <3>2. H = {} <=> ~InHand(m)
      BY DEF InHand
    <3> HIDE DEF H
    <3> QED BY <3>1, <3>2, AtMostOne
  <2>4. Cardinality(F) = IF m \in refused \/ m \in sent \/ m \in dropped \/ m \in lost THEN 1 ELSE 0
    <3>1. /\ 1 \in F <=> m \in refused
          /\ 2 \in F <=> m \in sent
          /\ 3 \in F <=> m \in dropped
          /\ 4 \in F <=> m \in lost
      OBVIOUS
    <3>2. F \subseteq {1, 2, 3, 4}
      OBVIOUS
    <3> HIDE DEF F
    <3>3. \A x, y \in F : x = y
      BY <2>1, <3>1, <3>2 DEF Alone
    <3>4. F = {} <=> m \notin refused /\ m \notin sent /\ m \notin dropped /\ m \notin lost
      BY <3>1, <3>2
    <3> QED BY <3>3, <3>4, AtMostOne
  <2>5. Copies(m) = Cardinality(Q) + Cardinality(H) + Cardinality(F)
    BY DEF Copies
  <2> HIDE DEF Q, H, F
  <2> QED BY <2>1, <2>2, <2>3, <2>4, <2>5 DEF Alone, Somewhere
<1> QED BY <1>1 DEF EachMessageOnce, MsgInv, Counted

\* What Append and Tail do to the messages in the queue.
LEMMA Queued ==
  ASSUME TypeOK, NEW n \in Msgs, dataQ' = Append(dataQ, n), ApartQ, ~InQ(n.id)
  PROVE  ApartQ' /\ \A m : InQ(m)' <=> InQ(m) \/ m = n.id
<1>1. /\ Len(dataQ) \in Nat /\ Len(dataQ') = Len(dataQ) + 1
      /\ \A k \in 1 .. Len(dataQ) : dataQ'[k] = dataQ[k]
      /\ dataQ'[Len(dataQ) + 1] = n
  BY DEF TypeOK
<1>2. ApartQ'
  BY <1>1 DEF ApartQ, InQ
<1>3. ASSUME NEW m PROVE InQ(m)' <=> InQ(m) \/ m = n.id
  BY <1>1 DEF InQ
<1> QED BY <1>2, <1>3

\* Taking the head of the data queue removes that message from it.
LEMMA Dequeued ==
  ASSUME TypeOK, dataQ # <<>>, dataQ' = Tail(dataQ), ApartQ
  PROVE  /\ ApartQ' /\ InQ(Head(dataQ).id)
         /\ \A m : InQ(m)' <=> InQ(m) /\ m # Head(dataQ).id
<1>1. /\ Len(dataQ) \in Nat /\ Len(dataQ) >= 1 /\ Len(dataQ') = Len(dataQ) - 1
      /\ \A k \in 1 .. Len(dataQ) - 1 : dataQ'[k] = dataQ[k + 1]
      /\ dataQ[1] = Head(dataQ)
  BY DEF TypeOK
<1>2. ApartQ'
  <2>1. ASSUME NEW k \in 1 .. Len(dataQ'), NEW n \in 1 .. Len(dataQ'), dataQ'[k].id = dataQ'[n].id
        PROVE  k = n
    <3>1. k + 1 \in 1 .. Len(dataQ) /\ n + 1 \in 1 .. Len(dataQ) /\ dataQ[k + 1].id = dataQ[n + 1].id
      BY <1>1, <2>1
    <3> QED BY <3>1 DEF ApartQ
  <2> QED BY <2>1 DEF ApartQ
<1>3. InQ(Head(dataQ).id)
  BY <1>1 DEF InQ
<1>4. ASSUME NEW m PROVE InQ(m)' <=> InQ(m) /\ m # Head(dataQ).id
  <2>1. ASSUME InQ(m)' PROVE InQ(m) /\ m # Head(dataQ).id
    <3>1. PICK k \in 1 .. Len(dataQ') : dataQ'[k].id = m
      BY <2>1 DEF InQ
    <3>2. k + 1 \in 1 .. Len(dataQ) /\ dataQ[k + 1].id = m /\ 1 \in 1 .. Len(dataQ) /\ k + 1 # 1
      BY <1>1, <3>1
    <3> QED BY <1>1, <3>2 DEF InQ, ApartQ
  <2>2. ASSUME InQ(m), m # Head(dataQ).id PROVE InQ(m)'
    <3>1. PICK k \in 1 .. Len(dataQ) : dataQ[k].id = m
      BY <2>2 DEF InQ
    <3>2. k # 1
      BY <1>1, <2>2, <3>1
    <3>3. k - 1 \in 1 .. Len(dataQ') /\ dataQ'[k - 1] = dataQ[k]
      BY <1>1, <3>1, <3>2
    <3> QED BY <3>1, <3>3 DEF InQ
  <2> QED BY <2>1, <2>2
<1> QED BY <1>2, <1>3, <1>4
\* What a sender that takes a message, and one that is done with it, does to the
\* messages in the senders' hands.
LEMMA Taken ==
  ASSUME TypeOK, NEW i \in Links, NEW h \in Hands, hand' = [hand EXCEPT ![i] = h],
         hand[i] = <<>>, ApartHands, \A m \in Ids(h) : ~InHand(m)
  PROVE  ApartHands' /\ \A m : InHand(m)' <=> InHand(m) \/ m \in Ids(h)
<1>1. Ids(hand[i]) = {}
  BY DEF Ids
<1>2. \A x \in Links : Ids(hand'[x]) = IF x = i THEN Ids(h) ELSE Ids(hand[x])
  <2>1. hand'[i] = h /\ \A x \in Links : x # i => hand'[x] = hand[x]
    BY HandsKept
  <2> QED BY <2>1
<1>3. ApartHands'
  BY <1>1, <1>2 DEF ApartHands, InHand
<1>4. ASSUME NEW m PROVE InHand(m)' <=> InHand(m) \/ m \in Ids(h)
  BY <1>1, <1>2 DEF InHand
<1> QED BY <1>3, <1>4

\* Emptying a sender's hand releases the message in it.
LEMMA Released ==
  ASSUME TypeOK, NEW i \in Links, hand' = [hand EXCEPT ![i] = <<>>], ApartHands
  PROVE  /\ ApartHands' /\ Ids(hand[i]) \subseteq 1 .. MaxMsgs /\ \A m \in Ids(hand[i]) : InHand(m)
         /\ \A m : InHand(m)' <=> InHand(m) /\ m \notin Ids(hand[i])
<1>0. PICK h : h = <<>>
  OBVIOUS
<1>1. Ids(h) = {} /\ h \in Hands /\ hand[i] \in Hands
  BY <1>0 DEF Ids, Hands, TypeOK
<1>2. Ids(hand[i]) \subseteq 1 .. MaxMsgs
  BY <1>1, HandIs
<1>3. \A x \in Links : Ids(hand'[x]) = IF x = i THEN {} ELSE Ids(hand[x])
  <2>1. hand'[i] = h /\ \A x \in Links : x # i => hand'[x] = hand[x]
    BY <1>0, <1>1, HandsKept
  <2> QED BY <1>1, <2>1
<1>4. ApartHands'
  BY <1>3 DEF ApartHands
<1>5. ASSUME NEW m PROVE InHand(m)' <=> InHand(m) /\ m \notin Ids(hand[i])
  BY <1>2, <1>3 DEF InHand, ApartHands
<1> QED BY <1>2, <1>4, <1>5 DEF InHand

\* Calls and drops that are counted.
LEMMA MoreCounted ==
  ASSUME NEW S, NEW T, S \subseteq 1 .. MaxMsgs, T \subseteq 1 .. MaxMsgs, \A m \in T : m \notin S
  PROVE  /\ Cardinality(S) \in Nat /\ Cardinality(T) \in Nat
         /\ Cardinality(S \cup T) = Cardinality(S) + Cardinality(T)
<1>1. IsFiniteSet(1 .. MaxMsgs)
  BY Bounds, FS_Interval
<1>2. IsFiniteSet(S) /\ IsFiniteSet(T)
  BY <1>1, FS_Subset
<1>3. Cardinality(S) \in Nat /\ Cardinality(T) \in Nat
  BY <1>2, FS_CardinalityType
<1>4. Cardinality(S \cap T) = 0
  <2>1. S \cap T = {}
    OBVIOUS
  <2> QED BY <2>1, FS_EmptySet
<1>5. Cardinality(S \cup T) = Cardinality(S) + Cardinality(T) - Cardinality(S \cap T)
  BY <1>2, FS_Union
<1> QED BY <1>3, <1>4, <1>5

\* MsgInv is about queue, hands and fates only.
LEMMA MsgSame ==
  ASSUME MsgInv, UNCHANGED <<dataQ, hand, msgVars>>
  PROVE  MsgInv'
BY DEF msgVars, MsgInv, ApartQ, ApartHands, Counted, Alone, Somewhere, InQ, InHand

\* SendEvent queues a new message or refuses it.
LEMMA CallMsg ==
  ASSUME TypeOK, MsgInv, SendEvent \/ SendEventTimeout
  PROVE  MsgInv'
<1>1. /\ calls \in Nat /\ calls < MaxMsgs /\ calls + 1 \in 1 .. MaxMsgs /\ calls' = calls + 1
      /\ hand' = hand
  BY Bounds DEF TypeOK, SendEvent, SendEventTimeout, queueVars
<1>2. Alone(calls + 1) /\ Somewhere(calls + 1)
  BY <1>1 DEF MsgInv
<1>3. /\ ~InQ(calls + 1) /\ ~InHand(calls + 1) /\ calls + 1 \notin refused /\ calls + 1 \notin sent
      /\ calls + 1 \notin dropped /\ calls + 1 \notin lost
  BY <1>1, <1>2 DEF Somewhere
<1>4. ApartHands' /\ \A m : InHand(m)' <=> InHand(m)
  BY <1>1 DEF MsgInv, ApartHands, InHand
<1>5. CASE SendEvent
  <2>1. PICK n : n = [id |-> calls + 1, tries |-> 0]
    OBVIOUS
  <2>2. n \in Msgs /\ n.id = calls + 1
    BY <1>1, <2>1, Bounds DEF Msgs
  <2>3. dataQ' = Append(dataQ, n) /\ UNCHANGED <<refused, sent, dropped, lost, drops>>
    BY <1>5, <2>1 DEF SendEvent
  <2>4. ApartQ' /\ \A m : InQ(m)' <=> InQ(m) \/ m = calls + 1
    BY <1>3, <2>2, <2>3, Queued DEF MsgInv
  <2>5. ASSUME NEW m \in 1 .. MaxMsgs PROVE Alone(m)' /\ Somewhere(m)'
    <3>1. Alone(m) /\ Somewhere(m)
      BY DEF MsgInv
    <3>2. Alone(m)'
      BY <1>3, <1>4, <2>3, <2>4, <3>1 DEF Alone
    <3>3. Somewhere(m)'
      BY <1>1, <1>4, <2>3, <2>4, <3>1 DEF Somewhere
    <3> QED BY <3>2, <3>3
  <2> QED BY <1>4, <2>3, <2>4, <2>5 DEF MsgInv, Counted
<1>6. CASE SendEventTimeout
  <2>1. /\ dataQ' = dataQ /\ refused' = refused \cup {calls + 1}
        /\ drops' = drops + Cardinality({calls + 1}) /\ UNCHANGED <<sent, dropped, lost>>
    BY <1>6 DEF SendEventTimeout, RecordPlaneDrop, queueVars
  <2>2. ApartQ' /\ \A m : InQ(m)' <=> InQ(m)
    BY <2>1 DEF MsgInv, ApartQ, InQ
  <2>3. ASSUME NEW m \in 1 .. MaxMsgs PROVE Alone(m)' /\ Somewhere(m)'
    <3>1. Alone(m) /\ Somewhere(m)
      BY DEF MsgInv
    <3>2. Alone(m)'
      BY <1>3, <1>4, <2>1, <2>2, <3>1 DEF Alone
    <3>3. Somewhere(m)'
      BY <1>1, <1>4, <2>1, <2>2, <3>1 DEF Somewhere
    <3> QED BY <3>2, <3>3
  <2>4. Counted'
    <3>1. PICK R, T, D : R = refused /\ T = {calls + 1} /\ D = dropped
      OBVIOUS
    <3>2. /\ R \subseteq 1 .. MaxMsgs /\ T \subseteq 1 .. MaxMsgs /\ D \subseteq 1 .. MaxMsgs
          /\ \A m \in T : m \notin R
      BY <1>1, <1>3, <3>1 DEF TypeOK
    <3>3. /\ Cardinality(R) \in Nat /\ Cardinality(T) \in Nat
          /\ Cardinality(R \cup T) = Cardinality(R) + Cardinality(T)
      BY <3>2, MoreCounted
    <3>4. Cardinality(D) \in Nat
      <4>1. PICK E : E = {}
        OBVIOUS
      <4>2. E \subseteq 1 .. MaxMsgs /\ \A m \in E : m \notin D
        BY <4>1
      <4> QED BY <3>2, <4>2, MoreCounted
    <3>5. drops = Cardinality(R) + Cardinality(D) /\ drops' = drops + Cardinality(T)
      BY <2>1, <3>1 DEF MsgInv, Counted
    <3>6. drops' = Cardinality(R \cup T) + Cardinality(D)
      BY ONLY <3>3, <3>4, <3>5
    <3> QED BY <2>1, <3>1, <3>6 DEF Counted
  <2> QED BY <1>4, <2>2, <2>3, <2>4 DEF MsgInv
<1> QED BY <1>5, <1>6
\* A sender takes what it sends out of the queue.
LEMMA TakeMsg ==
  ASSUME TypeOK, MsgInv, NEW i \in Links, Take(i)
  PROVE  MsgInv'
<1>1. hand[i] = <<>> /\ UNCHANGED msgVars
  BY DEF Take
<1>2. UNCHANGED <<drops, calls, refused, sent, dropped, lost>>
  BY <1>1 DEF msgVars
<1>3. CASE ctlQ' = ctlQ - 1 /\ hand' = [hand EXCEPT ![i] = <<Heartbeat>>] /\ UNCHANGED dataQ
  <2>1. PICK h : h = <<Heartbeat>>
    OBVIOUS
  <2>2. h \in Hands /\ Ids(h) = {}
    <3>1. h \in Hands /\ h # <<>> /\ Head(h) = Heartbeat
      BY <2>1 DEF Hands
    <3> QED BY <3>1, HandIs
  <2>3. ApartHands' /\ \A m : InHand(m)' <=> InHand(m)
    BY <1>1, <1>3, <2>1, <2>2, Taken DEF MsgInv
  <2>4. ApartQ' /\ \A m : InQ(m)' <=> InQ(m)
    BY <1>3 DEF MsgInv, ApartQ, InQ
  <2> QED BY <1>2, <2>3, <2>4 DEF MsgInv, Counted, Alone, Somewhere
<1>4. CASE /\ dataQ # <<>> /\ dataQ' = Tail(dataQ) /\ hand' = [hand EXCEPT ![i] = <<Head(dataQ)>>]
           /\ UNCHANGED ctlQ
  <2>1. PICK n : n = Head(dataQ)
    OBVIOUS
  <2>2. PICK h : h = <<n>>
    OBVIOUS
  <2>3. n \in Msgs /\ h \in Hands
    BY <1>4, <2>1, <2>2 DEF TypeOK, Hands
  <2>4. Ids(h) = {n.id} /\ n.id \in 1 .. MaxMsgs
    <3>1. h # <<>> /\ Head(h) = n /\ n # Heartbeat /\ h # <<Heartbeat>>
      <4>1. n # Heartbeat
        BY <2>3, Bounds DEF Msgs, Heartbeat
      <4> QED BY <2>2, <4>1
    <3> QED BY <2>3, <3>1, HandIs
  <2>5. ApartQ' /\ InQ(n.id) /\ \A m : InQ(m)' <=> InQ(m) /\ m # n.id
    BY <1>4, <2>1, Dequeued DEF MsgInv
  <2>6. ~InHand(n.id)
    BY <2>4, <2>5 DEF MsgInv, Alone
  <2>7. ApartHands' /\ \A m : InHand(m)' <=> InHand(m) \/ m = n.id
    BY <1>1, <1>4, <2>1, <2>2, <2>3, <2>4, <2>6, Taken DEF MsgInv
  <2>8. ASSUME NEW m \in 1 .. MaxMsgs PROVE Alone(m)' /\ Somewhere(m)'
    <3>1. Alone(m) /\ Somewhere(m)
      BY DEF MsgInv
    <3>2. Alone(m)'
      BY <1>2, <2>5, <2>7, <3>1 DEF Alone
    <3>3. Somewhere(m)'
      BY <1>2, <2>5, <2>7, <3>1 DEF Somewhere
    <3> QED BY <3>2, <3>3
  <2> QED BY <1>2, <2>5, <2>7, <2>8 DEF MsgInv, Counted
<1> QED BY <1>3, <1>4 DEF Take

\* A message leaves a hand for one of the sets that say what became of it.
LEMMA DoneMsg ==
  ASSUME TypeOK, MsgInv, NEW i \in Links, hand' = [hand EXCEPT ![i] = <<>>],
         UNCHANGED <<dataQ, calls, refused>>,
         \/ sent' = sent \cup Ids(hand[i]) /\ UNCHANGED <<dropped, lost, drops>>
         \/ lost' = lost \cup Ids(hand[i]) /\ UNCHANGED <<dropped, sent, drops>>
         \/ dropped' = dropped \cup Ids(hand[i]) /\ UNCHANGED <<sent, lost>>
              /\ drops' = drops + Cardinality(Ids(hand[i]))
  PROVE  MsgInv'
<1>1. PICK T : T = Ids(hand[i])
  OBVIOUS
<1>2. /\ ApartHands' /\ T \subseteq 1 .. MaxMsgs /\ \A m \in T : InHand(m)
      /\ \A m : InHand(m)' <=> InHand(m) /\ m \notin T
  BY <1>1, Released DEF MsgInv
<1>3. ApartQ' /\ \A m : InQ(m)' <=> InQ(m)
  BY DEF MsgInv, ApartQ, InQ
<1>4. \/ sent' = sent \cup T /\ UNCHANGED <<dropped, lost, drops>>
      \/ lost' = lost \cup T /\ UNCHANGED <<dropped, sent, drops>>
      \/ dropped' = dropped \cup T /\ UNCHANGED <<sent, lost>> /\ drops' = drops + Cardinality(T)
  BY <1>1
<1>5. ASSUME NEW m \in 1 .. MaxMsgs PROVE Alone(m)' /\ Somewhere(m)'
  <2>1. Alone(m) /\ Somewhere(m)
    BY DEF MsgInv
  <2>2. Alone(m)'
    BY <1>2, <1>3, <1>4, <2>1 DEF Alone
  <2>3. Somewhere(m)'
    BY <1>2, <1>3, <1>4, <2>1 DEF Somewhere
  <2> QED BY <2>2, <2>3
<1>6. Counted'
  <2>1. CASE UNCHANGED <<dropped, drops>>
    BY <2>1 DEF MsgInv, Counted
  <2>2. CASE dropped' = dropped \cup T /\ drops' = drops + Cardinality(T)
    <3>1. PICK R, D : R = refused /\ D = dropped
      OBVIOUS
    <3>2. R \subseteq 1 .. MaxMsgs /\ D \subseteq 1 .. MaxMsgs /\ \A m \in T : m \notin D
      BY <1>2, <3>1 DEF TypeOK, MsgInv, Alone
    <3>3. /\ Cardinality(D) \in Nat /\ Cardinality(T) \in Nat
          /\ Cardinality(D \cup T) = Cardinality(D) + Cardinality(T)
      BY <1>2, <3>2, MoreCounted
    <3>4. Cardinality(R) \in Nat
      <4>1. PICK E : E = {}
        OBVIOUS
      <4>2. E \subseteq 1 .. MaxMsgs /\ \A m \in E : m \notin R
        BY <4>1
      <4> QED BY <3>2, <4>2, MoreCounted
    <3>5. drops = Cardinality(R) + Cardinality(D)
      BY <3>1 DEF MsgInv, Counted
    <3>6. drops' = Cardinality(R) + Cardinality(D \cup T)
      BY <2>2, <3>3, <3>4, <3>5
    <3> QED BY <2>2, <3>1, <3>6 DEF Counted
  <2> QED BY <1>4, <2>1, <2>2
<1> QED BY <1>2, <1>3, <1>5, <1>6 DEF MsgInv

\* A message that goes back to its queue leaves the hand at the same time.
LEMMA RequeueMsg ==
  ASSUME TypeOK, MsgInv, NEW i \in Links, hand[i] # <<>>, hand' = [hand EXCEPT ![i] = <<>>],
         Requeue(i), UNCHANGED <<calls, refused, sent, lost>>
  PROVE  MsgInv'
<1>1. PICK T : T = Ids(hand[i])
  OBVIOUS
<1>2. /\ ApartHands' /\ T \subseteq 1 .. MaxMsgs /\ \A m \in T : InHand(m)
      /\ \A m : InHand(m)' <=> InHand(m) /\ m \notin T
  BY <1>1, Released DEF MsgInv
<1>3. hand[i] \in Hands
  BY DEF TypeOK, Hands
<1>4. ApartQ' /\ \A m : InQ(m)' <=> InQ(m) \/ m \in T
  <2>1. CASE Head(hand[i]) = Heartbeat
    <3>1. T = {} /\ dataQ' = dataQ
      BY <1>1, <1>3, <2>1, HandIs DEF Requeue
    <3> QED BY <3>1 DEF MsgInv, ApartQ, InQ
  <2>2. CASE Head(hand[i]) # Heartbeat
    <3>1. PICK h : h = Head(hand[i])
      OBVIOUS
    <3>2. h \in Msgs /\ T = {h.id} /\ h.tries < MaxAttempts
      BY <1>1, <1>3, <2>2, <3>1, HandIs DEF Requeue
    <3>3. PICK n : n = [h EXCEPT !.tries = @ + 1]
      OBVIOUS
    <3>4. n \in Msgs /\ n.id = h.id
      BY <3>2, <3>3, Bounds DEF Msgs
    <3>5. dataQ' = Append(dataQ, n)
      BY <2>2, <3>1, <3>3 DEF Requeue
    <3>6. ~InQ(n.id)
      BY <1>2, <3>2, <3>4 DEF MsgInv, Alone
    <3>7. ApartQ' /\ \A m : InQ(m)' <=> InQ(m) \/ m = n.id
      BY <3>4, <3>5, <3>6, Queued DEF MsgInv
    <3> QED BY <3>2, <3>4, <3>7
  <2> QED BY <2>1, <2>2
<1>5. UNCHANGED <<drops, dropped>>
  BY DEF Requeue
<1>6. ASSUME NEW m \in 1 .. MaxMsgs PROVE Alone(m)' /\ Somewhere(m)'
  <2>1. Alone(m) /\ Somewhere(m)
    BY DEF MsgInv
  <2>2. Alone(m)'
    BY <1>2, <1>4, <1>5, <2>1 DEF Alone
  <2>3. Somewhere(m)'
    BY <1>2, <1>4, <1>5, <2>1 DEF Somewhere
  <2> QED BY <2>2, <2>3
<1> QED BY <1>2, <1>4, <1>5, <1>6 DEF MsgInv, Counted

\* MsgInv is inductive, given TypeOK.
LEMMA MsgStep ==
  ASSUME TypeOK, MsgInv, [Next]_vars
  PROVE  MsgInv'
<1>1. CASE \/ UNCHANGED vars \/ Connect \/ ConnectFails \/ Accept \/ PeerConnect \/ PeerCleanup
           \/ Silence \/ HeartbeatTick
  BY <1>1, MsgSame
     DEF vars, Connect, ConnectFails, Accept, PeerConnect, PeerCleanup, Silence, HeartbeatTick, queueVars
<1>2. ASSUME NEW i \in Links,
             \/ Greet(i) \/ GreetFails(i) \/ Establish(i) \/ EstablishFails(i) \/ Break(i)
             \/ Notice(i) \/ Cleanup(i) \/ Receive(i) \/ Handle(i)
      PROVE  MsgInv'
  BY <1>2, MsgSame
     DEF Greet, GreetFails, Establish, EstablishFails, Break, Notice, Cleanup, Receive, Handle, queueVars
<1>3. ASSUME NEW i \in Links, Send(i) \/ ServerSendFails(i) PROVE MsgInv'
  BY <1>3, DoneMsg DEF Send, ServerSendFails
<1>4. ASSUME NEW i \in Links, SendFails(i) PROVE MsgInv'
  <2>1. CASE Requeue(i)
    BY <1>4, <2>1, RequeueMsg DEF SendFails
  <2>2. CASE DropFailedMessage(i)
    BY <1>4, <2>2, DoneMsg DEF SendFails, DropFailedMessage, RecordPlaneDrop
  <2> QED BY <1>4, <2>1, <2>2 DEF SendFails
<1> QED BY <1>1, <1>2, <1>3, <1>4, CallMsg, TakeMsg DEF Next, Sender

-----------------------------------------------------------------------------
(* The invariant *)

LinkInv == TypeOK /\ InOrder /\ CleanupKeepsNewer /\ MsgInv

\* No connection and no message at first.
LEMMA LinkInvInit == Init => LinkInv
<1> SUFFICES ASSUME Init PROVE LinkInv
  OBVIOUS
<1> USE Bounds DEF Init
<1>1. TypeOK
  <2>1. link \in [Links -> LinkStates] /\ hand \in [Links -> Hands]
    BY DEF LinkStates, Hands
  <2>2. dataQ \in Seq(Msgs) /\ Len(dataQ) = 0
    OBVIOUS
  <2>3. entry \in 0 .. MaxLinks /\ listed \in 0 .. OwnEntry /\ ctlQ \in 0 .. QueueCap /\ Len(dataQ) <= QueueCap
    BY <2>2 DEF OwnEntry
  <2>4. drops \in Nat /\ calls \in 0 .. MaxMsgs /\ breaks \in 0 .. MaxBreaks
    OBVIOUS
  <2>5. /\ pending \in [Links -> BOOLEAN] /\ quiet \in BOOLEAN
        /\ health \in {"Healthy", "Unhealthy", "Disconnected"}
        /\ \A S \in {refused, sent, dropped, lost} : S \subseteq 1 .. MaxMsgs
    OBVIOUS
  <2> QED BY <2>1, <2>2, <2>3, <2>4, <2>5, TypedHands
<1>2. Used = {}
  BY DEF Used
<1>3. InOrder
  <2>1. Used = 1 .. 0
    BY <1>2
  <2> QED BY <2>1 DEF InOrder
<1>4. CleanupKeepsNewer
  BY <1>2 DEF CleanupKeepsNewer, Registered
<1>5. MsgInv
  <2>1. \A i \in Links : Ids(hand[i]) = {}
    BY DEF Ids
  <2>2. (\A m : ~InHand(m) /\ ~InQ(m)) /\ ApartQ
    BY <2>1 DEF InHand, InQ, ApartQ
  <2>3. ApartHands
    BY <2>1 DEF ApartHands
  <2>4. Counted
    BY FS_EmptySet DEF Counted
  <2>5. \A m \in 1 .. MaxMsgs : Alone(m) /\ Somewhere(m)
    BY <2>2 DEF Alone, Somewhere
  <2> QED BY <2>2, <2>3, <2>4, <2>5 DEF MsgInv
<1> QED BY <1>1, <1>3, <1>4, <1>5 DEF LinkInv

\* grpc.go: connections in order, the entry with the newest, and every message in
\* one place with the drop counter in step, for any number of connections.
THEOREM LinkInvariant == Spec => []LinkInv
<1>1. LinkInv /\ [Next]_vars => LinkInv'
  BY Newest, TypeStep, EntryStep, MsgStep DEF LinkInv
<1> QED BY <1>1, LinkInvInit, PTL DEF Spec

\* The queues of a peer and the hands of the senders stay within their bounds,
\* for every queue size and every number of connections.
THEOREM LinkTypes == Spec => []TypeOK
BY LinkInvariant, PTL DEF LinkInv

\* The deferred cleanup of an old stream never takes the connections entry from
\* its successor.
THEOREM NewestKeepsEntry == Spec => []CleanupKeepsNewer
BY LinkInvariant, PTL DEF LinkInv

\* Whatever breaks and is requeued, a message SendEvent was called with is in one
\* place: queued, in one sender's hand, refused, sent, dropped, or lost with an
\* accepted stream; the drop counter counts the refused and the dropped ones only.
THEOREM MessagesOnce == Spec => []EachMessageOnce
<1>1. LinkInv => EachMessageOnce
  BY MsgInvCounts DEF LinkInv
<1> QED BY <1>1, LinkInvariant, PTL
=============================================================================
