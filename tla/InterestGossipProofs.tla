------------------------ MODULE InterestGossipProofs ------------------------
(***************************************************************************)
(* Proofs about the interest gossip, for every number of peers, topics and *)
(* clients and every queue and channel capacity.  The inductive invariant  *)
(* is TypeOK, DeltaAccurate and PipelineFaithful; the argument follows one *)
(* message through the stages of the pipeline with the lemmas on After.    *)
(***************************************************************************)
EXTENDS InterestGossip, TLAPS

\* What one message makes of opinion d on topic t.
One(m, t, d) == IF Mentions(m, t) THEN Wants(m, t) ELSE d

\* Reading nothing changes no opinion.
LEMMA AfterEmpty ==
  ASSUME NEW t, NEW d \in BOOLEAN
  PROVE  After(<<>>, t, d) = d
BY DEF After

\* A message at the end of the pipeline has the last word.
LEMMA AfterAppend ==
  ASSUME NEW s \in Seq(Messages), NEW m \in Messages, NEW t, NEW d \in BOOLEAN
  PROVE  After(Append(s, m), t, d) = One(m, t, After(s, t, d))
<1> DEFINE a == Append(s, m)
<1>1. /\ DOMAIN a = 1 .. Len(s) + 1 /\ DOMAIN s = 1 .. Len(s) /\ Len(s) \in Nat
      /\ a[Len(s) + 1] = m
      /\ \A i \in DOMAIN s : a[i] = s[i]
  OBVIOUS
<1> HIDE DEF a
<1>2. CASE Mentions(m, t)
  <2>1. \E i \in DOMAIN a : Mentions(a[i], t)
    BY <1>1, <1>2
  <2>2. (\E i \in DOMAIN a : /\ Wants(a[i], t)
                             /\ \A j \in DOMAIN a : j > i => ~Mentions(a[j], t))
        = Wants(m, t)
    <3>1. ASSUME NEW i \in DOMAIN a, Wants(a[i], t),
                 \A j \in DOMAIN a : j > i => ~Mentions(a[j], t)
          PROVE  Wants(m, t)
      BY <1>1, <1>2, <3>1
    <3>2. ASSUME Wants(m, t)
          PROVE  \E i \in DOMAIN a : /\ Wants(a[i], t)
                                     /\ \A j \in DOMAIN a : j > i => ~Mentions(a[j], t)
      BY <1>1, <3>2
    <3>3. Wants(m, t) \in BOOLEAN
      BY DEF Wants
    <3> QED BY <3>1, <3>2, <3>3
  <2> QED BY <1>2, <2>1, <2>2 DEF After, One, a
<1>3. CASE ~Mentions(m, t)
  <2>1. (\E i \in DOMAIN a : Mentions(a[i], t)) <=> (\E i \in DOMAIN s : Mentions(s[i], t))
    BY <1>1, <1>3
  <2>2. ~Wants(m, t)
    BY <1>3 DEF Mentions, Wants
  <2>3. (\E i \in DOMAIN a : /\ Wants(a[i], t)
                             /\ \A j \in DOMAIN a : j > i => ~Mentions(a[j], t))
        <=> (\E i \in DOMAIN s : /\ Wants(s[i], t)
                                 /\ \A j \in DOMAIN s : j > i => ~Mentions(s[j], t))
    <3>1. ASSUME NEW i \in DOMAIN a, Wants(a[i], t),
                 \A j \in DOMAIN a : j > i => ~Mentions(a[j], t)
          PROVE  i \in DOMAIN s /\ Wants(s[i], t)
                 /\ \A j \in DOMAIN s : j > i => ~Mentions(s[j], t)
      BY <1>1, <2>2, <3>1
    <3>2. ASSUME NEW i \in DOMAIN s, Wants(s[i], t),
                 \A j \in DOMAIN s : j > i => ~Mentions(s[j], t)
          PROVE  i \in DOMAIN a /\ Wants(a[i], t)
                 /\ \A j \in DOMAIN a : j > i => ~Mentions(a[j], t)
      BY <1>1, <1>3, <3>2
    <3> QED BY <3>1, <3>2
  <2> QED BY <1>3, <2>1, <2>3 DEF After, One, a
<1> QED BY <1>2, <1>3

\* A message that leaves the front of one stage has its effect in the next.
LEMMA AfterTail ==
  ASSUME NEW s \in Seq(Messages), s # <<>>, NEW t, NEW d \in BOOLEAN
  PROVE  After(Tail(s), t, One(Head(s), t, d)) = After(s, t, d)
<1> DEFINE r == Tail(s)
<1>1. /\ DOMAIN s = 1 .. Len(s) /\ Len(s) \in Nat /\ Len(s) > 0
      /\ DOMAIN r = 1 .. Len(s) - 1
      /\ \A i \in DOMAIN r : r[i] = s[i + 1]
      /\ Head(s) = s[1]
  OBVIOUS
<1> HIDE DEF r
<1>2. CASE \E i \in DOMAIN r : Mentions(r[i], t)
  <2>1. \E i \in DOMAIN s : Mentions(s[i], t)
    BY <1>1, <1>2
  <2>2. PICK k \in DOMAIN r : Mentions(r[k], t)
    BY <1>2
  <2>3. ASSUME NEW i \in DOMAIN s, Wants(s[i], t),
               \A j \in DOMAIN s : j > i => ~Mentions(s[j], t)
        PROVE  \E n \in DOMAIN r : /\ Wants(r[n], t)
                                   /\ \A j \in DOMAIN r : j > n => ~Mentions(r[j], t)
    <3>1. i # 1
      BY <1>1, <2>2, <2>3
    <3>2. i - 1 \in DOMAIN r /\ r[i - 1] = s[i]
      BY <1>1, <3>1
    <3>3. \A j \in DOMAIN r : j > i - 1 => ~Mentions(r[j], t)
      <4> SUFFICES ASSUME NEW j \in DOMAIN r, j > i - 1 PROVE ~Mentions(r[j], t)
        OBVIOUS
      <4>1. j + 1 \in DOMAIN s /\ j + 1 > i /\ r[j] = s[j + 1]
        BY <1>1
      <4> QED BY <2>3, <4>1
    <3> QED BY <2>3, <3>2, <3>3
  <2>4. ASSUME NEW n \in DOMAIN r, Wants(r[n], t),
               \A j \in DOMAIN r : j > n => ~Mentions(r[j], t)
        PROVE  \E i \in DOMAIN s : /\ Wants(s[i], t)
                                   /\ \A j \in DOMAIN s : j > i => ~Mentions(s[j], t)
    <3>1. n + 1 \in DOMAIN s /\ Wants(s[n + 1], t)
      BY <1>1, <2>4
    <3>2. \A j \in DOMAIN s : j > n + 1 => ~Mentions(s[j], t)
      <4> SUFFICES ASSUME NEW j \in DOMAIN s, j > n + 1 PROVE ~Mentions(s[j], t)
        OBVIOUS
      <4>1. j - 1 \in DOMAIN r /\ j - 1 > n /\ r[j - 1] = s[j]
        BY <1>1
      <4> QED BY <2>4, <4>1
    <3> QED BY <3>1, <3>2
  <2> QED BY <1>2, <2>1, <2>3, <2>4 DEF After, r
<1>3. CASE ~\E i \in DOMAIN r : Mentions(r[i], t)
  <2>1. \A j \in DOMAIN s : j > 1 => ~Mentions(s[j], t)
    <3> SUFFICES ASSUME NEW j \in DOMAIN s, j > 1 PROVE ~Mentions(s[j], t)
      OBVIOUS
    <3>1. j - 1 \in DOMAIN r /\ r[j - 1] = s[j]
      BY <1>1
    <3> QED BY <1>3, <3>1
  <2>2. After(r, t, One(s[1], t, d)) = One(s[1], t, d)
    BY <1>3 DEF After
  <2>3. CASE Mentions(s[1], t)
    <3>1. \E i \in DOMAIN s : Mentions(s[i], t)
      BY <1>1, <2>3
    <3>2. (\E i \in DOMAIN s : /\ Wants(s[i], t)
                               /\ \A j \in DOMAIN s : j > i => ~Mentions(s[j], t))
          <=> Wants(s[1], t)
      <4>1. \A i \in DOMAIN s : Wants(s[i], t) => Mentions(s[i], t)
        BY DEF Wants, Mentions
      <4> QED BY <1>1, <2>1, <4>1
    <3> QED BY <1>1, <2>2, <2>3, <3>1, <3>2 DEF After, One, Wants, r
  <2>4. CASE ~Mentions(s[1], t)
    <3>1. ~\E i \in DOMAIN s : Mentions(s[i], t)
      BY <1>1, <2>1, <2>4
    <3> QED BY <1>1, <2>2, <2>4, <3>1 DEF After, One, r
  <2> QED BY <2>3, <2>4
<1> QED BY <1>2, <1>3

\* After is an opinion.
LEMMA AfterBool ==
  ASSUME NEW s, NEW t, NEW d \in BOOLEAN
  PROVE  After(s, t, d) \in BOOLEAN
BY DEF After

\* One message read: what After makes of a sequence of length one.
LEMMA AfterSingle ==
  ASSUME NEW m \in Messages, NEW t, NEW d \in BOOLEAN
  PROVE  After(<<m>>, t, d) = One(m, t, d)
<1>1. <<m>> = Append(<<>>, m) /\ <<>> \in Seq(Messages)
  OBVIOUS
<1>2. After(Append(<<>>, m), t, d) = One(m, t, After(<<>>, t, d))
  BY <1>1, AfterAppend
<1>3. After(<<>>, t, d) = d
  BY AfterEmpty
<1> QED BY <1>1, <1>2, <1>3

\* Applying a message to the view (processIncomingInterestMessage) is reading it.
LEMMA ApplyIsOne ==
  ASSUME NEW m \in Messages, NEW v \in SUBSET Topics, NEW t \in Topics
  PROVE  (t \in Apply(m, v)) = One(m, t, t \in v)
BY DEF Apply, One, Mentions, Wants, Messages, Kinds

-----------------------------------------------------------------------------
\* Initially nothing is subscribed, queued or known.
LEMMA InitType == Init => TypeOK
BY CapsAssumption
DEF Init, TypeOK, Bounds, IdleOp, IdleResync, Msg, Messages, Kinds

\* Interest is a set of topics.
LEMMA InterestType == ASSUME NEW S PROVE Interest(S) \in SUBSET Topics
BY DEF Interest

\* A requeued message is a message, and there is room for it.
LEMMA RequeueType ==
  ASSUME TypeOK, NEW p \in Peers, NEW lost
  PROVE  /\ Requeue(p, lost) \in Seq(Messages)
         /\ queue[p] \o Requeue(p, lost) \in Seq(Messages)
         /\ Len(queue[p] \o Requeue(p, lost)) <= QueueCap
<1>1. queue[p] \in Seq(Messages) /\ held[p] \in Seq(Messages) /\ Len(queue[p]) <= QueueCap
  BY DEF TypeOK
<1>2. CASE Requeue(p, lost) = <<>>
  BY <1>1, <1>2
<1>3. CASE Requeue(p, lost) # <<>>
  <2>1. /\ held[p] # <<>> /\ Len(queue[p]) < QueueCap
        /\ Requeue(p, lost) = <<[Head(held[p]) EXCEPT !.tries = @ + 1]>>
    BY <1>3 DEF Requeue
  <2>2. Head(held[p]) \in Messages
    BY <1>1, <2>1
  <2>3. [Head(held[p]) EXCEPT !.tries = @ + 1] \in Messages
    BY <2>2 DEF Messages
  <2>4. Requeue(p, lost) \in Seq(Messages) /\ Len(Requeue(p, lost)) = 1
    BY <2>1, <2>3
  <2> QED BY <1>1, <2>1, <2>4, CapsAssumption
<1> QED BY <1>2, <1>3

\* Every step keeps the shape of the state and respects the capacities.
LEMMA NextType == TypeOK /\ [Next]_vars => TypeOK'
<1> SUFFICES ASSUME TypeOK, [Next]_vars PROVE TypeOK'
  OBVIOUS
<1> USE CapsAssumption
<1>sp. ASSUME NEW what \in Bounds, NEW max, Spend(what, max)
       PROVE  used' \in [Bounds -> Nat]
  BY <1>sp DEF TypeOK, Spend
<1>1. ASSUME NEW c \in Clients, NEW t \in Topics, Subscribe(c, t) PROVE TypeOK'
  <2>1. used' \in [Bounds -> Nat]
    BY <1>1, <1>sp DEF Subscribe, Bounds
  <2>2. op' \in [pc : {"idle", "list", "send"}, msg : Messages, todo : SUBSET Peers]
    BY <1>1 DEF Subscribe, IdleOp, Msg, Messages, Kinds
  <2>3. subs' \subseteq Clients \X Topics
    BY <1>1 DEF TypeOK, Subscribe
  <2> QED BY <1>1, <2>1, <2>2, <2>3 DEF TypeOK, Subscribe, linkVars, peerVars, ghostVars
<1>2. ASSUME NEW c \in Clients, NEW t \in Topics, Unsubscribe(c, t) PROVE TypeOK'
  <2>1. used' \in [Bounds -> Nat]
    BY <1>2, <1>sp DEF Unsubscribe, Bounds
  <2>2. op' \in [pc : {"idle", "list", "send"}, msg : Messages, todo : SUBSET Peers]
    BY <1>2 DEF Unsubscribe, IdleOp, Msg, Messages, Kinds
  <2>3. subs' \subseteq Clients \X Topics
    BY <1>2 DEF TypeOK, Unsubscribe
  <2> QED BY <1>2, <2>1, <2>2, <2>3 DEF TypeOK, Unsubscribe, linkVars, peerVars, ghostVars
<1>3. ASSUME ListPeers PROVE TypeOK'
  BY <1>3 DEF TypeOK, ListPeers, Connected, IdleOp, Msg, Messages, Kinds, linkVars, peerVars
<1>4. ASSUME Tick PROVE TypeOK'
  BY <1>4 DEF TypeOK, Tick, Connected, linkVars, peerVars, ghostVars
<1>5. ASSUME ReadSnapshot PROVE TypeOK'
  BY <1>5, InterestType DEF TypeOK, ReadSnapshot, linkVars, peerVars, ghostVars
<1>6. ASSUME NodeRestart PROVE TypeOK'
  <2>1. used' \in [Bounds -> Nat]
    BY <1>6, <1>sp DEF NodeRestart, Bounds
  <2>2. op' \in [pc : {"idle", "list", "send"}, msg : Messages, todo : SUBSET Peers]
    BY <1>6 DEF NodeRestart, IdleOp, Msg, Messages, Kinds
  <2> QED BY <1>6, <2>1, <2>2 DEF TypeOK, NodeRestart, IdleResync, peerVars
<1>op. ASSUME NEW p \in Peers, OpDoneWith(p)
       PROVE  op' \in [pc : {"idle", "list", "send"}, msg : Messages, todo : SUBSET Peers]
  BY <1>op DEF OpDoneWith, TypeOK, IdleOp, Msg, Messages, Kinds
<1>rs. ASSUME NEW p \in Peers, NEW ok \in BOOLEAN, ResyncDoneWith(p, ok)
       PROVE  /\ resync' \in [pc : {"idle", "loop", "snap"}, todo : SUBSET Peers,
                               current : SUBSET Peers, topics : SUBSET Topics]
              /\ seen' \subseteq Peers
  <2>1. /\ resync \in [pc : {"idle", "loop", "snap"}, todo : SUBSET Peers,
                        current : SUBSET Peers, topics : SUBSET Topics]
        /\ seen \subseteq Peers
    BY DEF TypeOK
  <2>2. (IF ok THEN seen \cup {p} ELSE seen) \subseteq Peers
    BY <2>1
  <2>3. CASE resync.todo \ {p} = {}
    BY <1>rs, <2>2, <2>3 DEF ResyncDoneWith, IdleResync
  <2>4. CASE resync.todo \ {p} # {}
    BY <1>rs, <2>1, <2>2, <2>4 DEF ResyncDoneWith
  <2> QED BY <2>3, <2>4
<1>ap. ASSUME NEW p \in Peers, NEW m \in Messages, Len(queue[p]) < QueueCap,
              queue' = [queue EXCEPT ![p] = Append(@, m)]
       PROVE  /\ queue' \in [Peers -> Seq(Messages)]
              /\ \A x \in Peers : Len(queue'[x]) <= QueueCap
  BY <1>ap DEF TypeOK
<1>7. ASSUME NEW p \in Peers, SendDelta(p) PROVE TypeOK'
  <2>1. op.msg \in Messages
    BY DEF TypeOK
  <2>2. /\ queue' \in [Peers -> Seq(Messages)]
        /\ \A x \in Peers : Len(queue'[x]) <= QueueCap
    BY <1>7, <1>ap, <2>1 DEF SendDelta
  <2> QED BY <1>7, <1>op, <2>2 DEF TypeOK, SendDelta, peerVars, ghostVars
<1>8. ASSUME NEW p \in Peers, DropDelta(p) PROVE TypeOK'
  BY <1>8, <1>op DEF TypeOK, DropDelta, linkVars, peerVars
<1>9. ASSUME NEW p \in Peers, SendSnapshot(p) PROVE TypeOK'
  <2>1. Msg("snapshot", resync.topics) \in Messages
    BY DEF TypeOK, Msg, Messages, Kinds
  <2>2. /\ queue' \in [Peers -> Seq(Messages)]
        /\ \A x \in Peers : Len(queue'[x]) <= QueueCap
    BY <1>9, <1>ap, <2>1 DEF SendSnapshot
  <2>3. /\ resync' \in [pc : {"idle", "loop", "snap"}, todo : SUBSET Peers,
                         current : SUBSET Peers, topics : SUBSET Topics]
        /\ seen' \subseteq Peers
    BY <1>9, <1>rs DEF SendSnapshot
  <2> QED BY <1>9, <2>2, <2>3 DEF TypeOK, SendSnapshot, peerVars
<1>10. ASSUME NEW p \in Peers, DropSnapshot(p) PROVE TypeOK'
  <2>1. /\ resync' \in [pc : {"idle", "loop", "snap"}, todo : SUBSET Peers,
                         current : SUBSET Peers, topics : SUBSET Topics]
        /\ seen' \subseteq Peers
    BY <1>10, <1>rs DEF DropSnapshot
  <2> QED BY <1>10, <2>1 DEF TypeOK, DropSnapshot, linkVars, peerVars, ghostVars
<1>11. ASSUME NEW p \in Peers, Accept(p) \/ Establish(p) PROVE TypeOK'
  <2>1. PICK s \in {"in", "out"} : stream' = [stream EXCEPT ![p] = @ \cup {s}]
    BY <1>11 DEF Accept, Establish
  <2>2. stream' \in [Peers -> SUBSET {"in", "out"}]
    <3>1. stream[p] \cup {s} \in SUBSET {"in", "out"}
      BY DEF TypeOK
    <3> QED BY <2>1, <3>1 DEF TypeOK
  <2>3. link' \in [Peers -> {"none", "in", "out", "dead"}] /\ damaged' \in [Peers -> BOOLEAN]
    BY <1>11 DEF TypeOK, Accept, Establish
  <2> QED BY <1>11, <2>2, <2>3 DEF TypeOK, Accept, Establish, nodeVars, peerVars
<1>20. ASSUME NEW p \in Peers, Connect(p) \/ Cleanup(p) PROVE TypeOK'
  BY <1>20 DEF TypeOK, Connect, Cleanup, nodeVars, peerVars, ghostVars
<1>21. ASSUME NEW p \in Peers, AcceptFails(p) PROVE TypeOK'
  BY <1>21, <1>sp DEF Bounds, TypeOK, AcceptFails, nodeVars, peerVars, ghostVars
<1>12. ASSUME NEW p \in Peers, Dequeue(p) PROVE TypeOK'
  <2>1. /\ Head(queue[p]) \in Messages
        /\ Tail(queue[p]) \in Seq(Messages)
        /\ Len(Tail(queue[p])) <= QueueCap
    BY <1>12 DEF TypeOK, Dequeue
  <2> QED BY <1>12, <2>1 DEF TypeOK, Dequeue, nodeVars, peerVars, ghostVars
<1>13. ASSUME NEW p \in Peers, Send(p) PROVE TypeOK'
  <2>1. Head(held[p]) \in Messages
    BY <1>13 DEF TypeOK, Send
  <2>2. [Head(held[p]) EXCEPT !.tries = 0] \in Messages
    BY <2>1 DEF Messages
  <2> QED BY <1>13, <2>2 DEF TypeOK, Send, nodeVars, peerVars, ghostVars
<1>ls. ASSUME NEW p \in Peers, NEW lost, LoseStream(p, lost)
       PROVE  /\ link' = link /\ dials' = dials
              /\ stream' \in [Peers -> SUBSET {"in", "out"}]
              /\ queue' \in [Peers -> Seq(Messages)]
              /\ held' \in [Peers -> Seq(Messages)]
              /\ wire' \in [Peers -> Seq(Messages)]
              /\ synced' \in [Peers -> BOOLEAN]
              /\ \A x \in Peers : Len(queue'[x]) <= QueueCap /\ Len(held'[x]) <= 1
  <2>1. queue[p] \o Requeue(p, lost) \in Seq(Messages) /\ Len(queue[p] \o Requeue(p, lost)) <= QueueCap
    BY RequeueType
  <2>2. stream' \in [Peers -> SUBSET {"in", "out"}]
    <3>1. stream[p] \ lost \in SUBSET {"in", "out"}
      BY DEF TypeOK
    <3> QED BY <1>ls, <3>1 DEF LoseStream, TypeOK
  <2> QED BY <1>ls, <2>1, <2>2 DEF LoseStream, TypeOK
<1>14. ASSUME NEW p \in Peers, Break(p) PROVE TypeOK'
  <2>1. PICK s \in stream[p] : LoseStream(p, {s})
    BY <1>14 DEF Break
  <2>2. damaged' \in [Peers -> BOOLEAN]
    BY <1>14 DEF Break, HarmlessBreak, TypeOK
  <2>3. used' \in [Bounds -> Nat]
    BY <1>14, <1>sp DEF Bounds, Break
  <2> QED BY <1>14, <1>ls, <2>1, <2>2, <2>3 DEF TypeOK, Break, nodeVars, peerVars
<1>15. ASSUME NEW p \in Peers, PeerRestart(p) PROVE TypeOK'
  BY <1>15, <1>sp, <1>ls DEF Bounds, TypeOK, PeerRestart, nodeVars
<1>16. ASSUME NEW p \in Peers, PeerReady(p) PROVE TypeOK'
  BY <1>16 DEF TypeOK, PeerReady, nodeVars, linkVars, ghostVars
<1>17. ASSUME NEW p \in Peers, PeerReceive(p) PROVE TypeOK'
  <2>1. Head(wire[p]) \in Messages /\ Tail(wire[p]) \in Seq(Messages)
    BY <1>17 DEF TypeOK, PeerReceive
  <2>2. wire' \in [Peers -> Seq(Messages)]
    BY <1>17, <2>1 DEF TypeOK, PeerReceive
  <2>3. /\ rx' \in [Peers -> Seq(Messages)] /\ damaged' \in [Peers -> BOOLEAN]
        /\ \A x \in Peers : Len(rx'[x]) <= RxCap
    <3>1. CASE ready[p] /\ Len(rx[p]) < RxCap
      <4>1. /\ Append(rx[p], Head(wire[p])) \in Seq(Messages)
            /\ Len(Append(rx[p], Head(wire[p]))) <= RxCap
        BY <2>1, <3>1 DEF TypeOK
      <4>2. rx' = [rx EXCEPT ![p] = Append(rx[p], Head(wire[p]))] /\ damaged' = damaged
        BY <1>17, <3>1 DEF PeerReceive
      <4>3. /\ rx \in [Peers -> Seq(Messages)] /\ damaged \in [Peers -> BOOLEAN]
            /\ \A x \in Peers : Len(rx[x]) <= RxCap
        BY DEF TypeOK
      <4> QED BY <4>1, <4>2, <4>3
    <3>2. CASE ~(ready[p] /\ Len(rx[p]) < RxCap)
      BY <1>17, <3>2 DEF TypeOK, PeerReceive
    <3> QED BY <3>1, <3>2
  <2> QED BY <1>17, <2>2, <2>3 DEF TypeOK, PeerReceive, nodeVars
<1>18. ASSUME NEW p \in Peers, PeerApply(p) PROVE TypeOK'
  <2>1. /\ Head(rx[p]) \in Messages /\ Tail(rx[p]) \in Seq(Messages)
        /\ Len(Tail(rx[p])) <= RxCap
    BY <1>18 DEF TypeOK, PeerApply
  <2>2. view[p] \in SUBSET Topics
    BY DEF TypeOK
  <2>3. Apply(Head(rx[p]), view[p]) \in SUBSET Topics
    BY <2>1, <2>2 DEF Apply, Messages, Kinds
  <2> QED BY <1>18, <2>1, <2>3 DEF TypeOK, PeerApply, nodeVars, linkVars, ghostVars
<1>19. ASSUME UNCHANGED vars PROVE TypeOK'
  BY <1>19 DEF TypeOK, vars, nodeVars, linkVars, peerVars, ghostVars
<1> QED
  BY <1>1, <1>2, <1>3, <1>4, <1>5, <1>6, <1>7, <1>8, <1>9, <1>10, <1>11, <1>12,
     <1>13, <1>14, <1>15, <1>16, <1>17, <1>18, <1>19, <1>20, <1>21 DEF Next, Progress

\* The shape of the state is an invariant of the gossip, and with it the
\* capacities of the control queue and of the peer's channel: no interleaving
\* of callers, resync and requeueing overfills either.
THEOREM TypeCorrect == Spec => []TypeOK
<1>1. Init => TypeOK
  BY InitType
<1>2. TypeOK /\ [Next]_vars => TypeOK'
  BY NextType
<1> QED BY <1>1, <1>2, PTL DEF Spec

-----------------------------------------------------------------------------
\* Only Subscribe, Unsubscribe and a restart touch the metadata, and each of
\* them leaves the caller with a delta that says what the metadata then says.
LEMMA NextDelta == TypeOK /\ DeltaAccurate /\ [Next]_vars => DeltaAccurate'
<1> SUFFICES ASSUME TypeOK, DeltaAccurate, [Next]_vars PROVE DeltaAccurate'
  OBVIOUS
<1>1. ASSUME NEW c \in Clients, NEW t \in Topics, Subscribe(c, t) PROVE DeltaAccurate'
  BY <1>1 DEF DeltaAccurate, Subscribe, IdleOp, Msg, Wants, Interested
<1>2. ASSUME NEW c \in Clients, NEW t \in Topics, Unsubscribe(c, t) PROVE DeltaAccurate'
  BY <1>2 DEF DeltaAccurate, Unsubscribe, IdleOp, Msg, Wants, Interested
<1>3. CASE NodeRestart
  BY <1>3 DEF DeltaAccurate, NodeRestart, IdleOp
<1>4. ASSUME subs' = subs, op' = op \/ op'.pc = "idle"
                           \/ (op.pc # "idle" /\ op'.msg = op.msg)
      PROVE  DeltaAccurate'
  BY <1>4 DEF DeltaAccurate, Wants, Interested
<1>5. CASE ListPeers
  <2>1. subs' = subs /\ op.pc # "idle" /\ (op'.pc = "idle" \/ op'.msg = op.msg)
    BY <1>5 DEF ListPeers, IdleOp, TypeOK
  <2> QED BY <1>4, <2>1
<1>6. ASSUME NEW p \in Peers, SendDelta(p) \/ DropDelta(p) PROVE DeltaAccurate'
  <2>1. subs' = subs /\ op.pc # "idle" /\ (op'.pc = "idle" \/ op'.msg = op.msg)
    BY <1>6 DEF SendDelta, DropDelta, OpDoneWith, IdleOp, TypeOK
  <2> QED BY <1>4, <2>1
<1>7. ASSUME subs' = subs, op' = op PROVE DeltaAccurate'
  BY <1>7, <1>4
<1>8. CASE Tick \/ ReadSnapshot \/ UNCHANGED vars
  BY <1>7, <1>8 DEF Tick, ReadSnapshot, vars, nodeVars
<1>9. ASSUME NEW p \in Peers,
             \/ SendSnapshot(p) \/ DropSnapshot(p) \/ Accept(p) \/ AcceptFails(p)
             \/ Cleanup(p) \/ Connect(p) \/ Establish(p) \/ Dequeue(p) \/ Send(p) \/ Break(p)
             \/ PeerReady(p) \/ PeerReceive(p) \/ PeerApply(p) \/ PeerRestart(p)
      PROVE  DeltaAccurate'
  BY <1>7, <1>9 DEF SendSnapshot, DropSnapshot, Accept, AcceptFails, Cleanup, Connect,
     Establish, Dequeue, Send, Break, PeerReady, PeerReceive, PeerApply, PeerRestart, nodeVars
<1> QED BY <1>1, <1>2, <1>3, <1>5, <1>6, <1>8, <1>9 DEF Next, Progress

-----------------------------------------------------------------------------
\* PipelineFaithful, for one peer.
FaithfulFor(p) ==
  ~damaged[p] => \A t \in Topics : Outcome(p, t) # Interested(subs, t) => Pending(p, t)

\* An opinion on every topic, whatever the stage.
LEMMA OutcomeBool ==
  ASSUME NEW p, NEW t
  PROVE  Outcome(p, t) \in BOOLEAN
<1>1. (t \in view[p]) \in BOOLEAN
  OBVIOUS
<1>2. After(rx[p], t, t \in view[p]) \in BOOLEAN
  BY <1>1, AfterBool
<1>3. After(wire[p], t, After(rx[p], t, t \in view[p])) \in BOOLEAN
  BY <1>2, AfterBool
<1>4. After(held[p], t, After(wire[p], t, After(rx[p], t, t \in view[p]))) \in BOOLEAN
  BY <1>3, AfterBool
<1> QED BY <1>4, AfterBool DEF Outcome

\* Moving a message along the pipeline does not change its outcome.
LEMMA MovedFaithful ==
  ASSUME NEW p \in Peers, FaithfulFor(p), subs' = subs, op' = op,
         damaged'[p] = damaged[p],
         \A t \in Topics : Outcome(p, t)' = Outcome(p, t)
  PROVE  FaithfulFor(p)'
BY DEF FaithfulFor, Pending, Interested

\* The opinions at the four boundaries of p's pipeline, downstream to upstream.
AtPeer(p, t) == After(rx[p], t, t \in view[p])
OnWire(p, t) == After(wire[p], t, AtPeer(p, t))
InHand(p, t) == After(held[p], t, OnWire(p, t))

\* The opinions at the boundaries between the stages, one in terms of the next.
LEMMA Boundaries ==
  ASSUME NEW p, NEW t
  PROVE  /\ AtPeer(p, t) \in BOOLEAN /\ OnWire(p, t) \in BOOLEAN /\ InHand(p, t) \in BOOLEAN
         /\ Outcome(p, t) = After(queue[p], t, InHand(p, t))
<1>1. (t \in view[p]) \in BOOLEAN
  OBVIOUS
<1>2. AtPeer(p, t) \in BOOLEAN
  BY <1>1, AfterBool DEF AtPeer
<1>3. OnWire(p, t) \in BOOLEAN
  BY <1>2, AfterBool DEF OnWire
<1>4. InHand(p, t) \in BOOLEAN
  BY <1>3, AfterBool DEF InHand
<1> QED BY <1>2, <1>3, <1>4 DEF Outcome, InHand, OnWire, AtPeer

\* Queueing m gives it the last word on the topics it mentions.
LEMMA Queued ==
  ASSUME TypeOK, NEW p \in Peers, NEW m \in Messages,
         queue' = [queue EXCEPT ![p] = Append(@, m)],
         held' = held, wire' = wire, rx' = rx, view' = view, NEW t \in Topics
  PROVE  Outcome(p, t)' = One(m, t, Outcome(p, t))
<1>1. queue[p] \in Seq(Messages) /\ queue'[p] = Append(queue[p], m)
  BY DEF TypeOK
<1>2. InHand(p, t)' = InHand(p, t)
  BY DEF InHand, OnWire, AtPeer
<1>3. InHand(p, t) \in BOOLEAN /\ Outcome(p, t) = After(queue[p], t, InHand(p, t))
  BY Boundaries
<1>4. Outcome(p, t)' = After(queue'[p], t, InHand(p, t)')
  BY DEF Outcome, InHand, OnWire, AtPeer
<1>5. After(Append(queue[p], m), t, InHand(p, t)) = One(m, t, After(queue[p], t, InHand(p, t)))
  BY <1>1, <1>3, AfterAppend
<1> QED BY <1>1, <1>2, <1>3, <1>4, <1>5

\* Taking the head of the queue in hand.
LEMMA Dequeued ==
  ASSUME TypeOK, NEW p \in Peers, Dequeue(p), NEW t \in Topics
  PROVE  Outcome(p, t)' = Outcome(p, t)
<1> DEFINE h == Head(queue[p])
<1>1. /\ queue[p] \in Seq(Messages) /\ queue[p] # <<>> /\ h \in Messages
      /\ held[p] = <<>> /\ held'[p] = <<h>> /\ queue'[p] = Tail(queue[p])
  BY DEF TypeOK, Dequeue
<1>2. OnWire(p, t)' = OnWire(p, t) /\ OnWire(p, t) \in BOOLEAN
  BY Boundaries DEF Dequeue, peerVars, OnWire, AtPeer
<1>3. InHand(p, t)' = One(h, t, OnWire(p, t))
  BY <1>1, <1>2, AfterSingle DEF InHand
<1>4. InHand(p, t) = OnWire(p, t)
  BY <1>1, <1>2, AfterEmpty DEF InHand
<1>5. After(Tail(queue[p]), t, One(h, t, OnWire(p, t))) = After(queue[p], t, OnWire(p, t))
  BY <1>1, <1>2, AfterTail
<1>6. Outcome(p, t) = After(queue[p], t, InHand(p, t))
  BY Boundaries
<1>7. Outcome(p, t)' = After(queue'[p], t, InHand(p, t)')
  BY DEF Outcome, InHand, OnWire, AtPeer
<1> QED BY <1>1, <1>3, <1>4, <1>5, <1>6, <1>7

\* Handing the message to the stream.
LEMMA Sent ==
  ASSUME TypeOK, NEW p \in Peers, Send(p), NEW t \in Topics
  PROVE  Outcome(p, t)' = Outcome(p, t)
<1> DEFINE h == Head(held[p])
           g == [h EXCEPT !.tries = 0]
<1>1. /\ held[p] \in Seq(Messages) /\ held[p] # <<>> /\ Len(held[p]) <= 1
      /\ held'[p] = <<>> /\ wire[p] \in Seq(Messages) /\ wire'[p] = Append(wire[p], g)
      /\ queue'[p] = queue[p]
  BY DEF TypeOK, Send
<1>2. h \in Messages /\ held[p] = <<h>>
  BY <1>1
<1>3. g \in Messages /\ g.kind = h.kind /\ g.topics = h.topics
  BY <1>2 DEF Messages
<1>4. \A d : One(g, t, d) = One(h, t, d)
  BY <1>3 DEF One, Mentions, Wants
<1>5. AtPeer(p, t)' = AtPeer(p, t) /\ AtPeer(p, t) \in BOOLEAN /\ OnWire(p, t) \in BOOLEAN
  BY Boundaries DEF Send, peerVars, AtPeer
<1>6. OnWire(p, t)' = After(Append(wire[p], g), t, AtPeer(p, t))
  BY <1>1, <1>5 DEF OnWire
<1>7. OnWire(p, t)' = One(h, t, OnWire(p, t))
  BY <1>1, <1>3, <1>4, <1>5, <1>6, AfterAppend DEF OnWire
<1>8. InHand(p, t) = One(h, t, OnWire(p, t))
  BY <1>2, <1>5, AfterSingle DEF InHand
<1>9. InHand(p, t) \in BOOLEAN /\ Outcome(p, t) = After(queue[p], t, InHand(p, t))
  BY Boundaries
<1>10. InHand(p, t)' = InHand(p, t)
  <2>1. InHand(p, t)' = After(<<>>, t, OnWire(p, t)')
    BY <1>1 DEF InHand
  <2> QED BY <1>7, <1>8, <1>9, <2>1, AfterEmpty
<1>11. Outcome(p, t)' = After(queue'[p], t, InHand(p, t)')
  BY DEF Outcome, InHand, OnWire, AtPeer
<1> QED BY <1>1, <1>9, <1>10, <1>11

\* Putting a received message in the peer's channel.
LEMMA Received ==
  ASSUME TypeOK, NEW p \in Peers, PeerReceive(p), ready[p], Len(rx[p]) < RxCap,
         NEW t \in Topics
  PROVE  Outcome(p, t)' = Outcome(p, t)
<1> DEFINE h == Head(wire[p])
<1>1. /\ wire[p] \in Seq(Messages) /\ wire[p] # <<>> /\ h \in Messages
      /\ rx[p] \in Seq(Messages) /\ wire'[p] = Tail(wire[p])
      /\ rx'[p] = Append(rx[p], h) /\ held' = held /\ queue' = queue /\ view' = view
  BY DEF TypeOK, PeerReceive
<1>2. AtPeer(p, t) \in BOOLEAN /\ OnWire(p, t) \in BOOLEAN
  BY Boundaries
<1>3. AtPeer(p, t)' = One(h, t, AtPeer(p, t))
  <2> DEFINE d == t \in view[p]
  <2>1. d \in BOOLEAN
    OBVIOUS
  <2>2. AtPeer(p, t)' = After(Append(rx[p], h), t, d) /\ AtPeer(p, t) = After(rx[p], t, d)
    BY <1>1 DEF AtPeer
  <2> HIDE DEF d
  <2>3. After(Append(rx[p], h), t, d) = One(h, t, After(rx[p], t, d))
    BY <1>1, <2>1, AfterAppend
  <2> QED BY <2>2, <2>3
<1>4. OnWire(p, t)' = OnWire(p, t)
  <2>1. OnWire(p, t)' = After(Tail(wire[p]), t, One(h, t, AtPeer(p, t)))
    BY <1>1, <1>3 DEF OnWire
  <2> QED BY <1>1, <1>2, <2>1, AfterTail DEF OnWire
<1>5. InHand(p, t)' = InHand(p, t)
  BY <1>1, <1>4 DEF InHand
<1>6. Outcome(p, t) = After(queue[p], t, InHand(p, t))
  BY Boundaries
<1>7. Outcome(p, t)' = After(queue'[p], t, InHand(p, t)')
  BY DEF Outcome, InHand, OnWire, AtPeer
<1> QED BY <1>1, <1>5, <1>6, <1>7

\* Applying the head of the channel to the view.
LEMMA Applied ==
  ASSUME TypeOK, NEW p \in Peers, PeerApply(p), NEW t \in Topics
  PROVE  Outcome(p, t)' = Outcome(p, t)
<1> DEFINE h == Head(rx[p])
<1>1. /\ rx[p] \in Seq(Messages) /\ rx[p] # <<>> /\ h \in Messages
      /\ view[p] \in SUBSET Topics /\ rx'[p] = Tail(rx[p])
      /\ view'[p] = Apply(h, view[p]) /\ wire' = wire /\ held' = held /\ queue' = queue
  BY DEF TypeOK, PeerApply, linkVars
<1>2. (t \in view'[p]) = One(h, t, t \in view[p])
  BY <1>1, ApplyIsOne
<1>3. AtPeer(p, t)' = AtPeer(p, t)
  <2>1. (t \in view[p]) \in BOOLEAN
    OBVIOUS
  <2>2. AtPeer(p, t)' = After(Tail(rx[p]), t, One(h, t, t \in view[p]))
    BY <1>1, <1>2 DEF AtPeer
  <2> QED BY <1>1, <2>1, <2>2, AfterTail DEF AtPeer
<1>4. InHand(p, t)' = InHand(p, t)
  BY <1>1, <1>3 DEF InHand, OnWire
<1>5. Outcome(p, t) = After(queue[p], t, InHand(p, t))
  BY Boundaries
<1>6. Outcome(p, t)' = After(queue'[p], t, InHand(p, t)')
  BY DEF Outcome, InHand, OnWire, AtPeer
<1> QED BY <1>1, <1>4, <1>5, <1>6

\* Losing the stream is harmless when nothing was in flight, or when the one
\* message in hand goes back to an empty queue.
LEMMA LostHarmless ==
  ASSUME TypeOK, NEW p \in Peers, NEW lost, LoseStream(p, lost), HarmlessBreak(p, lost),
         rx' = rx, view' = view, NEW t \in Topics
  PROVE  Outcome(p, t)' = Outcome(p, t)
<1>1. /\ wire[p] = <<>> /\ wire'[p] = <<>> /\ held'[p] = <<>>
      /\ queue'[p] = queue[p] \o Requeue(p, lost)
      /\ queue[p] \in Seq(Messages) /\ held[p] \in Seq(Messages) /\ Len(held[p]) <= 1
  BY DEF TypeOK, LoseStream, HarmlessBreak
<1>2. AtPeer(p, t)' = AtPeer(p, t) /\ AtPeer(p, t) \in BOOLEAN
  BY Boundaries DEF AtPeer
<1>3. OnWire(p, t) = AtPeer(p, t) /\ OnWire(p, t)' = AtPeer(p, t)
  BY <1>1, <1>2, AfterEmpty DEF OnWire
<1>4. InHand(p, t)' = AtPeer(p, t)
  BY <1>1, <1>2, <1>3, AfterEmpty DEF InHand
<1>5. Outcome(p, t)' = After(queue[p] \o Requeue(p, lost), t, AtPeer(p, t))
  BY <1>1, <1>4 DEF Outcome, InHand, OnWire, AtPeer
<1>6. Outcome(p, t) = After(queue[p], t, InHand(p, t))
  BY Boundaries
<1>7. CASE held[p] = <<>>
  <2>1. InHand(p, t) = AtPeer(p, t)
    BY <1>2, <1>3, <1>7, AfterEmpty DEF InHand
  <2>2. queue[p] \o Requeue(p, lost) = queue[p]
    BY <1>1, <1>7 DEF Requeue
  <2> QED BY <1>5, <1>6, <2>1, <2>2
<1>8. CASE held[p] # <<>> /\ queue[p] = <<>> /\ Requeue(p, lost) # <<>>
  <2> DEFINE h == Head(held[p])
             g == [h EXCEPT !.tries = @ + 1]
  <2>1. h \in Messages /\ held[p] = <<h>>
    BY <1>1, <1>8
  <2>2. Requeue(p, lost) = <<g>>
    BY <1>8 DEF Requeue
  <2>3. g \in Messages /\ g.kind = h.kind /\ g.topics = h.topics
    BY <2>1 DEF Messages
  <2>4. One(g, t, AtPeer(p, t)) = One(h, t, AtPeer(p, t))
    BY <2>3 DEF One, Mentions, Wants
  <2>5. queue[p] \o Requeue(p, lost) = <<g>>
    BY <1>8, <2>2, <2>3
  <2>6. Outcome(p, t)' = One(g, t, AtPeer(p, t))
    BY <1>2, <1>5, <2>3, <2>5, AfterSingle
  <2>7. InHand(p, t) = One(h, t, AtPeer(p, t))
    BY <1>2, <1>3, <2>1, AfterSingle DEF InHand
  <2>8. InHand(p, t) \in BOOLEAN
    BY Boundaries
  <2>9. Outcome(p, t) = InHand(p, t)
    BY <1>6, <1>8, <2>8, AfterEmpty
  <2> QED BY <2>4, <2>6, <2>7, <2>9
<1> QED BY <1>7, <1>8 DEF HarmlessBreak

\* A delta queued for p settles p's account of the topics it mentions.
LEMMA DeltaFaithful ==
  ASSUME TypeOK, DeltaAccurate, NEW p \in Peers, FaithfulFor(p), SendDelta(p)
  PROVE  FaithfulFor(p)'
<1>1. /\ op.pc = "send" /\ op.msg \in Messages /\ op.msg.kind # "snapshot"
      /\ subs' = subs /\ damaged' = damaged
      /\ \A t \in op.msg.topics : Wants(op.msg, t) = Interested(subs, t)
  BY DEF TypeOK, DeltaAccurate, SendDelta, ghostVars
<1> SUFFICES ASSUME NEW t \in Topics, ~damaged[p] PROVE Outcome(p, t)' = Interested(subs, t)
  BY <1>1 DEF FaithfulFor, Interested
<1>2. Outcome(p, t)' = One(op.msg, t, Outcome(p, t))
  BY <1>1, Queued DEF SendDelta, peerVars
<1>3. CASE t \in op.msg.topics
  BY <1>1, <1>2, <1>3 DEF One, Mentions
<1>4. CASE t \notin op.msg.topics
  <2>1. ~Pending(p, t)
    BY <1>1, <1>4 DEF Pending
  <2> QED BY <1>1, <1>2, <1>4, <2>1 DEF FaithfulFor, One, Mentions
<1> QED BY <1>3, <1>4

\* A snapshot that still is the local interest when it is queued settles all.
LEMMA SnapshotFaithful ==
  ASSUME TypeOK, NEW p \in Peers, SendSnapshot(p)
  PROVE  FaithfulFor(p)'
<1> DEFINE m == Msg("snapshot", resync.topics)
<1>1. m \in Messages /\ subs' = subs
  BY DEF TypeOK, Msg, Messages, Kinds, SendSnapshot
<1> SUFFICES ASSUME NEW t \in Topics, ~damaged'[p] PROVE Outcome(p, t)' = Interested(subs, t)
  BY <1>1 DEF FaithfulFor, Interested
<1>2. damaged'[p] = (resync.topics # Interest(subs) \/ TwoStreams(p))
  BY DEF TypeOK, SendSnapshot
<1>3. resync.topics = Interest(subs)
  BY <1>2
<1>4. Outcome(p, t)' = One(m, t, Outcome(p, t))
  BY <1>1, Queued DEF SendSnapshot, peerVars
<1>5. One(m, t, Outcome(p, t)) = (t \in resync.topics)
  BY DEF One, Mentions, Wants, Msg
<1>6. (t \in Interest(subs)) = Interested(subs, t)
  <2>1. Interested(subs, t) \in BOOLEAN
    BY DEF Interested
  <2>2. t \in Interest(subs) <=> Interested(subs, t)
    BY DEF Interest
  <2> QED BY <2>1, <2>2
<1> QED BY <1>3, <1>4, <1>5, <1>6

\* Every step keeps every peer's pipeline faithful.
LEMMA NextFaithful ==
  ASSUME TypeOK, DeltaAccurate, [Next]_vars, NEW q \in Peers, FaithfulFor(q)
  PROVE  FaithfulFor(q)'
<1>t. \A t : Outcome(q, t) \in BOOLEAN
  BY OutcomeBool
<1>1. ASSUME NEW c \in Clients, NEW t \in Topics, Subscribe(c, t) PROVE FaithfulFor(q)'
  <2>1. /\ op.pc = "idle" /\ subs' = subs \cup {<<c, t>>} /\ damaged' = damaged
        /\ ~Interested(subs, t) => op'.pc = "list" /\ op'.msg.topics = {t}
    BY <1>1 DEF Subscribe, ghostVars, Msg
  <2>2. \A x \in Topics : Outcome(q, x)' = Outcome(q, x)
    BY <1>1 DEF Subscribe, linkVars, peerVars, Outcome
  <2>3. \A x \in Topics : ~Pending(q, x)
    BY <2>1 DEF Pending
  <2>4. \A x \in Topics : x # t => Interested(subs', x) = Interested(subs, x)
    BY <2>1 DEF Interested
  <2>5. Interested(subs', t)
    BY <2>1 DEF Interested
  <2>6. ~Interested(subs, t) => Pending(q, t)'
    BY <2>1 DEF Pending
  <2> QED BY <2>1, <2>2, <2>3, <2>4, <2>5, <2>6 DEF FaithfulFor, Interested
<1>2. ASSUME NEW c \in Clients, NEW t \in Topics, Unsubscribe(c, t) PROVE FaithfulFor(q)'
  <2>1. /\ op.pc = "idle" /\ subs' = subs \ {<<c, t>>} /\ damaged' = damaged
        /\ ~Interested(subs', t) => op'.pc = "list" /\ op'.msg.topics = {t}
    BY <1>2 DEF Unsubscribe, ghostVars, Msg
  <2>2. \A x \in Topics : Outcome(q, x)' = Outcome(q, x)
    BY <1>2 DEF Unsubscribe, linkVars, peerVars, Outcome
  <2>3. \A x \in Topics : ~Pending(q, x)
    BY <2>1 DEF Pending
  <2>4. \A x \in Topics : x # t => Interested(subs', x) = Interested(subs, x)
    BY <2>1 DEF Interested
  <2>5. Interested(subs', t) => Interested(subs, t)
    BY <2>1 DEF Interested
  <2>6. ~Interested(subs', t) => Pending(q, t)'
    BY <2>1 DEF Pending
  <2> QED BY <2>1, <2>2, <2>3, <2>4, <2>5, <2>6 DEF FaithfulFor, Interested
<1>3. CASE ListPeers
  <2>1. /\ subs' = subs /\ op.pc = "list" /\ damaged'[q] = (damaged[q] \/ q \notin Connected)
        /\ queue' = queue /\ held' = held /\ wire' = wire /\ rx' = rx /\ view' = view
    BY <1>3 DEF ListPeers, linkVars, peerVars
  <2>2. CASE q \notin Connected
    BY <2>1, <2>2 DEF FaithfulFor
  <2>3. CASE q \in Connected
    <3>1. op'.pc = "send" /\ op'.msg = op.msg /\ op'.todo = Connected
      BY <1>3, <2>3 DEF ListPeers, TypeOK
    <3>2. \A t \in Topics : Pending(q, t) => Pending(q, t)'
      BY <2>1, <2>3, <3>1 DEF Pending
    <3>3. \A t \in Topics : Outcome(q, t)' = Outcome(q, t)
      BY <2>1 DEF Outcome
    <3> QED BY <2>1, <2>3, <3>2, <3>3 DEF FaithfulFor, Interested
  <2> QED BY <2>2, <2>3
<1>4. CASE Tick \/ ReadSnapshot \/ UNCHANGED vars
  <2>1. /\ subs' = subs /\ op' = op /\ damaged' = damaged
        /\ queue' = queue /\ held' = held /\ wire' = wire /\ rx' = rx /\ view' = view
    BY <1>4 DEF Tick, ReadSnapshot, vars, nodeVars, linkVars, peerVars, ghostVars
  <2> QED BY <2>1 DEF FaithfulFor, Outcome, Pending, Interested
<1>5. CASE NodeRestart
  BY <1>5 DEF NodeRestart, FaithfulFor
<1>6. ASSUME NEW p \in Peers, SendDelta(p) \/ DropDelta(p) PROVE FaithfulFor(q)'
  <2>1. CASE p = q /\ SendDelta(p)
    BY <2>1, DeltaFaithful
  <2>2. CASE p = q /\ DropDelta(p)
    BY <2>2 DEF DropDelta, FaithfulFor, TypeOK
  <2>3. CASE p # q
    <3>1. /\ subs' = subs /\ damaged'[q] = damaged[q] /\ queue'[q] = queue[q]
          /\ held' = held /\ wire' = wire /\ rx' = rx /\ view' = view
      BY <1>6, <2>3 DEF SendDelta, DropDelta, TypeOK, linkVars, peerVars, ghostVars
    <3>2. op.pc = "send" /\ OpDoneWith(p)
      BY <1>6 DEF SendDelta, DropDelta
    <3>3. \A t \in Topics : Pending(q, t) => Pending(q, t)'
      BY <2>3, <3>2 DEF Pending, OpDoneWith, TypeOK
    <3> QED BY <3>1, <3>3 DEF FaithfulFor, Outcome, Interested
  <2> QED BY <1>6, <2>1, <2>2, <2>3
<1>7. ASSUME NEW p \in Peers, p # q,
             \/ SendSnapshot(p) \/ Dequeue(p) \/ Send(p)
             \/ Break(p) \/ PeerReceive(p) \/ PeerApply(p) \/ PeerRestart(p)
      PROVE  FaithfulFor(q)'
  <2>1. subs' = subs /\ op' = op
    BY <1>7 DEF SendSnapshot, Dequeue, Send, Break, PeerReceive, PeerApply, PeerRestart, nodeVars
  <2>2. damaged'[q] = damaged[q] /\ queue'[q] = queue[q] /\ held'[q] = held[q]
    BY <1>7 DEF SendSnapshot, Dequeue, Send, Break, PeerReceive, PeerApply, PeerRestart,
       LoseStream, TypeOK, linkVars, ghostVars
  <2>3. wire'[q] = wire[q] /\ rx'[q] = rx[q] /\ view'[q] = view[q]
    BY <1>7 DEF SendSnapshot, Dequeue, Send, Break, PeerReceive, PeerApply, PeerRestart,
       LoseStream, TypeOK, linkVars, peerVars
  <2> QED BY <2>1, <2>2, <2>3 DEF FaithfulFor, Outcome, Pending, Interested
<1>8. ASSUME NEW p \in Peers,
             DropSnapshot(p) \/ AcceptFails(p) \/ Cleanup(p) \/ Connect(p) \/ PeerReady(p)
      PROVE  FaithfulFor(q)'
  <2>1. /\ subs' = subs /\ op' = op /\ damaged' = damaged
        /\ queue' = queue /\ held' = held /\ wire' = wire /\ rx' = rx /\ view' = view
    BY <1>8 DEF DropSnapshot, AcceptFails, Cleanup, Connect, PeerReady,
       nodeVars, linkVars, peerVars, ghostVars
  <2> QED BY <2>1 DEF FaithfulFor, Outcome, Pending, Interested
<1>14. ASSUME NEW p \in Peers, Accept(p) \/ Establish(p) PROVE FaithfulFor(q)'
  <2>1. /\ subs' = subs /\ op' = op /\ (~damaged'[q] => ~damaged[q])
        /\ queue' = queue /\ held' = held /\ wire' = wire /\ rx' = rx /\ view' = view
    BY <1>14 DEF Accept, Establish, nodeVars, peerVars, TypeOK
  <2>2. \A t \in Topics : Outcome(q, t)' = Outcome(q, t)
    BY <2>1 DEF Outcome
  <2>5. damaged[q] \in BOOLEAN /\ damaged'[q] \in BOOLEAN
    BY <1>14 DEF Accept, Establish, TypeOK
  <2>3. CASE damaged'[q]
    BY <2>3 DEF FaithfulFor
  <2>4. CASE ~damaged'[q]
    <3>1. damaged'[q] = damaged[q]
      BY <2>1, <2>4, <2>5
    <3> QED BY <2>1, <2>2, <3>1, MovedFaithful
  <2> QED BY <2>3, <2>4
<1>9. CASE SendSnapshot(q)
  BY <1>9, SnapshotFaithful
<1>10. CASE Dequeue(q) \/ Send(q) \/ PeerApply(q)
  <2>1. subs' = subs /\ op' = op /\ damaged'[q] = damaged[q]
    BY <1>10 DEF Dequeue, Send, PeerApply, nodeVars, ghostVars
  <2>2. \A t \in Topics : Outcome(q, t)' = Outcome(q, t)
    BY <1>10, Dequeued, Sent, Applied
  <2> QED BY <2>1, <2>2, MovedFaithful
<1>11. CASE PeerReceive(q)
  <2>1. subs' = subs /\ op' = op
    BY <1>11 DEF PeerReceive, nodeVars
  <2>2. CASE ready[q] /\ Len(rx[q]) < RxCap
    <3>1. \A t \in Topics : Outcome(q, t)' = Outcome(q, t)
      BY <1>11, <2>2, Received
    <3>2. damaged'[q] = damaged[q]
      BY <1>11, <2>2 DEF PeerReceive
    <3> QED BY <2>1, <3>1, <3>2, MovedFaithful
  <2>3. CASE ~(ready[q] /\ Len(rx[q]) < RxCap)
    <3>1. damaged' = [damaged EXCEPT ![q] = TRUE]
      BY <1>11, <2>3 DEF PeerReceive
    <3> QED BY <3>1 DEF FaithfulFor, TypeOK
  <2> QED BY <2>2, <2>3
<1>12. CASE Break(q)
  <2>1. PICK s \in stream[q] : /\ LoseStream(q, {s})
                               /\ damaged'[q] = (damaged[q] \/ ~HarmlessBreak(q, {s}))
    BY <1>12 DEF Break, TypeOK
  <2>2. subs' = subs /\ op' = op /\ rx' = rx /\ view' = view
    BY <1>12 DEF Break, nodeVars, peerVars
  <2>3. CASE ~HarmlessBreak(q, {s})
    BY <2>1, <2>3 DEF FaithfulFor
  <2>4. CASE HarmlessBreak(q, {s})
    <3>1. \A t \in Topics : Outcome(q, t)' = Outcome(q, t)
      BY <2>1, <2>2, <2>4, LostHarmless
    <3>2. damaged[q] \in BOOLEAN
      BY DEF TypeOK
    <3>3. damaged'[q] = damaged[q]
      BY <2>1, <2>4, <3>2
    <3> QED BY <2>2, <3>1, <3>3, MovedFaithful
  <2> QED BY <2>3, <2>4
<1>13. CASE PeerRestart(q)
  BY <1>13 DEF PeerRestart, FaithfulFor, TypeOK
<1> QED
  BY <1>1, <1>2, <1>3, <1>4, <1>5, <1>6, <1>7, <1>8, <1>9, <1>10, <1>11, <1>12, <1>13,
     <1>14
  DEF Next, Progress

-----------------------------------------------------------------------------
IInv == TypeOK /\ DeltaAccurate /\ PipelineFaithful

\* Unless something was lost, reordered or overtaken since the last accurate
\* snapshot, the messages under way to a peer bring its view to this node's
\* local interest: for any number of peers, topics, clients and any capacity.
THEOREM GossipFaithful == Spec => []PipelineFaithful
<1>1. Init => IInv
  <2>1. Init => TypeOK
    BY InitType
  <2>2. ASSUME Init, NEW p \in Peers, NEW t \in Topics
        PROVE  Outcome(p, t) = Interested(subs, t)
    <3>1. /\ rx[p] = <<>> /\ wire[p] = <<>> /\ held[p] = <<>> /\ queue[p] = <<>>
          /\ (t \in view[p]) = FALSE /\ subs = {}
      BY <2>2 DEF Init
    <3>2. Outcome(p, t) = FALSE
      BY <3>1, AfterEmpty DEF Outcome
    <3> QED BY <3>1, <3>2 DEF Interested
  <2>3. Init => DeltaAccurate
    BY DEF Init, DeltaAccurate, IdleOp
  <2> QED BY <2>1, <2>2, <2>3 DEF IInv, PipelineFaithful
<1>2. IInv /\ [Next]_vars => IInv'
  <2> SUFFICES ASSUME IInv, [Next]_vars PROVE IInv'
    OBVIOUS
  <2>1. TypeOK' /\ DeltaAccurate'
    BY NextType, NextDelta DEF IInv
  <2>2. \A p \in Peers : FaithfulFor(p)
    BY DEF IInv, PipelineFaithful, FaithfulFor
  <2>3. \A p \in Peers : FaithfulFor(p)'
    BY <2>2, NextFaithful DEF IInv
  <2> QED BY <2>1, <2>3 DEF IInv, PipelineFaithful, FaithfulFor
<1>3. IInv => PipelineFaithful
  BY DEF IInv
<1> QED BY <1>1, <1>2, <1>3, PTL DEF Spec

\* A settled peer that lost nothing knows exactly this node's local interest.
THEOREM SettledPeersAgree == Spec => []SettledUndamagedAgree
<1>1. TypeOK /\ PipelineFaithful => SettledUndamagedAgree
  <2> SUFFICES ASSUME TypeOK, PipelineFaithful, NEW p \in Peers, Settled(p), ~damaged[p]
               PROVE  view[p] = Interest(subs)
    BY DEF SettledUndamagedAgree
  <2>1. ASSUME NEW t \in Topics PROVE (t \in view[p]) = Interested(subs, t)
    <3> DEFINE d == t \in view[p]
    <3>1. d \in BOOLEAN
      OBVIOUS
    <3>2. Outcome(p, t) = After(<<>>, t, After(<<>>, t, After(<<>>, t, After(<<>>, t, d))))
      BY DEF Outcome, Settled
    <3> HIDE DEF d
    <3>3. Outcome(p, t) = d
      BY <3>1, <3>2, AfterEmpty
    <3>4. Outcome(p, t) = Interested(subs, t)
      BY DEF PipelineFaithful, Pending, Settled
    <3> QED BY <3>3, <3>4 DEF d
  <2>2. view[p] \subseteq Topics
    BY DEF TypeOK
  <2> QED BY <2>1, <2>2 DEF Interest
<1> QED BY <1>1, TypeCorrect, GossipFaithful, PTL
=============================================================================
