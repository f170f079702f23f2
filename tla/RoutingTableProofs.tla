------------------------- MODULE RoutingTableProofs -------------------------
(***************************************************************************)
(* Proofs about the routing table, for every set of words, patterns and    *)
(* subscriber IDs and every length of topic.  The table is only ever       *)
(* changed through With, Rebuild and Close; TableOK, that every key is a   *)
(* pattern with a non-empty set of IDs, is inductive.  What GetSubscribers *)
(* finds then follows from the shape alone: matching is denotation, and    *)
(* the exact and the wildcard pass are disjoint.                           *)
(***************************************************************************)
EXTENDS RoutingTable, FiniteSetTheorems, TLAPS

\* Every key is a pattern that somebody subscribes to.
TableOK ==
  /\ DOMAIN subscriptions \subseteq Patterns
  /\ \A k \in DOMAIN subscriptions : subscriptions[k] \subseteq Ids /\ subscriptions[k] # {}

\* With keeps the shape, whether it adds a topic, changes or removes one.
LEMMA WithKeepsShape ==
  ASSUME TableOK, NEW k \in Patterns, NEW S \in SUBSET Ids, subscriptions' = With(k, S)
  PROVE  TableOK'
<1>1. CASE S = {}
  <2>1. subscriptions' = [x \in DOMAIN subscriptions \ {k} |-> subscriptions[x]]
    BY <1>1 DEF With
  <2> QED BY <2>1 DEF TableOK
<1>2. CASE S # {}
  <2>1. subscriptions' = [x \in DOMAIN subscriptions \cup {k} |->
                            IF x = k THEN S ELSE subscriptions[x]]
    BY <1>2 DEF With
  <2> QED BY <1>2, <2>1 DEF TableOK
<1> QED BY <1>1, <1>2

\* What a topic holds are subscriber IDs.
LEMMA HeldIds ==
  ASSUME TableOK, NEW k
  PROVE  Held(k) \subseteq Ids
BY DEF TableOK, Held

\* Each operation of the table keeps its shape.
LEMMA TableInductive ==
  TableOK /\ [Next]_vars => TableOK'
<1> SUFFICES ASSUME TableOK, [Next]_vars PROVE TableOK'
  OBVIOUS
<1>1. ASSUME NEW k \in Patterns, NEW id \in Ids, Subscribe(k, id) PROVE TableOK'
  BY <1>1, HeldIds, WithKeepsShape DEF Subscribe
<1>2. ASSUME NEW k \in Patterns, NEW id \in Ids, Unsubscribe(k, id) PROVE TableOK'
  BY <1>2, HeldIds, WithKeepsShape DEF Unsubscribe
<1>3. ASSUME NEW S \in SUBSET (Patterns \X Ids), RebuildFromGossip(S)
      PROVE  TableOK'
  <2> DEFINE K == {s[1] : s \in S}
             At(k) == {s[2] : s \in {s \in S : s[1] = k}}
  <2>1. subscriptions' = [k \in K |-> At(k)]
    BY <1>3 DEF RebuildFromGossip
  <2>2. \A s \in S : s[1] \in Patterns /\ s[2] \in Ids
    OBVIOUS
  <2>3. K \subseteq Patterns
    BY <2>2
  <2>4. ASSUME NEW k \in K PROVE At(k) \subseteq Ids /\ At(k) # {}
    <3>1. At(k) \subseteq Ids
      BY <2>2
    <3>2. PICK s \in S : s[1] = k
      OBVIOUS
    <3>3. s[2] \in At(k)
      BY <3>2
    <3> QED BY <3>1, <3>3
  <2> HIDE DEF K, At
  <2>5. DOMAIN subscriptions' = K /\ \A k \in K : subscriptions'[k] = At(k)
    BY <2>1
  <2>6. subscriptions' = [k \in DOMAIN subscriptions' |-> subscriptions'[k]]
    BY <2>1
  <2> QED BY <2>3, <2>4, <2>5, <2>6 DEF TableOK
<1>4. CASE Close
  BY <1>4 DEF Close, TableOK
<1>5. CASE UNCHANGED vars
  BY <1>5 DEF vars, TableOK
<1> QED BY <1>1, <1>2, <1>3, <1>4, <1>5 DEF Next

\* A pattern matches a topic exactly if putting words for its stars can give it.
LEMMA MatchIsDenotation ==
  ASSUME NEW k \in Patterns, NEW topic \in Topics
  PROVE  Matches(k, topic) <=> topic \in Denotes(k)
<1>1. PICK n \in 1 .. MaxParts : topic \in [1 .. n -> Words]
  BY DEF Topics, SeqsOver
<1>2. PICK m \in 1 .. MaxParts : k \in [1 .. m -> Words \cup {Star}]
  BY PatternsAssumption DEF SeqsOver
<1>3. Len(topic) = n /\ DOMAIN topic = 1 .. n /\ Len(k) = m /\ DOMAIN k = 1 .. m
  BY <1>1, <1>2
<1>4. ASSUME Matches(k, topic) PROVE topic \in Denotes(k)
  <2>1. m = n /\ \A i \in 1 .. n : k[i] = Star \/ k[i] = topic[i]
    BY <1>1, <1>3, <1>4 DEF Matches
  <2>2. topic \in [DOMAIN k -> Words]
    BY <1>1, <1>3, <2>1
  <2>3. topic = [i \in DOMAIN k |-> IF k[i] = Star THEN topic[i] ELSE k[i]]
    BY <1>1, <1>3, <2>1
  <2> QED BY <2>2, <2>3 DEF Denotes
<1>5. ASSUME topic \in Denotes(k) PROVE Matches(k, topic)
  <2>1. PICK w \in [DOMAIN k -> Words] :
          topic = [i \in DOMAIN k |-> IF k[i] = Star THEN w[i] ELSE k[i]]
    BY <1>5 DEF Denotes
  <2>2. DOMAIN topic = DOMAIN k
    BY <2>1
  <2>3. n = m
    BY <1>3, <2>2
  <2> QED BY <1>3, <2>1, <2>3 DEF Matches
<1> QED BY <1>4, <1>5

\* A topic's exact subscribers are found under a pattern that denotes it: itself.
LEMMA SelfMatch ==
  ASSUME NEW topic PROVE Matches(topic, topic)
BY DEF Matches

\* In a well-shaped table the two passes of GetSubscribers find what is wanted,
\* each pair once.
LEMMA ShapeDelivers ==
  TableOK => DeliveredByDenotation
<1> SUFFICES ASSUME TableOK, NEW topic \in Topics
             PROVE  LET r == GetSubscribers(topic)
                        wanted == {e \in (DOMAIN subscriptions) \X Ids :
                                     topic \in Denotes(e[1]) /\ e[2] \in subscriptions[e[1]]}
                    IN  /\ r.exact \cup r.wild = wanted
                        /\ Cardinality(r.exact) + Cardinality(r.wild) = Cardinality(wanted)
  BY DEF DeliveredByDenotation
<1> DEFINE D == DOMAIN subscriptions
           exact == {<<topic, id>> : id \in Held(topic)}
           wild == {e \in D \X Ids :
                      e[1] # topic /\ Matches(e[1], topic) /\ e[2] \in subscriptions[e[1]]}
           wanted == {e \in D \X Ids : topic \in Denotes(e[1]) /\ e[2] \in subscriptions[e[1]]}
<1>1. \A k \in D : Matches(k, topic) <=> topic \in Denotes(k)
  BY MatchIsDenotation DEF TableOK
<1>2. exact = {e \in D \X Ids : e[1] = topic /\ e[2] \in subscriptions[e[1]]}
  BY DEF TableOK, Held
<1>3. exact \cup wild = wanted
  BY <1>1, <1>2, SelfMatch
<1>4. exact \cap wild = {}
  BY <1>2
<1>5. IsFiniteSet(D \X Ids)
  <2>1. IsFiniteSet(D)
    BY FiniteAssumption, FS_Subset DEF TableOK
  <2> QED BY <2>1, FiniteAssumption, FS_Product
<1>6. IsFiniteSet(exact) /\ IsFiniteSet(wild)
  <2>1. exact \subseteq D \X Ids /\ wild \subseteq D \X Ids
    BY <1>2
  <2> QED BY <1>5, <2>1, FS_Subset
<1>7. Cardinality(exact) + Cardinality(wild) = Cardinality(wanted)
  <2>1. Cardinality(exact \cup wild)
          = Cardinality(exact) + Cardinality(wild) - Cardinality(exact \cap wild)
    BY <1>6, FS_Union
  <2>2. Cardinality(exact) \in Nat /\ Cardinality(wild) \in Nat
    BY <1>6, FS_CardinalityType
  <2>3. Cardinality(exact \cap wild) = 0
    BY <1>4, FS_EmptySet
  <2> HIDE DEF exact, wild, wanted
  <2>4. Cardinality(exact \cup wild) = Cardinality(wanted)
    BY <1>3
  <2> QED BY <2>1, <2>2, <2>3, <2>4
<1>8. GetSubscribers(topic).exact = exact /\ GetSubscribers(topic).wild = wild
  BY DEF GetSubscribers
<1> HIDE DEF exact, wild, wanted
<1>9. GetSubscribers(topic).exact \cup GetSubscribers(topic).wild = wanted
  BY <1>3, <1>8
<1>10. Cardinality(GetSubscribers(topic).exact) + Cardinality(GetSubscribers(topic).wild)
         = Cardinality(wanted)
  BY <1>7, <1>8
<1> QED BY <1>9, <1>10 DEF wanted

\* In a well-shaped table the topics counted are those somebody subscribes to.
LEMMA ShapeCounts ==
  TableOK => NoEmptyTopic
<1> SUFFICES ASSUME TableOK PROVE NoEmptyTopic
  OBVIOUS
<1>1. DOMAIN subscriptions = {k \in Patterns : Held(k) # {}}
  BY DEF TableOK, Held
<1> QED BY <1>1 DEF TableOK, NoEmptyTopic, GetTopicCount

\* The table keeps its shape for ever.
LEMMA TableShape ==
  Spec => []TableOK
<1>1. Init => TableOK
  BY DEF Init, TableOK
<1> QED BY <1>1, TableInductive, PTL DEF Spec

\* internal/routingtable: after any sequence of Subscribe, Unsubscribe,
\* RebuildFromGossip and Close an event is delivered once for every pattern and
\* subscriber that stands for its topic, and to nobody else.
THEOREM TableDelivers ==
  Spec => []DeliveredByDenotation
BY TableShape, ShapeDelivers, PTL

\* internal/routingtable: a topic is counted exactly while it has a subscriber.
THEOREM TableCounts ==
  Spec => []NoEmptyTopic
BY TableShape, ShapeCounts, PTL
=============================================================================
