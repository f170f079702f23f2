---------------------------- MODULE RoutingTable ----------------------------
(***************************************************************************)
(* The local routing table, internal/routingtable/inmemory.go: a map from  *)
(* topic pattern to a map from subscriber ID to subscriber, behind one     *)
(* RWMutex that no operation holds across a blocking call, so that each    *)
(* operation is one step.  A pattern and a topic are sequences of parts,   *)
(* what strings.Split(_, ".") makes of them.                               *)
(*                                                                         *)
(* The matcher appears four times in the code, word for word (routing      *)
(* table, peer interest, SSE replay, Go client): an event is forwarded to  *)
(* a peer, delivered there, replayed and let through by the client's       *)
(* filter only if all four agree.                                          *)
(***************************************************************************)
EXTENDS Integers, Sequences, FiniteSets

CONSTANTS
  Words,       \* the parts topics are made of
  MaxParts,    \* bound: parts in a topic or a pattern
  Patterns,    \* the patterns that are subscribed to
  Ids          \* subscriber IDs

VARIABLES subscriptions, closed

vars == <<subscriptions, closed>>

Star == "*"
SeqsOver(S) == UNION {[1 .. n -> S] : n \in 1 .. MaxParts}
Topics == SeqsOver(Words)

ASSUME PatternsAssumption == Patterns \subseteq SeqsOver(Words \cup {Star})
ASSUME FiniteAssumption == IsFiniteSet(Patterns) /\ IsFiniteSet(Ids)

\* matchesPattern
Matches(pattern, topic) ==
  \/ pattern = topic
  \/ /\ Len(pattern) = Len(topic)
     /\ \A i \in DOMAIN pattern : pattern[i] = Star \/ pattern[i] = topic[i]

Init == subscriptions = [k \in {} |-> {}] /\ closed = FALSE

\* The map with topic k holding the IDs S; a topic with none is removed.
With(k, S) ==
  IF S = {} THEN [x \in DOMAIN subscriptions \ {k} |-> subscriptions[x]]
  ELSE [x \in DOMAIN subscriptions \cup {k} |-> IF x = k THEN S ELSE subscriptions[x]]

Held(k) == IF k \in DOMAIN subscriptions THEN subscriptions[k] ELSE {}

Subscribe(k, id) ==
  /\ ~closed
  /\ subscriptions' = With(k, Held(k) \cup {id})
  /\ UNCHANGED closed

\* Mutant: the topic keeps its empty inner map.
UnsubscribeKeepsTopic(k, id) ==
  /\ ~closed
  /\ k \in DOMAIN subscriptions
  /\ subscriptions' = [subscriptions EXCEPT ![k] = @ \ {id}]
  /\ UNCHANGED closed

\* Removing what is not there is not an error.
Unsubscribe(k, id) ==
  /\ ~closed
  /\ subscriptions' = With(k, Held(k) \ {id})
  /\ UNCHANGED closed

\* Everything is replaced by the given subscriptions, pairs of a pattern and an
\* ID: the list may repeat a pair, and its order does not matter.
RebuildFromGossip(S) ==
  /\ ~closed
  /\ subscriptions' = [k \in {s[1] : s \in S} |-> {s[2] : s \in {s \in S : s[1] = k}}]
  /\ UNCHANGED closed

Close ==
  /\ closed' = TRUE
  /\ subscriptions' = [k \in {} |-> {}]

Next ==
  \/ \E k \in Patterns, id \in Ids : Subscribe(k, id) \/ Unsubscribe(k, id)
  \/ \E S \in SUBSET (Patterns \X Ids) : RebuildFromGossip(S)
  \/ Close

Spec == Init /\ [][Next]_vars

-----------------------------------------------------------------------------
(* What readers get *)

\* Mutant: the second pass takes the exact topic again.
GetSubscribersTwice(topic) ==
  [exact |-> {<<topic, id>> : id \in Held(topic)},
   wild |-> {e \in (DOMAIN subscriptions) \X Ids :
               Matches(e[1], topic) /\ e[2] \in subscriptions[e[1]]}]

\* GetSubscribers collects the exact topic's subscribers, then those of every
\* other pattern that matches: pairs of where they were found and whom.
GetSubscribers(topic) ==
  [exact |-> {<<topic, id>> : id \in Held(topic)},
   wild |-> {e \in (DOMAIN subscriptions) \X Ids :
               e[1] # topic /\ Matches(e[1], topic) /\ e[2] \in subscriptions[e[1]]}]

GetTopicCount == Cardinality(DOMAIN subscriptions)

-----------------------------------------------------------------------------
(* Properties *)

\* Reference: a pattern stands for the topics that come of putting a word for
\* each of its stars.
Denotes(k) ==
  {[i \in DOMAIN k |-> IF k[i] = Star THEN w[i] ELSE k[i]] : w \in [DOMAIN k -> Words]}

\* Whatever was subscribed, removed and rebuilt before, an event of any topic is
\* delivered once for every pattern and subscriber that stands for it, and to
\* nobody else: the two passes of GetSubscribers neither overlap nor leave out.
DeliveredByDenotation ==
  \A topic \in Topics :
    LET r == GetSubscribers(topic)
        wanted == {e \in (DOMAIN subscriptions) \X Ids :
                     topic \in Denotes(e[1]) /\ e[2] \in subscriptions[e[1]]}
    IN  /\ r.exact \cup r.wild = wanted
        /\ Cardinality(r.exact) + Cardinality(r.wild) = Cardinality(wanted)

\* A topic is counted exactly while somebody subscribes to it: the last
\* Unsubscribe takes the inner map away, and a rebuild leaves no empty one.
NoEmptyTopic ==
  /\ \A k \in DOMAIN subscriptions : subscriptions[k] # {}
  /\ GetTopicCount = Cardinality({k \in Patterns : Held(k) # {}})
=============================================================================
