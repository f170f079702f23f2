------------------------- MODULE NodeLifecycleProofs -------------------------
(***************************************************************************)
(* Proofs about the life of a node, for any number of lives, events and    *)
(* publishers.                                                             *)
(*                                                                         *)
(* The state belongs to four kinds of goroutines (StepKinds), and each     *)
(* invariant to one or two of them: BeatInv ties the heartbeat loops and   *)
(* LifeInv the contexts to where the controlling goroutine stands in       *)
(* Start, Stop or Close; CloseInv ties what is closed to the lock          *)
(* publishes hold.  InboundInv is about the consumers: an event may be     *)
(* handed to those of several lives, but at most one of them has passed    *)
(* the check before the append or still has a context that lets it (May).  *)
(***************************************************************************)
EXTENDS NodeLifecycle, FiniteSetTheorems, TLAPS

Consumers ==
  [st : {"new", "on", "over"}, reg : BOOLEAN, inbox : Seq(Events),
   hand : 0 .. MaxEvents, checked : BOOLEAN]

ConsTyped == cons \in [Lives -> Consumers] /\ \A l \in Lives : Len(cons[l].inbox) <= InCap

\* What is assumed of the bounds.
LEMMA Bounds ==
  /\ InCap \in Nat /\ InCap > 0 /\ MaxEvents \in Nat /\ MaxLives \in Nat /\ MaxLives > 0
BY LifecycleAssumption

\* The consumers other than l are left alone.
OthersKept(l) == cons' \in [Lives -> Consumers] /\ \A x \in Lives : x # l => cons'[x] = cons[x]

\* A consumer that starts touches only its own registration.
LEMMA StartIs ==
  ASSUME ConsTyped, NEW l \in Lives, ConsumerStart(l), peerClosed \in BOOLEAN
  PROVE  /\ OthersKept(l) /\ cons'[l].inbox = cons[l].inbox /\ cons'[l].hand = cons[l].hand
         /\ cons'[l].checked = cons[l].checked
BY DEF ConsTyped, Consumers, ConsumerStart, OthersKept

\* A consumer that unregisters keeps what it was handed.
LEMMA UnregisterIs ==
  ASSUME ConsTyped, NEW l \in Lives, ConsumerUnregister(l)
  PROVE  /\ OthersKept(l) /\ cons'[l].inbox = cons[l].inbox /\ cons'[l].hand = cons[l].hand
         /\ cons'[l].checked = cons[l].checked /\ ~cons'[l].reg
BY DEF ConsTyped, Consumers, ConsumerUnregister, OthersKept

\* A consumer that ends keeps its record but for its state.
LEMMA EndIs ==
  ASSUME ConsTyped, NEW l \in Lives, ConsumerEnd(l)
  PROVE  /\ OthersKept(l) /\ cons'[l].inbox = cons[l].inbox /\ cons'[l].hand = cons[l].hand
         /\ cons'[l].checked = cons[l].checked /\ cons'[l].reg = cons[l].reg
BY DEF ConsTyped, Consumers, ConsumerEnd, OthersKept

\* A consumer takes the head of its channel.
LEMMA TakeIs ==
  ASSUME ConsTyped, NEW l \in Lives, InboundTake(l)
  PROVE  /\ OthersKept(l) /\ cons'[l].inbox = Tail(cons[l].inbox) /\ cons[l].inbox # <<>>
         /\ cons'[l].hand \in {0, Head(cons[l].inbox)} /\ cons[l].hand = 0
         /\ cons'[l].checked = cons[l].checked /\ cons'[l].reg = cons[l].reg
<1>1. PICK t, h : t = Tail(cons[l].inbox) /\ h = IF Running THEN Head(cons[l].inbox) ELSE 0
  OBVIOUS
<1>2. cons[l].inbox \in Seq(Events) /\ cons[l].inbox # <<>> /\ cons[l].hand = 0
  BY DEF ConsTyped, Consumers, InboundTake
<1>3. Head(cons[l].inbox) \in Events /\ t \in Seq(Events)
  BY <1>1, <1>2
<1>4. h \in 0 .. MaxEvents /\ h \in {0, Head(cons[l].inbox)}
  BY <1>1, <1>3, Bounds DEF Events
<1>5. cons' = [cons EXCEPT ![l].inbox = t, ![l].hand = h]
  BY <1>1 DEF InboundTake
<1>6. /\ OthersKept(l) /\ cons'[l].inbox = t /\ cons'[l].hand = h
      /\ cons'[l].checked = cons[l].checked /\ cons'[l].reg = cons[l].reg
  BY <1>3, <1>4, <1>5 DEF ConsTyped, Consumers, OthersKept
<1> QED BY <1>1, <1>2, <1>4, <1>6

\* A consumer whose life is over drops the event, any other goes on with it.
LEMMA CheckIs ==
  ASSUME ConsTyped, NEW l \in Lives, InboundCheck(l)
  PROVE  /\ OthersKept(l) /\ cons'[l].inbox = cons[l].inbox /\ cons'[l].reg = cons[l].reg
         /\ cons[l].hand # 0 /\ ~cons[l].checked
         /\ \/ l \in cancelled /\ cons'[l].hand = 0 /\ ~cons'[l].checked
            \/ l \notin cancelled /\ cons'[l].hand = cons[l].hand /\ cons'[l].checked
<1>1. CASE l \in cancelled
  <2>1. cons' = [cons EXCEPT ![l].hand = 0] /\ cons[l].hand # 0 /\ ~cons[l].checked
    BY <1>1 DEF InboundCheck
  <2>2. 0 \in 0 .. MaxEvents
    BY Bounds
  <2>3. /\ OthersKept(l) /\ cons'[l].inbox = cons[l].inbox /\ cons'[l].reg = cons[l].reg
        /\ cons'[l].hand = 0 /\ cons'[l].checked = cons[l].checked
    BY <2>1, <2>2 DEF ConsTyped, Consumers, OthersKept
  <2> QED BY <1>1, <2>1, <2>3
<1>2. CASE l \notin cancelled
  BY <1>2, Bounds DEF ConsTyped, Consumers, InboundCheck, OthersKept
<1> QED BY <1>1, <1>2

\* After the append the hand is empty.
LEMMA AppendIs ==
  ASSUME ConsTyped, NEW l \in Lives, InboundAppend(l)
  PROVE  /\ OthersKept(l) /\ cons'[l].inbox = cons[l].inbox /\ cons'[l].reg = cons[l].reg
         /\ cons[l].checked /\ cons'[l].hand = 0 /\ ~cons'[l].checked
BY Bounds DEF ConsTyped, Consumers, InboundAppend, OthersKept
\* An event from a peer goes to the channels of registered consumers with room.
LEMMA EventIs ==
  ASSUME ConsTyped, PeerEvent, events \in 0 .. MaxEvents
  PROVE  /\ ConsTyped' /\ events' = events + 1 /\ events + 1 \in Events
         /\ \A l \in Lives :
              /\ cons'[l].hand = cons[l].hand /\ cons'[l].checked = cons[l].checked
              /\ cons'[l].reg = cons[l].reg
              /\ \/ cons'[l].inbox = cons[l].inbox
                 \/ cons[l].reg /\ cons'[l].inbox = Append(cons[l].inbox, events + 1)
<1>1. events' = events + 1 /\ events + 1 \in Events
  BY Bounds DEF PeerEvent, Events
<1>2. ASSUME NEW l \in Lives
      PROVE  /\ cons'[l] \in Consumers /\ Len(cons'[l].inbox) <= InCap
             /\ cons'[l].hand = cons[l].hand /\ cons'[l].checked = cons[l].checked
             /\ cons'[l].reg = cons[l].reg
             /\ \/ cons'[l].inbox = cons[l].inbox
                \/ cons[l].reg /\ cons'[l].inbox = Append(cons[l].inbox, events + 1)
  <2>1. cons[l] \in Consumers /\ cons[l].inbox \in Seq(Events) /\ Len(cons[l].inbox) <= InCap
    BY DEF ConsTyped, Consumers
  <2>2. CASE cons[l].reg /\ Len(cons[l].inbox) < InCap
    <3>1. PICK c, q : c = cons[l] /\ q = Append(cons[l].inbox, events + 1)
      OBVIOUS
    <3>2. q \in Seq(Events) /\ Len(q) <= InCap
      BY <1>1, <2>1, <2>2, <3>1, Bounds
    <3>3. cons'[l] = [c EXCEPT !.inbox = q]
      BY <2>2, <3>1 DEF PeerEvent
    <3> QED BY <2>1, <2>2, <3>1, <3>2, <3>3 DEF Consumers
  <2>3. CASE ~(cons[l].reg /\ Len(cons[l].inbox) < InCap)
    <3>1. cons'[l] = cons[l]
      BY <2>3 DEF PeerEvent
    <3> QED BY <2>1, <3>1
  <2> QED BY <2>2, <2>3
<1>3. cons' \in [Lives -> Consumers]
  <2>1. PICK f : f = cons'
    OBVIOUS
  <2>2. f = [l \in Lives |-> f[l]]
    BY <2>1 DEF PeerEvent
  <2> QED BY <1>2, <2>1, <2>2
<1> QED BY <1>1, <1>2, <1>3 DEF ConsTyped

-----------------------------------------------------------------------------
(* Typing *)

\* The actions that leave publishers and consumers alone.
Control ==
  \/ NodeStart \/ NodeStartFails \/ HttpStart \/ PeerStream
  \/ Signal \/ Expire \/ Stop \/ ShutDown \/ CloseNode \/ CloseFails
  \/ \E t \in Lives : HeartbeatsEnd(t)

Inbound ==
  \/ PeerEvent
  \/ \E l \in Lives : \/ ConsumerStart(l) \/ ConsumerUnregister(l) \/ ConsumerEnd(l)
                      \/ InboundTake(l) \/ InboundCheck(l) \/ InboundAppend(l)

Publish ==
  \E p \in Publishers : PublishAsk(p) \/ PublishBegin(p) \/ PublishAppend(p) \/ PublishForward(p)

Flags ==
  /\ started \in BOOLEAN /\ nodeClosed \in BOOLEAN /\ logClosed \in BOOLEAN
  /\ peerClosed \in BOOLEAN /\ peerStreams \in BOOLEAN /\ expired \in BOOLEAN

ControlTyped ==
  /\ pc \in {"new", "serving", "stopHttp", "stopNode", "stopLife", "stopBeats", "stopPeers",
             "drainPeers", "stopped", "closeFailed", "exited", "failed"}
  /\ life \in 0 .. MaxLives /\ beat \in 0 .. MaxLives
  /\ cancelled \subseteq Lives /\ beating \subseteq Lives /\ hushed \subseteq Lives
  /\ server \in {"down", "up", "draining"} /\ http \in {"off", "up", "draining"}

WorkTyped ==
  /\ pub \in [Publishers -> {"idle", "asked", "append", "forward"}]
  /\ events \in 0 .. MaxEvents /\ kept \in [Events -> Nat] /\ ConsTyped

\* TypeOK, and the consumers are a function.
Types == Flags /\ sse \in BOOLEAN /\ ControlTyped /\ WorkTyped

\* Types is TypeOK with the domains spelt out.
LEMMA TypesImplyTypeOK == Types => TypeOK
<1> SUFFICES ASSUME Types PROVE TypeOK
  OBVIOUS
<1>1. {started, nodeClosed, logClosed, peerClosed, peerStreams, expired, sse} \subseteq BOOLEAN
  BY DEF Types, Flags
<1>2. \A l \in Lives : cons[l] \in Consumers /\ Len(cons[l].inbox) <= InCap
  BY DEF Types, WorkTyped, ConsTyped
<1> QED BY <1>1, <1>2 DEF Types, ControlTyped, WorkTyped, TypeOK, Consumers

\* A step belongs to the controlling goroutine, a publish, an SSE stream or a
\* consumer, and leaves the variables of the others alone.
LEMMA StepKinds ==
  ASSUME [Next]_vars
  PROVE  \/ Control /\ UNCHANGED workVars
         \/ Publish /\ UNCHANGED <<controlVars, sse, consVars>>
         \/ Stream /\ UNCHANGED <<controlVars, pub, consVars>>
         \/ Inbound /\ UNCHANGED restVars
         \/ UNCHANGED vars
<1>1. Control => UNCHANGED workVars
  <2>1. NodeStart \/ NodeStartFails \/ HttpStart \/ PeerStream \/ Signal \/ Expire => UNCHANGED workVars
    BY DEF NodeStart, NodeStartFails, HttpStart, PeerStream, Signal, Expire
  <2>2. Stop \/ ShutDown \/ CloseNode \/ CloseFails => UNCHANGED workVars
    BY DEF Stop, ShutDown, HttpStopped, StopMarked, StopLife, StopHeartbeats, StopPeers,
           PeersStopped, CloseNode, CloseFails
  <2>3. ASSUME NEW t \in Lives, HeartbeatsEnd(t) PROVE UNCHANGED workVars
    BY <2>3 DEF HeartbeatsEnd
  <2> QED BY <2>1, <2>2, <2>3 DEF Control
<1>2. Publish => UNCHANGED <<controlVars, sse, consVars>>
  BY DEF Publish, PublishAsk, PublishBegin, PublishAppend, PublishForward
<1>3. Stream => UNCHANGED <<controlVars, pub, consVars>>
  BY DEF Stream
<1>4. Inbound => UNCHANGED restVars
  BY DEF Inbound, PeerEvent, ConsumerStart, ConsumerUnregister, ConsumerEnd,
         InboundTake, InboundCheck, InboundAppend
<1>5. Next => Control \/ Publish \/ Stream \/ Inbound
  BY DEF Next, Control, Publish, Inbound
<1> QED BY <1>1, <1>2, <1>3, <1>4, <1>5

\* The flags of the program stay Boolean.
LEMMA ControlFlags ==
  ASSUME Flags, Control
  PROVE  Flags'
<1> USE DEF Flags, openVars, ctxVars, netVars
<1>1. CASE NodeStart
  BY <1>1 DEF NodeStart
<1>2. CASE NodeStartFails \/ HttpStart \/ Signal \/ Stop \/ HttpStopped
  BY <1>2 DEF NodeStartFails, HttpStart, Signal, Stop, HttpStopped
<1>3. CASE PeerStream
  BY <1>3 DEF PeerStream
<1>4. CASE Expire \/ StopMarked
  BY <1>4 DEF Expire, StopMarked
<1>5. CASE StopLife \/ StopHeartbeats \/ StopPeers
  BY <1>5 DEF StopLife, StopHeartbeats, StopPeers
<1>6. CASE PeersStopped
  BY <1>6 DEF PeersStopped
<1>7. CASE CloseNode
  BY <1>7 DEF CloseNode
<1>8. CASE CloseFails
  BY <1>8 DEF CloseFails
<1>9. ASSUME NEW t \in Lives, HeartbeatsEnd(t) PROVE Flags'
  BY <1>9 DEF HeartbeatsEnd
<1> QED BY <1>1, <1>2, <1>3, <1>4, <1>5, <1>6, <1>7, <1>8, <1>9 DEF Control, ShutDown

\* The variables of the controlling goroutine keep their types.
LEMMA ControlTypes ==
  ASSUME ControlTyped, Control, pc = "stopLife" => life > 0
  PROVE  ControlTyped'
<1> USE Bounds DEF ControlTyped, openVars, ctxVars, beatVars, netVars, Lives
<1>1. CASE NodeStart
  <2>1. life + 1 \in 1 .. MaxLives /\ life' = life + 1 /\ life + 1 \in 0 .. MaxLives
    BY <1>1 DEF NodeStart
  <2>2. beat' \in 0 .. MaxLives /\ beating' \subseteq Lives
    <3>1. CASE beat # 0
      BY <1>1, <3>1 DEF NodeStart, StartHeartbeats
    <3>2. CASE beat = 0
      BY <1>1, <2>1, <3>2 DEF NodeStart, StartHeartbeats
    <3> QED BY <3>1, <3>2
  <2>3. pc' = "serving" /\ server' = "up" /\ UNCHANGED <<cancelled, hushed, http>>
    BY <1>1 DEF NodeStart
  <2> QED BY <2>1, <2>2, <2>3
<1>2. CASE NodeStartFails
  BY <1>2 DEF NodeStartFails
<1>3. CASE HttpStart \/ Signal
  BY <1>3 DEF HttpStart, Signal
<1>4. CASE Stop \/ HttpStopped
  BY <1>4 DEF Stop, HttpStopped
<1>5. CASE PeerStream \/ Expire
  BY <1>5 DEF PeerStream, Expire
<1>6. CASE StopMarked
  BY <1>6 DEF StopMarked
<1>7. CASE StopLife
  BY <1>7 DEF StopLife
<1>8. CASE StopHeartbeats
  BY <1>8 DEF StopHeartbeats
<1>9. CASE StopPeers
  BY <1>9 DEF StopPeers
<1>10. CASE PeersStopped
  BY <1>10 DEF PeersStopped
<1>11. CASE CloseNode
  <2>1. beat' = 0 /\ hushed' = hushed \cup ({beat} \ {0}) /\ server' = "down" /\ pc' = "exited"
    BY <1>11 DEF CloseNode
  <2>2. UNCHANGED <<life, cancelled, beating, http>>
    BY <1>11 DEF CloseNode
  <2>3. hushed' \subseteq Lives
    BY <2>1
  <2> QED BY <2>1, <2>2, <2>3
<1>12. CASE CloseFails
  BY <1>12 DEF CloseFails
<1>13. ASSUME NEW t \in Lives, HeartbeatsEnd(t) PROVE ControlTyped'
  BY <1>13 DEF HeartbeatsEnd
<1> QED BY <1>1, <1>2, <1>3, <1>4, <1>5, <1>6, <1>7, <1>8, <1>9, <1>10, <1>11, <1>12, <1>13
        DEF Control, ShutDown

\* The consumers keep their types.
LEMMA InboundTypes ==
  ASSUME WorkTyped, peerClosed \in BOOLEAN, Inbound, \A l \in Lives : cons[l].checked => cons[l].hand # 0
  PROVE  ConsTyped' /\ events' \in 0 .. MaxEvents /\ kept' \in [Events -> Nat]
<1>0. ConsTyped /\ events \in 0 .. MaxEvents /\ kept \in [Events -> Nat]
  BY DEF WorkTyped
<1>1. CASE PeerEvent
  <2>1. ConsTyped' /\ events' = events + 1 /\ events + 1 \in Events
    BY <1>0, <1>1, EventIs
  <2>2. kept' = kept
    BY <1>1 DEF PeerEvent
  <2> QED BY <1>0, <2>1, <2>2, Bounds DEF Events
<1>2. ASSUME NEW l \in Lives, OthersKept(l), cons'[l].inbox \in {cons[l].inbox, Tail(cons[l].inbox)},
             cons[l].inbox # <<>> \/ cons'[l].inbox = cons[l].inbox
      PROVE  ConsTyped'
  <2>1. cons[l].inbox \in Seq(Events) /\ Len(cons[l].inbox) <= InCap
    BY <1>0 DEF ConsTyped, Consumers
  <2>2. Len(cons'[l].inbox) <= InCap
    BY <1>2, <2>1, Bounds
  <2> QED BY <1>0, <1>2, <2>2 DEF ConsTyped, OthersKept
<1>3. ASSUME NEW l \in Lives, ConsumerStart(l) \/ ConsumerUnregister(l) \/ ConsumerEnd(l)
      PROVE  ConsTyped' /\ UNCHANGED <<events, kept>>
  <2>1. UNCHANGED <<events, kept>>
    BY <1>3 DEF ConsumerStart, ConsumerUnregister, ConsumerEnd
  <2>2. OthersKept(l) /\ cons'[l].inbox = cons[l].inbox
    BY <1>0, <1>3, StartIs, UnregisterIs, EndIs
  <2> QED BY <1>2, <2>1, <2>2
<1>4. ASSUME NEW l \in Lives, InboundTake(l) \/ InboundCheck(l)
      PROVE  ConsTyped' /\ UNCHANGED <<events, kept>>
  <2>1. UNCHANGED <<events, kept>>
    BY <1>4 DEF InboundTake, InboundCheck
  <2>2. CASE InboundTake(l)
    <3>1. OthersKept(l) /\ cons'[l].inbox = Tail(cons[l].inbox) /\ cons[l].inbox # <<>>
      BY <1>0, <2>2, TakeIs
    <3> QED BY <1>2, <2>1, <3>1
  <2>3. CASE InboundCheck(l)
    <3>1. OthersKept(l) /\ cons'[l].inbox = cons[l].inbox
      BY <1>0, <2>3, CheckIs
    <3> QED BY <1>2, <2>1, <3>1
  <2> QED BY <1>4, <2>2, <2>3
<1>5. ASSUME NEW l \in Lives, InboundAppend(l)
      PROVE  ConsTyped' /\ UNCHANGED events /\ kept' \in [Events -> Nat]
  <2>1. OthersKept(l) /\ cons'[l].inbox = cons[l].inbox /\ cons[l].checked
    BY <1>0, <1>5, AppendIs
  <2>2. cons[l].hand \in Events
    BY <1>0, <2>1, Bounds DEF ConsTyped, Consumers, Events
  <2>3. kept' = kept \/ kept' = [kept EXCEPT ![cons[l].hand] = @ + 1]
    BY <1>5 DEF InboundAppend
  <2>4. kept' \in [Events -> Nat]
    BY <1>0, <2>2, <2>3
  <2>5. UNCHANGED events
    BY <1>5 DEF InboundAppend
  <2> QED BY <1>2, <2>1, <2>4, <2>5
<1> QED BY <1>0, <1>1, <1>3, <1>4, <1>5 DEF Inbound

\* Types is inductive, given what BeatInv and InboundInv say of life and hand.
LEMMA TypesStep ==
  ASSUME Types, [Next]_vars, pc = "stopLife" => life > 0,
         \A l \in Lives : cons[l].checked => cons[l].hand # 0
  PROVE  Types'
<1>0. Flags /\ sse \in BOOLEAN /\ ControlTyped /\ WorkTyped
  BY DEF Types
<1>1. CASE UNCHANGED controlVars
  <2>1. Flags' /\ ControlTyped'
    BY <1>0, <1>1 DEF controlVars, openVars, ctxVars, beatVars, netVars, Flags, ControlTyped
  <2>2. CASE Publish /\ UNCHANGED <<controlVars, sse, consVars>>
    <3>1. pub' \in [Publishers -> {"idle", "asked", "append", "forward"}]
      BY <1>0, <2>2 DEF Publish, PublishAsk, PublishBegin, PublishAppend, PublishForward, WorkTyped
    <3> QED BY <1>0, <2>1, <2>2, <3>1 DEF Types, WorkTyped, consVars, ConsTyped
  <2>3. CASE Stream /\ UNCHANGED <<controlVars, pub, consVars>>
    <3>1. sse' \in BOOLEAN
      BY <1>0, <2>3 DEF Stream
    <3> QED BY <1>0, <2>1, <2>3, <3>1 DEF Types, WorkTyped, consVars, ConsTyped
  <2>4. CASE Inbound /\ UNCHANGED restVars
    <3>1. ConsTyped' /\ events' \in 0 .. MaxEvents /\ kept' \in [Events -> Nat]
      BY <1>0, <2>4, InboundTypes DEF Flags
    <3> QED BY <1>0, <2>1, <2>4, <3>1 DEF Types, WorkTyped, restVars
  <2>5. CASE UNCHANGED workVars
    BY <1>0, <2>1, <2>5 DEF Types, WorkTyped, workVars, consVars, ConsTyped
  <2> QED BY <2>2, <2>3, <2>4, <2>5, StepKinds DEF vars
<1>2. CASE Control /\ UNCHANGED workVars
  <2>1. Flags' /\ ControlTyped'
    BY <1>0, <1>2, ControlFlags, ControlTypes
  <2> QED BY <1>0, <1>2, <2>1 DEF Types, WorkTyped, workVars, consVars, ConsTyped
<1> QED BY <1>1, <1>2, StepKinds DEF vars, restVars, controlVars
-----------------------------------------------------------------------------
(* Heartbeats, lives and contexts *)

\* The node has been started and its life's context is alive.
Alive == {"serving", "stopHttp", "stopNode", "stopLife"}

\* Only the loop the token stands for can be live, and it is until Stop or Close
\* come to it; afterwards none is.
BeatInv ==
  /\ \A t \in beating : t \in hushed \/ t = beat
  /\ \A t \in beating : t <= life
  /\ \A t \in hushed : t <= life
  /\ beat <= life
  /\ pc \in Alive => life > 0 /\ beat = life /\ life \in beating /\ life \notin hushed
  /\ pc \notin Alive \cup {"closeFailed"} => beating \subseteq hushed
  /\ pc \notin Alive \cup {"closeFailed", "stopBeats"} => beat = 0

\* A life ends before the next one begins: all the lives but the last have their
\* contexts cancelled, and the last one too once the node is stopped.  A node in
\* any of these states is marked started until Stop marks it.
LifeInv ==
  /\ \A l \in Lives : l < life => l \in cancelled
  /\ pc \in {"stopBeats", "stopPeers", "drainPeers", "stopped"} => life \in cancelled
  /\ pc = "new" => life = 0
  /\ pc \in {"serving", "stopHttp", "stopNode"} => started

\* Nothing is closed under a publish: the log and PeerLink are closed with the
\* node, except by a Close that fails.
CloseInv ==
  /\ nodeClosed => LockFree
  /\ logClosed => nodeClosed \/ pc = "closeFailed"
  /\ peerClosed => nodeClosed

\* Where the controlling goroutine goes before it stops the node.
EarlyMove ==
  \/ pc' = pc
  \/ pc = "new" /\ pc' = "failed"
  \/ pc \in {"serving", "stopHttp"} /\ pc' \in {"stopHttp", "stopNode"}

\* The control steps that touch neither loops nor lives.
LEMMA EarlyMoves ==
  ASSUME NodeStartFails \/ HttpStart \/ PeerStream \/ Signal \/ Expire \/ Stop \/ HttpStopped
  PROVE  EarlyMove
<1>1. CASE HttpStart \/ PeerStream \/ Expire
  <2>1. pc' = pc
    BY <1>1 DEF HttpStart, PeerStream, Expire
  <2> QED BY <2>1 DEF EarlyMove
<1>2. CASE NodeStartFails
  <2>1. pc = "new" /\ pc' = "failed"
    BY <1>2 DEF NodeStartFails
  <2> QED BY <2>1 DEF EarlyMove
<1>3. CASE Signal \/ Stop \/ HttpStopped
  <2>1. pc \in {"serving", "stopHttp"} /\ pc' \in {"stopHttp", "stopNode"}
    BY <1>3 DEF Signal, Stop, HttpStopped
  <2> QED BY <2>1 DEF EarlyMove
<1> QED BY <1>1, <1>2, <1>3

\* BeatInv is inductive: Start makes one loop, Stop hushes it.
LEMMA BeatStep ==
  ASSUME ControlTyped, BeatInv, LifeInv, Control
  PROVE  BeatInv'
<1> USE Bounds DEF openVars, ctxVars, beatVars, netVars
<1>0. life \in Nat /\ beat \in Nat /\ beating \subseteq Nat /\ hushed \subseteq Nat
  BY DEF ControlTyped, Lives
<1>1. CASE NodeStart
  <2>1. pc \in {"new", "stopped"} /\ beat = 0 /\ beating \subseteq hushed
    BY <1>1 DEF NodeStart, BeatInv, Alive
  <2>2. /\ beat' = life + 1 /\ beating' = beating \cup {life + 1} /\ life' = life + 1
        /\ hushed' = hushed /\ pc' = "serving"
    BY <1>1, <2>1 DEF NodeStart, StartHeartbeats
  <2>3. life + 1 \notin hushed
    BY <1>0 DEF BeatInv
  <2> QED BY <1>0, <2>1, <2>2, <2>3 DEF BeatInv, Alive
<1>2. CASE NodeStartFails \/ HttpStart \/ PeerStream \/ Signal \/ Expire \/ Stop \/ HttpStopped
  <2>1. UNCHANGED <<life, beat, beating, hushed>>
    BY <1>2 DEF NodeStartFails, HttpStart, PeerStream, Signal, Expire, Stop, HttpStopped
  <2>2. EarlyMove
    BY <1>2, EarlyMoves
  <2> QED BY <2>1, <2>2 DEF EarlyMove, BeatInv, Alive
<1>3. CASE StopMarked
  BY <1>3 DEF StopMarked, BeatInv, LifeInv, Alive
<1>4. CASE StopLife
  BY <1>0, <1>4 DEF StopLife, BeatInv, Alive
<1>5. CASE StopHeartbeats
  <2>1. /\ beat' = 0 /\ hushed' = hushed \cup ({beat} \ {0}) /\ beating' = beating /\ life' = life
        /\ pc = "stopBeats" /\ pc' = "stopPeers"
    BY <1>5 DEF StopHeartbeats
  <2>2. beating \subseteq hushed'
    BY <2>1 DEF BeatInv, Alive
  <2>3. \A t \in hushed' : t <= life
    BY <2>1 DEF BeatInv
  <2> QED BY <1>0, <2>1, <2>2, <2>3 DEF BeatInv, Alive
<1>6. CASE StopPeers \/ PeersStopped
  <2>1. UNCHANGED <<life, beat, beating, hushed>>
    BY <1>6 DEF StopPeers, PeersStopped
  <2>2. pc \in {"stopPeers", "drainPeers"} /\ pc' \in {"drainPeers", "stopped"}
    BY <1>6 DEF StopPeers, PeersStopped
  <2> QED BY <2>1, <2>2 DEF BeatInv, Alive
<1>7. CASE CloseNode
  <2>1. /\ beat' = 0 /\ hushed' = hushed \cup ({beat} \ {0}) /\ beating' = beating /\ life' = life
        /\ pc' = "exited" /\ pc \in {"new", "serving", "stopped", "closeFailed"}
    BY <1>7 DEF CloseNode
  <2>2. \A t \in beating : t \in hushed'
    <3>1. 0 \notin beating
      BY DEF ControlTyped, Lives
    <3> QED BY <2>1, <3>1 DEF BeatInv
  <2>3. \A t \in hushed' : t <= life
    BY <2>1 DEF BeatInv
  <2> QED BY <1>0, <2>1, <2>2, <2>3 DEF BeatInv, Alive
<1>8. CASE CloseFails
  BY <1>8 DEF CloseFails, BeatInv, Alive
<1>9. ASSUME NEW t \in Lives, HeartbeatsEnd(t) PROVE BeatInv'
  <2>1. /\ t \in beating /\ t \in hushed /\ beating' = beating \ {t}
        /\ beat' = IF beat = t THEN 0 ELSE beat
        /\ UNCHANGED <<pc, life, hushed>>
    BY <1>9 DEF HeartbeatsEnd
  <2> QED BY <1>0, <2>1 DEF BeatInv, Alive
<1> QED BY <1>1, <1>2, <1>3, <1>4, <1>5, <1>6, <1>7, <1>8, <1>9 DEF Control, ShutDown

\* LifeInv is inductive: a life that is not the current one is cancelled.
LEMMA LifeStep ==
  ASSUME ControlTyped, BeatInv, LifeInv, Control
  PROVE  LifeInv'
<1> USE Bounds DEF openVars, ctxVars, beatVars, netVars
<1>0. life \in Nat /\ Lives \subseteq Nat
  BY DEF ControlTyped, Lives
<1>1. CASE NodeStart
  <2>1. /\ pc \in {"new", "stopped"} /\ life' = life + 1 /\ started' = TRUE /\ pc' = "serving"
        /\ cancelled' = cancelled
    BY <1>1 DEF NodeStart
  <2>2. \A l \in Lives : l < life + 1 => l \in cancelled
    BY <1>0, <2>1 DEF LifeInv, Lives
  <2> QED BY <2>1, <2>2 DEF LifeInv
<1>2. CASE NodeStartFails \/ HttpStart \/ PeerStream \/ Signal \/ Expire \/ Stop \/ HttpStopped
  <2>1. UNCHANGED <<life, cancelled, started>>
    BY <1>2 DEF NodeStartFails, HttpStart, PeerStream, Signal, Expire, Stop, HttpStopped
  <2>2. EarlyMove
    BY <1>2, EarlyMoves
  <2> QED BY <2>1, <2>2 DEF EarlyMove, LifeInv
<1>3. CASE StopMarked
  BY <1>3 DEF StopMarked, LifeInv
<1>4. CASE StopLife
  BY <1>4 DEF StopLife, LifeInv
<1>5. CASE StopHeartbeats \/ StopPeers \/ PeersStopped
  <2>1. UNCHANGED <<life, cancelled, started>>
    BY <1>5 DEF StopHeartbeats, StopPeers, PeersStopped
  <2>2. /\ pc \in {"stopBeats", "stopPeers", "drainPeers"}
        /\ pc' \in {"stopPeers", "drainPeers", "stopped"}
    BY <1>5 DEF StopHeartbeats, StopPeers, PeersStopped
  <2> QED BY <2>1, <2>2 DEF LifeInv
<1>6. CASE CloseNode \/ CloseFails
  BY <1>6 DEF CloseNode, CloseFails, LifeInv
<1>7. ASSUME NEW t \in Lives, HeartbeatsEnd(t) PROVE LifeInv'
  BY <1>7 DEF HeartbeatsEnd, LifeInv
<1> QED BY <1>1, <1>2, <1>3, <1>4, <1>5, <1>6, <1>7 DEF Control, ShutDown

\* CloseInv is inductive: Close waits for publishes.
LEMMA CloseStep ==
  ASSUME Flags, CloseInv, Control, UNCHANGED pub
  PROVE  CloseInv'
<1> USE DEF openVars
<1>0. LockFree' = LockFree
  BY DEF LockFree, Holding
<1>1. CASE CloseNode
  BY <1>0, <1>1 DEF CloseNode, CloseInv
<1>2. CASE CloseFails
  BY <1>0, <1>2 DEF CloseFails, CloseInv
<1>3. CASE ~CloseNode /\ ~CloseFails
  <2>1. UNCHANGED <<nodeClosed, logClosed, peerClosed>>
    <3>1. NodeStart \/ NodeStartFails \/ HttpStart \/ PeerStream \/ Signal \/ Expire \/ Stop
            => UNCHANGED <<nodeClosed, logClosed, peerClosed>>
      BY DEF NodeStart, NodeStartFails, HttpStart, PeerStream, Signal, Expire, Stop
    <3>2. ShutDown => UNCHANGED <<nodeClosed, logClosed, peerClosed>>
      BY DEF ShutDown, HttpStopped, StopMarked, StopLife, StopHeartbeats, StopPeers, PeersStopped
    <3>3. ASSUME NEW t \in Lives, HeartbeatsEnd(t) PROVE UNCHANGED <<nodeClosed, logClosed, peerClosed>>
      BY <3>3 DEF HeartbeatsEnd
    <3> QED BY <1>3, <3>1, <3>2, <3>3 DEF Control
  <2>2. pc = "closeFailed" => pc' = "closeFailed"
    <3>1. NodeStart \/ NodeStartFails \/ HttpStart \/ PeerStream \/ Signal \/ Expire \/ Stop
            => (pc = "closeFailed" => pc' = "closeFailed")
      BY DEF NodeStart, NodeStartFails, HttpStart, PeerStream, Signal, Expire, Stop
    <3>2. ShutDown => (pc = "closeFailed" => pc' = "closeFailed")
      BY DEF ShutDown, HttpStopped, StopMarked, StopLife, StopHeartbeats, StopPeers, PeersStopped
    <3>3. ASSUME NEW t \in Lives, HeartbeatsEnd(t) PROVE pc' = pc
      BY <3>3 DEF HeartbeatsEnd
    <3> QED BY <1>3, <3>1, <3>2, <3>3 DEF Control
  <2> QED BY <1>0, <2>1, <2>2 DEF CloseInv
<1> QED BY <1>1, <1>2, <1>3

\* A publish begins only on a node that is not closed.
LEMMA CloseWork ==
  ASSUME WorkTyped, CloseInv, UNCHANGED controlVars, Publish \/ UNCHANGED pub
  PROVE  CloseInv'
<1>1. UNCHANGED <<nodeClosed, logClosed, peerClosed, pc>>
  BY DEF controlVars, openVars
<1>2. nodeClosed => LockFree'
  <2>1. CASE UNCHANGED pub
    BY <2>1 DEF CloseInv, LockFree, Holding
  <2>2. CASE Publish
    BY <2>2 DEF Publish, PublishAsk, PublishBegin, PublishAppend, PublishForward, Running, CloseInv,
           LockFree, Holding, WorkTyped
  <2> QED BY <2>1, <2>2
<1> QED BY <1>1, <1>2 DEF CloseInv
-----------------------------------------------------------------------------
(* Events from peers *)

InInbox(l, e) == \E k \in 1 .. Len(cons[l].inbox) : cons[l].inbox[k] = e

\* The consumer of life l may still append e: AppendEvent has let it through, or
\* it has the event and its context is alive.
May(l, e) ==
  \/ cons[l].checked /\ cons[l].hand = e
  \/ l \notin cancelled /\ (cons[l].hand = e \/ InInbox(l, e))

\* A consumer gets an event once, and only from a channel of a life that began.
Tidy(l) ==
  /\ cons[l].checked => cons[l].hand # 0
  /\ cons[l].reg => l <= life
  /\ cons[l].hand <= events
  /\ \A k \in 1 .. Len(cons[l].inbox) : cons[l].inbox[k] <= events /\ cons[l].inbox[k] # cons[l].hand
  /\ \A k, n \in 1 .. Len(cons[l].inbox) : cons[l].inbox[k] = cons[l].inbox[n] => k = n

\* Only one consumer may still append an event, and none once it is appended.
OneAppender(e) ==
  /\ kept[e] <= 1
  /\ e > events => kept[e] = 0
  /\ \A l \in Lives : May(l, e) => kept[e] = 0
  /\ \A l, x \in Lives : May(l, e) /\ May(x, e) => l = x

InboundInv == (\A l \in Lives : Tidy(l)) /\ (\A e \in Events : OneAppender(e))

\* The fields of a consumer's record.
LEMMA ConsumerTypes ==
  ASSUME WorkTyped, NEW l \in Lives
  PROVE  /\ cons[l].inbox \in Seq(Events) /\ cons[l].hand \in 0 .. MaxEvents
         /\ cons[l].reg \in BOOLEAN /\ cons[l].checked \in BOOLEAN
         /\ events \in 0 .. MaxEvents /\ kept \in [Events -> Nat]
BY DEF WorkTyped, ConsTyped, Consumers

\* Nobody comes to have an event: the cases where a consumer lets go of one, or a
\* context ends.
LEMMA NoneAdded ==
  ASSUME WorkTyped, \A e \in Events : OneAppender(e), UNCHANGED <<events, kept>>,
         \A e \in Events, l \in Lives : May(l, e)' => May(l, e)
  PROVE  \A e \in Events : OneAppender(e)'
<1> SUFFICES ASSUME NEW e \in Events PROVE OneAppender(e)'
  OBVIOUS
<1>1. \A l \in Lives : May(l, e)' => May(l, e)
  OBVIOUS
<1>2. OneAppender(e) /\ events' = events /\ kept' = kept
  OBVIOUS
<1> QED BY <1>1, <1>2 DEF OneAppender

\* The same consumers, perhaps with fewer live contexts.
LEMMA InboundSame ==
  ASSUME WorkTyped, InboundInv, UNCHANGED consVars, cancelled \subseteq cancelled',
         life' \in Nat, life \in Nat, life <= life'
  PROVE  InboundInv'
<1>1. UNCHANGED <<events, cons, kept>>
  BY DEF consVars
<1>2. ASSUME NEW l \in Lives PROVE Tidy(l)'
  <2>1. Tidy(l) /\ l \in Nat
    BY Bounds DEF InboundInv, Lives
  <2> QED BY <1>1, <2>1 DEF Tidy
<1>3. \A e \in Events, l \in Lives : May(l, e)' => May(l, e)
  BY <1>1 DEF May, InInbox
<1>4. \A e \in Events : OneAppender(e)'
  BY <1>1, <1>3, NoneAdded DEF InboundInv
<1> QED BY <1>2, <1>4 DEF InboundInv

\* Cancelling a life takes the right to append from its consumer only.
LEMMA ControlInbound ==
  ASSUME WorkTyped, ControlTyped, InboundInv, Control, UNCHANGED workVars
  PROVE  InboundInv'
<1> USE Bounds DEF ctxVars
<1>1. life \in Nat
  BY DEF ControlTyped
<1>2. cancelled \subseteq cancelled' /\ (life' = life \/ life' = life + 1)
  <2>1. CASE NodeStart
    BY <2>1 DEF NodeStart
  <2>2. CASE NodeStartFails \/ HttpStart \/ PeerStream \/ Signal \/ Expire \/ Stop
    BY <2>2 DEF NodeStartFails, HttpStart, PeerStream, Signal, Expire, Stop
  <2>3. CASE ShutDown
    BY <2>3 DEF ShutDown, HttpStopped, StopMarked, StopLife, StopHeartbeats, StopPeers, PeersStopped
  <2>4. CASE CloseNode \/ CloseFails
    BY <2>4 DEF CloseNode, CloseFails
  <2>5. ASSUME NEW t \in Lives, HeartbeatsEnd(t) PROVE UNCHANGED <<cancelled, life>>
    BY <2>5 DEF HeartbeatsEnd
  <2> QED BY <2>1, <2>2, <2>3, <2>4, <2>5 DEF Control
<1> QED BY <1>1, <1>2, InboundSame DEF workVars

\* The next event reaches the registered consumers; the only one of them whose
\* context may be alive is that of the last life.
LEMMA EventInbound ==
  ASSUME WorkTyped, ControlTyped, LifeInv, InboundInv, PeerEvent, UNCHANGED restVars
  PROVE  InboundInv'
<1>0. /\ UNCHANGED <<life, cancelled>> /\ kept' = kept /\ ConsTyped /\ events \in 0 .. MaxEvents
      /\ life \in Nat /\ Lives \subseteq Nat
  BY Bounds DEF restVars, controlVars, ctxVars, PeerEvent, WorkTyped, ControlTyped, Lives
<1>1. PICK n : n = events + 1
  OBVIOUS
<1>2. /\ events' = n /\ n \in Events /\ n \in Nat /\ n > events /\ events \in Nat
      /\ \A l \in Lives :
              /\ cons'[l].hand = cons[l].hand /\ cons'[l].checked = cons[l].checked
              /\ cons'[l].reg = cons[l].reg
              /\ \/ cons'[l].inbox = cons[l].inbox
                 \/ cons[l].reg /\ cons'[l].inbox = Append(cons[l].inbox, n)
  BY <1>0, <1>1, EventIs, Bounds DEF Events
<1>3. ASSUME NEW l \in Lives
      PROVE  /\ Tidy(l)'
             /\ \A e \in Events : InInbox(l, e)' => InInbox(l, e) \/ (e = n /\ cons[l].reg)
  <2>1. Tidy(l) /\ cons[l].inbox \in Seq(Events) /\ cons[l].hand \in Nat
    BY Bounds, ConsumerTypes DEF InboundInv
  <2>2. PICK q, r : q = cons[l].inbox /\ r = cons'[l].inbox
    OBVIOUS
  <2>3. q \in Seq(Events) /\ \A k \in 1 .. Len(q) : q[k] \in Nat /\ q[k] <= events /\ q[k] # cons[l].hand
    BY <2>1, <2>2, Bounds DEF Tidy, Events
  <2>4. CASE r = q
    BY <1>0, <1>2, <2>1, <2>2, <2>3, <2>4 DEF Tidy, InInbox
  <2>5. CASE cons[l].reg /\ r = Append(q, n)
    <3>1. /\ Len(q) \in Nat /\ Len(r) = Len(q) + 1 /\ r[Len(q) + 1] = n
          /\ \A k \in 1 .. Len(q) : r[k] = q[k]
      BY <2>3, <2>5
    <3>2. \A k \in 1 .. Len(r) : r[k] = n \/ (k \in 1 .. Len(q) /\ r[k] = q[k])
      BY <3>1
    <3>3. cons[l].hand <= events
      BY <2>1 DEF Tidy
    <3>4. \A k \in 1 .. Len(r) : r[k] <= n /\ r[k] # cons[l].hand
      BY <1>2, <2>1, <2>3, <3>2, <3>3
    <3>5. \A k, m \in 1 .. Len(r) : r[k] = r[m] => k = m
      <4>1. \A k, m \in 1 .. Len(q) : q[k] = q[m] => k = m
        BY <2>1, <2>2 DEF Tidy
      <4>2. \A k \in 1 .. Len(q) : q[k] # n
        BY <1>2, <2>3
      <4> QED BY <3>1, <4>1, <4>2
    <3>6. Tidy(l)'
      <4>1. cons[l].hand <= n
        BY <1>2, <2>1, <3>3
      <4> QED BY <1>0, <1>2, <2>1, <2>2, <3>4, <3>5, <4>1 DEF Tidy
    <3>7. ASSUME NEW e \in Events, InInbox(l, e)' PROVE InInbox(l, e) \/ (e = n /\ cons[l].reg)
      BY <2>2, <2>5, <3>2, <3>7 DEF InInbox
    <3> QED BY <3>6, <3>7
  <2> QED BY <1>2, <2>2, <2>4, <2>5
<1>4. ASSUME NEW e \in Events, e # n PROVE OneAppender(e)'
  <2>1. \A l \in Lives : May(l, e)' => May(l, e)
    BY <1>0, <1>2, <1>3, <1>4 DEF May
  <2>2. OneAppender(e) /\ kept' = kept /\ e \in Nat
    BY <1>0, Bounds DEF InboundInv, Events
  <2>3. kept[e] <= 1 /\ (e > n => kept[e] = 0)
    BY <1>2, <2>2 DEF OneAppender
  <2> QED BY <1>2, <2>1, <2>2, <2>3 DEF OneAppender
<1>5. OneAppender(n)'
  <2>1. kept[n] = 0
    BY <1>2 DEF InboundInv, OneAppender
  <2>2. ASSUME NEW l \in Lives, May(l, n)' PROVE l = life
    <3>1. ~InInbox(l, n) /\ cons[l].hand # n
      <4>1. Tidy(l) /\ cons[l].hand \in Nat /\ cons[l].inbox \in Seq(Events)
        BY Bounds, ConsumerTypes DEF InboundInv
      <4> QED BY <1>2, <4>1 DEF Tidy, InInbox
    <3>2. l \notin cancelled /\ cons[l].reg
      BY <1>0, <1>2, <1>3, <2>2, <3>1 DEF May
    <3>3. l <= life /\ ~(l < life)
      BY <3>2 DEF InboundInv, Tidy, LifeInv
    <3> QED BY <1>0, <3>3
  <2> QED BY <1>0, <1>2, <2>1, <2>2 DEF OneAppender
<1> QED BY <1>3, <1>4, <1>5 DEF InboundInv

\* Registering and unregistering hand out no event.
LEMMA ConsumerInbound ==
  ASSUME WorkTyped, ControlTyped, peerClosed \in BOOLEAN, InboundInv, UNCHANGED restVars,
         NEW l \in Lives, ConsumerStart(l) \/ ConsumerUnregister(l) \/ ConsumerEnd(l)
  PROVE  InboundInv'
<1>0. /\ UNCHANGED <<life, cancelled, events, kept>> /\ ConsTyped
  BY DEF restVars, controlVars, ctxVars, ConsumerStart, ConsumerUnregister, ConsumerEnd, WorkTyped
<1>1. /\ OthersKept(l) /\ cons'[l].inbox = cons[l].inbox /\ cons'[l].hand = cons[l].hand
      /\ cons'[l].checked = cons[l].checked
  BY <1>0, StartIs, UnregisterIs, EndIs
<1>2. cons'[l].reg => cons[l].reg \/ l <= life
  BY <1>0, StartIs, UnregisterIs, EndIs DEF ConsumerStart
<1>3. ASSUME NEW x \in Lives PROVE Tidy(x)' /\ \A e \in Events : May(x, e)' => May(x, e)
  <2>1. CASE x = l
    BY <1>0, <1>1, <1>2, <2>1 DEF InboundInv, Tidy, May, InInbox
  <2>2. CASE x # l
    <3>1. cons'[x] = cons[x]
      BY <1>1, <2>2 DEF OthersKept
    <3> QED BY <1>0, <3>1 DEF InboundInv, Tidy, May, InInbox
  <2> QED BY <2>1, <2>2
<1> QED BY <1>0, <1>3, NoneAdded DEF InboundInv
\* Taking an event moves it from the channel to the hand.
LEMMA TakeInbound ==
  ASSUME WorkTyped, ControlTyped, InboundInv, UNCHANGED restVars, NEW l \in Lives, InboundTake(l)
  PROVE  InboundInv'
<1>0. /\ UNCHANGED <<life, cancelled, events, kept>> /\ ConsTyped
  BY DEF restVars, controlVars, ctxVars, InboundTake, WorkTyped
<1>1. PICK q, r : q = cons[l].inbox /\ r = cons'[l].inbox
  OBVIOUS
<1>2. /\ OthersKept(l) /\ r = Tail(q) /\ q # <<>> /\ cons'[l].hand \in {0, Head(q)}
      /\ cons[l].hand = 0 /\ cons'[l].checked = cons[l].checked /\ cons'[l].reg = cons[l].reg
  BY <1>0, <1>1, TakeIs
<1>3. Tidy(l) /\ q \in Seq(Events) /\ events \in Nat
  BY <1>1, Bounds, ConsumerTypes DEF InboundInv
<1>4. /\ Len(q) \in Nat /\ Len(q) >= 1 /\ Len(r) = Len(q) - 1 /\ q[1] = Head(q)
      /\ \A k \in 1 .. Len(r) : r[k] = q[k + 1]
  BY <1>2, <1>3
<1>5. \A k \in 1 .. Len(r) : k + 1 \in 1 .. Len(q) /\ r[k] = q[k + 1] /\ k + 1 # 1
  BY <1>4
<1>6. \A k, n \in 1 .. Len(q) : q[k] = q[n] => k = n
  BY <1>1, <1>3 DEF Tidy
<1>7. \A k \in 1 .. Len(q) : q[k] <= events /\ q[k] # 0 /\ q[k] \in Nat
  BY <1>1, <1>3, Bounds DEF Tidy, Events
<1>8. Tidy(l)'
  <2>1. ~cons[l].checked
    BY <1>2, <1>3 DEF Tidy
  <2>2. cons'[l].hand <= events
    BY <1>2, <1>3, <1>4, <1>7
  <2>3. \A k \in 1 .. Len(r) : r[k] <= events /\ r[k] # cons'[l].hand
    <3>1. \A k \in 1 .. Len(r) : r[k] # q[1]
      BY <1>4, <1>5, <1>6
    <3> QED BY <1>2, <1>4, <1>5, <1>7, <3>1
  <2>4. \A k, n \in 1 .. Len(r) : r[k] = r[n] => k = n
    <3>1. ASSUME NEW k \in 1 .. Len(r), NEW n \in 1 .. Len(r), r[k] = r[n] PROVE k = n
      <4>1. k + 1 = n + 1
        BY <1>5, <1>6, <3>1
      <4> QED BY <4>1
    <3> QED BY <3>1
  <2>5. cons[l].reg => l <= life
    BY <1>3 DEF Tidy
  <2> QED BY <1>0, <1>1, <1>2, <2>1, <2>2, <2>3, <2>4, <2>5 DEF Tidy
<1>9. ASSUME NEW e \in Events, May(l, e)' PROVE May(l, e)
  <2>1. e # 0 /\ ~cons[l].checked
    BY <1>2, <1>3, Bounds DEF Tidy, Events
  <2>2. l \notin cancelled /\ (cons'[l].hand = e \/ InInbox(l, e)')
    BY <1>0, <1>2, <1>9, <2>1 DEF May
  <2>3. InInbox(l, e)
    <3>1. CASE cons'[l].hand = e
      BY <1>1, <1>2, <1>4, <2>1, <3>1 DEF InInbox
    <3>2. CASE InInbox(l, e)'
      BY <1>1, <1>5, <3>2 DEF InInbox
    <3> QED BY <2>2, <3>1, <3>2
  <2> QED BY <2>2, <2>3 DEF May
<1>10. ASSUME NEW x \in Lives, x # l PROVE Tidy(x)' /\ \A e \in Events : May(x, e)' => May(x, e)
  <2>1. cons'[x] = cons[x]
    BY <1>2, <1>10 DEF OthersKept
  <2> QED BY <1>0, <2>1 DEF InboundInv, Tidy, May, InInbox
<1> QED BY <1>0, <1>8, <1>9, <1>10, NoneAdded DEF InboundInv

\* The check drops an event or lets one appender through.
LEMMA CheckInbound ==
  ASSUME WorkTyped, ControlTyped, InboundInv, UNCHANGED restVars, NEW l \in Lives, InboundCheck(l)
  PROVE  InboundInv'
<1>0. /\ UNCHANGED <<life, cancelled, events, kept>> /\ ConsTyped
  BY DEF restVars, controlVars, ctxVars, InboundCheck, WorkTyped
<1>1. /\ OthersKept(l) /\ cons'[l].inbox = cons[l].inbox /\ cons'[l].reg = cons[l].reg
      /\ cons[l].hand # 0 /\ ~cons[l].checked
      /\ \/ l \in cancelled /\ cons'[l].hand = 0 /\ ~cons'[l].checked
         \/ l \notin cancelled /\ cons'[l].hand = cons[l].hand /\ cons'[l].checked
  BY <1>0, CheckIs
<1>2. /\ Tidy(l) /\ events \in Nat /\ cons[l].inbox \in Seq(Events)
      /\ \A k \in 1 .. Len(cons[l].inbox) : cons[l].inbox[k] # 0
  BY Bounds, ConsumerTypes DEF InboundInv, Events
<1>3. Tidy(l)'
  <2>1. CASE cons'[l].hand = 0 /\ ~cons'[l].checked
    BY <1>0, <1>1, <1>2, <2>1 DEF Tidy
  <2>2. CASE cons'[l].hand = cons[l].hand /\ cons'[l].checked
    BY <1>0, <1>1, <1>2, <2>2 DEF Tidy
  <2> QED BY <1>1, <2>1, <2>2
<1>4. ASSUME NEW e \in Events, May(l, e)' PROVE May(l, e)
  <2>1. e # 0 /\ InInbox(l, e)' = InInbox(l, e)
    BY <1>1, Bounds DEF Events, InInbox
  <2> QED BY <1>0, <1>1, <1>4, <2>1 DEF May
<1>5. ASSUME NEW x \in Lives, x # l PROVE Tidy(x)' /\ \A e \in Events : May(x, e)' => May(x, e)
  <2>1. cons'[x] = cons[x]
    BY <1>1, <1>5 DEF OthersKept
  <2> QED BY <1>0, <2>1 DEF InboundInv, Tidy, May, InInbox
<1> QED BY <1>0, <1>3, <1>4, <1>5, NoneAdded DEF InboundInv

\* The one consumer that may append the event does, and none may from then on.
LEMMA AppendInbound ==
  ASSUME WorkTyped, ControlTyped, InboundInv, UNCHANGED restVars, NEW l \in Lives, InboundAppend(l)
  PROVE  InboundInv'
<1>0. UNCHANGED <<life, cancelled, events>> /\ ConsTyped
  BY DEF restVars, controlVars, ctxVars, InboundAppend, WorkTyped
<1>1. /\ OthersKept(l) /\ cons'[l].inbox = cons[l].inbox /\ cons'[l].reg = cons[l].reg
      /\ cons[l].checked /\ cons'[l].hand = 0 /\ ~cons'[l].checked
  BY <1>0, AppendIs
<1>2. PICK h : h = cons[l].hand
  OBVIOUS
<1>3. /\ Tidy(l) /\ events \in Nat /\ cons[l].inbox \in Seq(Events) /\ h \in Events
      /\ \A k \in 1 .. Len(cons[l].inbox) : cons[l].inbox[k] # 0
      /\ kept \in [Events -> Nat] /\ h <= events
  BY <1>1, <1>2, Bounds, ConsumerTypes DEF InboundInv, Events, Tidy
<1>4. Tidy(l)'
  BY <1>0, <1>1, <1>3 DEF Tidy
<1>5. ASSUME NEW e \in Events, May(l, e)' PROVE May(l, e) /\ e # h
  <2>1. e # 0 /\ InInbox(l, e)' = InInbox(l, e)
    BY <1>1, Bounds DEF Events, InInbox
  <2>2. l \notin cancelled /\ InInbox(l, e)
    BY <1>0, <1>1, <1>5, <2>1 DEF May
  <2>3. e # h
    BY <1>2, <1>3, <2>2 DEF InInbox, Tidy
  <2> QED BY <2>2, <2>3 DEF May
<1>6. ASSUME NEW x \in Lives, x # l PROVE Tidy(x)' /\ \A e \in Events : May(x, e)' => May(x, e)
  <2>1. cons'[x] = cons[x]
    BY <1>1, <1>6 DEF OthersKept
  <2> QED BY <1>0, <2>1 DEF InboundInv, Tidy, May, InInbox
<1>7. May(l, h) /\ OneAppender(h)
  BY <1>1, <1>2, <1>3 DEF May, InboundInv
<1>8. \A x \in Lives : ~May(x, h)'
  BY <1>3, <1>5, <1>6, <1>7 DEF OneAppender
<1>9. kept' \in {kept, [kept EXCEPT ![h] = @ + 1]}
  BY <1>2 DEF InboundAppend
<1>10. OneAppender(h)'
  <2>1. kept[h] = 0 /\ kept'[h] \in {0, 1}
    BY <1>3, <1>7, <1>9 DEF OneAppender
  <2>2. h \in Nat
    BY <1>3, Bounds DEF Events
  <2> QED BY <1>0, <1>3, <1>8, <2>1, <2>2 DEF OneAppender
<1>11. ASSUME NEW e \in Events, e # h PROVE OneAppender(e)'
  <2>1. OneAppender(e) /\ kept'[e] = kept[e]
    BY <1>3, <1>9, <1>11 DEF InboundInv
  <2> QED BY <1>0, <1>5, <1>6, <2>1 DEF OneAppender
<1> QED BY <1>4, <1>6, <1>10, <1>11 DEF InboundInv

-----------------------------------------------------------------------------
(* The invariant *)

LifecycleInv == Types /\ BeatInv /\ LifeInv /\ CloseInv /\ InboundInv

\* Nothing has started at first.
LEMMA LifecycleInit == Init => LifecycleInv
<1> SUFFICES ASSUME Init PROVE LifecycleInv
  OBVIOUS
<1> USE Bounds DEF Init
<1>1. NewConsumer \in Consumers /\ NewConsumer.inbox = <<>> /\ NewConsumer.hand = 0
      /\ ~NewConsumer.checked /\ ~NewConsumer.reg
  BY DEF NewConsumer, Consumers
<1>2. \A l \in Lives : cons[l] = NewConsumer
  OBVIOUS
<1>3. WorkTyped
  <2>1. ConsTyped
    BY <1>1 DEF ConsTyped
  <2> QED BY <2>1 DEF WorkTyped
<1>4. Flags /\ sse \in BOOLEAN
  BY DEF Flags
<1>5. ControlTyped
  BY DEF ControlTyped
<1>6. BeatInv
  BY DEF BeatInv, Alive
<1>7. LifeInv
  <2>1. \A l \in Lives : ~(l < life)
    BY DEF Lives
  <2> QED BY <2>1 DEF LifeInv
<1>8. CloseInv
  BY DEF CloseInv
<1>9. ASSUME NEW l \in Lives PROVE Tidy(l) /\ \A e \in Events : ~May(l, e)
  <2>1. \A e : ~InInbox(l, e)
    BY <1>1, <1>2 DEF InInbox
  <2>2. \A e \in Events : e # 0
    BY DEF Events
  <2> QED BY <1>1, <1>2, <2>1, <2>2 DEF Tidy, May
<1>10. \A e \in Events : OneAppender(e)
  BY <1>9 DEF OneAppender
<1> QED BY <1>3, <1>4, <1>5, <1>6, <1>7, <1>8, <1>9, <1>10 DEF LifecycleInv, Types, InboundInv

\* The parts together are inductive.
LEMMA LifecycleStep ==
  ASSUME LifecycleInv, [Next]_vars
  PROVE  LifecycleInv'
<1>0. /\ Types /\ BeatInv /\ LifeInv /\ CloseInv /\ InboundInv /\ Flags /\ ControlTyped /\ WorkTyped
      /\ peerClosed \in BOOLEAN /\ life \in Nat
  BY Bounds DEF LifecycleInv, Types, Flags, ControlTyped
<1>1. Types'
  <2>1. pc = "stopLife" => life > 0
    BY <1>0 DEF BeatInv, Alive
  <2>2. \A l \in Lives : cons[l].checked => cons[l].hand # 0
    BY <1>0 DEF InboundInv, Tidy
  <2> QED BY <1>0, <2>1, <2>2, TypesStep
<1>2. CASE Control /\ UNCHANGED workVars
  <2>1. UNCHANGED pub
    BY <1>2 DEF workVars
  <2> QED BY <1>0, <1>1, <1>2, <2>1, BeatStep, LifeStep, CloseStep, ControlInbound DEF LifecycleInv
<1>3. CASE UNCHANGED controlVars /\ (Publish \/ UNCHANGED pub) /\ InboundInv'
  <2>1. BeatInv' /\ LifeInv'
    BY <1>0, <1>3 DEF controlVars, openVars, ctxVars, beatVars, BeatInv, LifeInv
  <2>2. CloseInv'
    BY <1>0, <1>3, CloseWork
  <2> QED BY <1>1, <1>3, <2>1, <2>2 DEF LifecycleInv
<1>4. CASE UNCHANGED controlVars /\ UNCHANGED consVars /\ (Publish \/ UNCHANGED pub)
  <2>1. UNCHANGED <<life, cancelled>>
    BY <1>4 DEF controlVars, ctxVars
  <2>2. InboundInv'
    BY <1>0, <1>4, <2>1, InboundSame
  <2> QED BY <1>3, <1>4, <2>2
<1>5. CASE Inbound /\ UNCHANGED restVars
  <2>1. InboundInv'
    BY <1>0, <1>5, EventInbound, ConsumerInbound, TakeInbound, CheckInbound, AppendInbound DEF Inbound
  <2> QED BY <1>3, <1>5, <2>1 DEF restVars
<1> QED BY <1>2, <1>4, <1>5, StepKinds DEF vars, controlVars, workVars

\* node_lifecycle.go, main.go: loops, lives, locks and consumers are where the
\* controlling goroutine's place in Start, Stop or Close says, at every step.
THEOREM LifecycleInvariant == Spec => []LifecycleInv
<1>1. LifecycleInv /\ [Next]_vars => LifecycleInv'
  BY LifecycleStep
<1> QED BY <1>1, LifecycleInit, PTL DEF Spec

\* The state has its shape, and a life's channel of peer events is never fuller
\* than it has room for, for every number of lives, events and publishers.
THEOREM LifecycleTypes == Spec => []TypeOK
<1>1. LifecycleInv => TypeOK
  BY TypesImplyTypeOK DEF LifecycleInv
<1> QED BY <1>1, LifecycleInvariant, PTL

\* However often the node is stopped and started and however late a loop returns,
\* a serving node has one live heartbeat loop, its token, and none after Stop.
THEOREM HeartbeatsFollow == Spec => []HeartbeatsFollowNode
<1>1. LifecycleInv => HeartbeatsFollowNode
  <2> SUFFICES ASSUME LifecycleInv PROVE HeartbeatsFollowNode
    OBVIOUS
  <2>1. BeatInv
    BY DEF LifecycleInv
  <2>2. Cardinality(beating \ hushed) <= 1
    <3>1. PICK S : S = beating \ hushed
      OBVIOUS
    <3>2. S \in SUBSET {beat}
      BY <2>1, <3>1 DEF BeatInv
    <3>3. IsFiniteSet({beat}) /\ Cardinality({beat}) = 1
      BY FS_Singleton
    <3>4. Cardinality(S) <= Cardinality({beat})
      BY <3>2, <3>3, FS_Subset
    <3> QED BY <3>1, <3>3, <3>4
  <2> QED BY <2>1, <2>2 DEF BeatInv, HeartbeatsFollowNode, Alive
<1> QED BY <1>1, LifecycleInvariant, PTL

\* An event from a peer is appended at most once, however many lives' consumers
\* it was handed to.
THEOREM InboundAtMostOnce == Spec => []InboundOnce
<1>1. LifecycleInv => InboundOnce
  BY DEF LifecycleInv, InboundInv, OneAppender, InboundOnce
<1> QED BY <1>1, LifecycleInvariant, PTL

\* A publish under way keeps Close out until it returns.
THEOREM PublishBeforeClose == Spec => []NoUseAfterClose
<1>1. LifecycleInv => NoUseAfterClose
  BY DEF LifecycleInv, CloseInv, LockFree, NoUseAfterClose
<1> QED BY <1>1, LifecycleInvariant, PTL
=============================================================================
