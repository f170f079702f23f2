-------------------------- MODULE SSEResumeProofs --------------------------
(***************************************************************************)
(* Proofs about SSEResume: the shape of its state and the resume protocol. *)
(*                                                                         *)
(* CursorCovered alone is not inductive: that the cursor may pass an event *)
(* depends on everything between the log and the client.  SSEInv follows   *)
(* the path of an event.  Up to the end of the log, every event of a topic *)
(* that will not be replayed is covered, on the wire, in the channel of    *)
(* the client's stream or in a publisher's hand (HandInv); what precedes   *)
(* an event in the channel is covered, on the wire or in the channel       *)
(* before it (ChanInv); what precedes the place of the replay is covered   *)
(* or on the wire (ReplayInv); and what precedes an event on the wire is   *)
(* covered or on the wire before it (WireInv).  So the head of the wire    *)
(* may be passed.  A topic enters these invariants by being fresh, or when *)
(* its replay reaches the end of the log: that the stream's channel is     *)
(* registered by then is what makes the last case go through.              *)
(*                                                                         *)
(* BaseInv has what these steps take for granted: types, which connections *)
(* exist, that a routing entry names a stream that asked for the pattern,  *)
(* and that nobody holds an offset beyond the end of the log.              *)
(***************************************************************************)
EXTENDS SSEResume, TLAPS

\* The fields of a handler that runs or has run.
Handler ==
  [pc : {"register", "replay", "live", "closing"}, topics : SUBSET Patterns,
   todo : SUBSET Patterns, from : [Topics -> Int], replay : SUBSET Topics,
   chan : Seq(Events)]

\* Connections are numbered in the order they are opened.
Opened(s) == s \in Streams /\ str[s].pc # "unused"

OpenedInv ==
  /\ used["streams"] <= MaxStreams
  /\ \A s \in Streams : s > used["streams"] => str[s] = Unused

\* The client is on a connection whose handler has not returned; only a handler
\* past the check of the replay plan has written to it.
ConnInv ==
  /\ conn # 0 => Opened(conn) /\ str[conn].pc # "closing"
  /\ conn # 0 => \A t \in Topics : str[conn].from[t] # -1 => cursor[t] # -1
  /\ conn = 0 => wire = <<>>
  /\ conn # 0 /\ str[conn].pc = "register" => wire = <<>>

\* A handler that replays has registered all its patterns and has an offset for
\* what it replays; one that is live has nothing to replay.
HandlerInv ==
  \A s \in Streams :
    /\ str[s].pc # "unused" => str[s].todo \subseteq str[s].topics
    /\ str[s].pc \in {"replay", "live"} => str[s].todo = {}
    /\ str[s].pc = "replay" => \A t \in str[s].replay : str[s].from[t] # -1
    /\ str[s].pc = "live" => str[s].replay = {}

\* Some pattern the handler read covers the topic.
Carries(s, t) == \E k \in str[s].topics : t \in Covers[k]

\* Entries of the routing table and of a publisher's list are streams that
\* asked for the pattern, so a channel holds events its handler may write.
RouteInv ==
  /\ \A k \in Patterns : route[k] # 0 => Opened(route[k]) /\ k \in str[route[k]].topics
  /\ \A p \in Publishers : pub[p].pc = "deliver" =>
       \A d \in pub[p].to : /\ Opened(d[2]) /\ d[1] \in str[d[2]].topics
                            /\ pub[p].topic \in Covers[d[1]]
  /\ \A s \in Streams : str[s].pc # "unused" =>
       \A i \in DOMAIN str[s].chan : Carries(s, str[s].chan[i][1])

\* Offsets anyone holds are below the end of the log.
OffsetInv ==
  /\ used["events"] <= MaxEvents
  /\ \A t \in Topics : log[t] <= used["events"]
  /\ \A p \in Publishers : pub[p].pc # "idle" => pub[p].offset < log[pub[p].topic]
  /\ \A s \in Streams : str[s].pc # "unused" =>
       /\ \A i \in DOMAIN str[s].chan : str[s].chan[i][2] < log[str[s].chan[i][1]]
       /\ \A t \in Topics : str[s].from[t] >= -1 /\ (log[t] = 0 => str[s].from[t] = -1)
  /\ \A i \in DOMAIN wire : wire[i][2] < log[wire[i][1]]
  /\ \A t \in Topics : /\ cursor[t] < log[t]
                       /\ base[t] = -1 <=> cursor[t] = -1

Covered(e) == e \in got \/ \E c \in Causes : e \in excused[c]

InWire(e) == \E i \in DOMAIN wire : wire[i] = e

InChan(e) == conn # 0 /\ \E i \in DOMAIN str[conn].chan : str[conn].chan[i] = e

Holds(p, e) ==
  /\ pub[p].pc # "idle" /\ <<pub[p].topic, pub[p].offset>> = e
  /\ pub[p].pc = "deliver" => \E d \in pub[p].to : Fresh(e[1]) \/ d[2] = conn

InHand(e) == \E p \in Publishers : Holds(p, e)

\* What of t the client will see comes through the channel only: nothing of it
\* will be replayed, or the replay of it is over.
Settled(t) ==
  \/ Fresh(t)
  \/ conn # 0 /\ str[conn].pc # "register" /\ t \notin str[conn].replay /\ Carries(conn, t)

\* What precedes an event written to the client is covered or written before it.
WireInv ==
  \A i \in DOMAIN wire : \A t \in Topics : wire[i][1] = t =>
    \A o \in cursor[t] + 1 .. wire[i][2] - 1 :
      Covered(<<t, o>>) \/ \E j \in 1 .. i - 1 : wire[j] = <<t, o>>

\* So is what precedes the place the replay has come to.
ReplayInv ==
  conn # 0 => \A t \in Topics : str[conn].from[t] # -1 =>
    \A o \in cursor[t] + 1 .. str[conn].from[t] : Covered(<<t, o>>) \/ InWire(<<t, o>>)

\* What precedes an event of a settled topic in the client's channel is covered,
\* written, or in the channel before it.
ChanInv ==
  conn # 0 => \A i \in DOMAIN str[conn].chan : \A t \in Topics :
    str[conn].chan[i][1] = t /\ Settled(t) =>
      \A o \in cursor[t] + 1 .. str[conn].chan[i][2] - 1 :
        \/ Covered(<<t, o>>) \/ InWire(<<t, o>>)
        \/ \E j \in 1 .. i - 1 : str[conn].chan[j] = <<t, o>>

\* Every event of a settled topic is covered or on its way.
HandInv ==
  \A t \in Topics : Settled(t) =>
    \A o \in cursor[t] + 1 .. log[t] - 1 :
      Covered(<<t, o>>) \/ InWire(<<t, o>>) \/ InChan(<<t, o>>) \/ InHand(<<t, o>>)

StreamInv == OpenedInv /\ ConnInv /\ HandlerInv /\ RouteInv
GapInv == WireInv /\ ReplayInv /\ ChanInv /\ HandInv
BaseInv == TypeOK /\ StreamInv /\ OffsetInv
SSEInv == TypeOK /\ StreamInv /\ OffsetInv /\ GapInv /\ CursorCovered
-----------------------------------------------------------------------------
(* What each step makes of the handler it is about. *)

\* The records of all handlers but that of s stay.
OthersStay(s) == \A r \in Streams : r # s => str'[r] = str[r]

\* A connection that was opened has a handler with all its fields.
LEMMA HandlerFields ==
  ASSUME TypeOK, NEW s \in Streams
  PROVE  /\ str[s].pc # "unused" => str[s] \in Handler /\ Len(str[s].chan) <= ChanCap
         /\ str[s].pc = "unused" => str[s] = Unused
  BY DEF TypeOK, StrStates, Handler, Unused

\* Replacing the record of one handler keeps the shape of the array.
LEMMA StrTyped ==
  ASSUME NEW s \in Streams, NEW h \in Handler, NEW f, f \in [Streams -> StrStates],
         NEW g, g = [f EXCEPT ![s] = h]
  PROVE  g \in [Streams -> StrStates]
  BY DEF StrStates, Handler

\* An event appended to a handler's channel.
LEMMA DeliverIs ==
  ASSUME TypeOK, NEW s \in Streams, str[s].pc # "unused", NEW e \in Events,
         str' = [str EXCEPT ![s].chan = Append(@, e)]
  PROVE  /\ OthersStay(s) /\ str'[s] \in Handler
         /\ str' \in [Streams -> StrStates]
         /\ str'[s].pc = str[s].pc /\ str'[s].topics = str[s].topics
         /\ str'[s].todo = str[s].todo /\ str'[s].from = str[s].from
         /\ str'[s].replay = str[s].replay /\ str'[s].chan = Append(str[s].chan, e)
<1>1. str[s] \in Handler /\ str \in [Streams -> StrStates]
  BY HandlerFields DEF TypeOK
<1>2. str' = [str EXCEPT ![s] = [str[s] EXCEPT !.chan = Append(str[s].chan, e)]]
  OBVIOUS
<1>3. PICK h : h = [str[s] EXCEPT !.chan = Append(str[s].chan, e)]
  OBVIOUS
<1>4. /\ h \in Handler /\ h.pc = str[s].pc /\ h.topics = str[s].topics
      /\ h.todo = str[s].todo /\ h.from = str[s].from
      /\ h.replay = str[s].replay /\ h.chan = Append(str[s].chan, e)
  <2>1. str[s].chan \in Seq(Events) /\ Append(str[s].chan, e) \in Seq(Events)
    BY <1>1 DEF Handler
  <2>2. PICK c : c = Append(str[s].chan, e)
    OBVIOUS
  <2> QED
    BY <1>1, <1>3, <2>1, <2>2 DEF Handler
<1>5. str' = [str EXCEPT ![s] = h]
  BY <1>2, <1>3
<1>6. str' \in [Streams -> StrStates]
  BY <1>1, <1>4, <1>5, StrTyped
<1> QED
  BY <1>1, <1>4, <1>5, <1>6 DEF OthersStay
\* A pattern registered or unregistered by a handler.
LEMMA TodoIs ==
  ASSUME TypeOK, NEW s \in Streams, str[s].pc # "unused", NEW k,
         str' = [str EXCEPT ![s].todo = @ \ {k}]
  PROVE  /\ OthersStay(s) /\ str'[s] \in Handler /\ str' \in [Streams -> StrStates]
         /\ str'[s].pc = str[s].pc /\ str'[s].topics = str[s].topics
         /\ str'[s].todo = str[s].todo \ {k} /\ str'[s].from = str[s].from
         /\ str'[s].replay = str[s].replay /\ str'[s].chan = str[s].chan
<1>1. str[s] \in Handler /\ str \in [Streams -> StrStates]
  BY HandlerFields DEF TypeOK
<1>2. PICK h : h = [str[s] EXCEPT !.todo = str[s].todo \ {k}]
  OBVIOUS
<1>3. str' = [str EXCEPT ![s] = h]
  BY <1>1, <1>2 DEF Handler
<1>4. str[s].todo \ {k} \subseteq Patterns
  BY <1>1 DEF Handler, Events
<1>5. /\ h \in Handler
      /\ h.pc = str[s].pc /\ h.topics = str[s].topics
      /\ h.todo = str[s].todo \ {k} /\ h.from = str[s].from
      /\ h.replay = str[s].replay /\ h.chan = str[s].chan
  BY <1>1, <1>2, <1>4 DEF Handler
<1>6. str' \in [Streams -> StrStates]
  <2>1. h \in Handler /\ str \in [Streams -> StrStates]
    BY <1>1, <1>5
  <2> HIDE <1>1, <1>2, <1>5
  <2> QED
    BY <1>3, <2>1, StrTyped
<1> QED
  BY <1>1, <1>3, <1>5, <1>6 DEF OthersStay

\* A handler that has validated its replay plan.
LEMMA PlanIs ==
  ASSUME TypeOK, NEW s \in Streams, str[s].pc # "unused", NEW R \in SUBSET Topics,
         str' = [str EXCEPT ![s].pc = "replay", ![s].replay = R]
  PROVE  /\ OthersStay(s) /\ str'[s] \in Handler /\ str' \in [Streams -> StrStates]
         /\ str'[s].pc = "replay" /\ str'[s].topics = str[s].topics
         /\ str'[s].todo = str[s].todo /\ str'[s].from = str[s].from
         /\ str'[s].replay = R /\ str'[s].chan = str[s].chan
<1>1. str[s] \in Handler /\ str \in [Streams -> StrStates]
  BY HandlerFields DEF TypeOK
<1>2. PICK h : h = [str[s] EXCEPT !.pc = "replay", !.replay = R]
  OBVIOUS
<1>3. str' = [str EXCEPT ![s] = h]
  BY <1>1, <1>2 DEF Handler
<1>4. TRUE
  BY <1>1 DEF Handler, Events
<1>5. /\ h \in Handler
      /\ h.pc = "replay" /\ h.topics = str[s].topics
      /\ h.todo = str[s].todo /\ h.from = str[s].from
      /\ h.replay = R /\ h.chan = str[s].chan
  BY <1>1, <1>2, <1>4 DEF Handler
<1>6. str' \in [Streams -> StrStates]
  <2>1. h \in Handler /\ str \in [Streams -> StrStates]
    BY <1>1, <1>5
  <2> HIDE <1>1, <1>2, <1>5
  <2> QED
    BY <1>3, <2>1, StrTyped
<1> QED
  BY <1>1, <1>3, <1>5, <1>6 DEF OthersStay

\* A handler that starts its teardown.
LEMMA EndIs ==
  ASSUME TypeOK, NEW s \in Streams, str[s].pc # "unused",
         str' = [str EXCEPT ![s].pc = "closing", ![s].todo = str[s].topics]
  PROVE  /\ OthersStay(s) /\ str'[s] \in Handler /\ str' \in [Streams -> StrStates]
         /\ str'[s].pc = "closing" /\ str'[s].topics = str[s].topics
         /\ str'[s].todo = str[s].topics /\ str'[s].from = str[s].from
         /\ str'[s].replay = str[s].replay /\ str'[s].chan = str[s].chan
<1>1. str[s] \in Handler /\ str \in [Streams -> StrStates]
  BY HandlerFields DEF TypeOK
<1>2. PICK h : h = [str[s] EXCEPT !.pc = "closing", !.todo = str[s].topics]
  OBVIOUS
<1>3. str' = [str EXCEPT ![s] = h]
  BY <1>1, <1>2 DEF Handler
<1>4. str[s].topics \subseteq Patterns
  BY <1>1 DEF Handler, Events
<1>5. /\ h \in Handler
      /\ h.pc = "closing" /\ h.topics = str[s].topics
      /\ h.todo = str[s].topics /\ h.from = str[s].from
      /\ h.replay = str[s].replay /\ h.chan = str[s].chan
  BY <1>1, <1>2, <1>4 DEF Handler
<1>6. str' \in [Streams -> StrStates]
  <2>1. h \in Handler /\ str \in [Streams -> StrStates]
    BY <1>1, <1>5
  <2> HIDE <1>1, <1>2, <1>5
  <2> QED
    BY <1>3, <2>1, StrTyped
<1> QED
  BY <1>1, <1>3, <1>5, <1>6 DEF OthersStay

\* A handler that goes live.
LEMMA LiveIs ==
  ASSUME TypeOK, NEW s \in Streams, str[s].pc # "unused",
         str' = [str EXCEPT ![s].pc = "live"]
  PROVE  /\ OthersStay(s) /\ str'[s] \in Handler /\ str' \in [Streams -> StrStates]
         /\ str'[s].pc = "live" /\ str'[s].topics = str[s].topics
         /\ str'[s].todo = str[s].todo /\ str'[s].from = str[s].from
         /\ str'[s].replay = str[s].replay /\ str'[s].chan = str[s].chan
<1>1. str[s] \in Handler /\ str \in [Streams -> StrStates]
  BY HandlerFields DEF TypeOK
<1>2. PICK h : h = [str[s] EXCEPT !.pc = "live"]
  OBVIOUS
<1>3. str' = [str EXCEPT ![s] = h]
  BY <1>1, <1>2 DEF Handler
<1>4. TRUE
  BY <1>1 DEF Handler, Events
<1>5. /\ h \in Handler
      /\ h.pc = "live" /\ h.topics = str[s].topics
      /\ h.todo = str[s].todo /\ h.from = str[s].from
      /\ h.replay = str[s].replay /\ h.chan = str[s].chan
  BY <1>1, <1>2, <1>4 DEF Handler
<1>6. str' \in [Streams -> StrStates]
  <2>1. h \in Handler /\ str \in [Streams -> StrStates]
    BY <1>1, <1>5
  <2> HIDE <1>1, <1>2, <1>5
  <2> QED
    BY <1>3, <2>1, StrTyped
<1> QED
  BY <1>1, <1>3, <1>5, <1>6 DEF OthersStay

\* The head taken from a handler's channel.
LEMMA TakeIs ==
  ASSUME TypeOK, NEW s \in Streams, str[s].pc # "unused", str[s].chan # <<>>,
         str' = [str EXCEPT ![s].chan = Tail(@)]
  PROVE  /\ OthersStay(s) /\ str'[s] \in Handler /\ str' \in [Streams -> StrStates]
         /\ str'[s].pc = str[s].pc /\ str'[s].topics = str[s].topics
         /\ str'[s].todo = str[s].todo /\ str'[s].from = str[s].from
         /\ str'[s].replay = str[s].replay /\ str'[s].chan = Tail(str[s].chan)
<1>1. str[s] \in Handler /\ str \in [Streams -> StrStates]
  BY HandlerFields DEF TypeOK
<1>2. PICK h : h = [str[s] EXCEPT !.chan = Tail(str[s].chan)]
  OBVIOUS
<1>3. str' = [str EXCEPT ![s] = h]
  BY <1>1, <1>2 DEF Handler
<1>4. Tail(str[s].chan) \in Seq(Events)
  BY <1>1 DEF Handler, Events
<1>5. /\ h \in Handler
      /\ h.pc = str[s].pc /\ h.topics = str[s].topics
      /\ h.todo = str[s].todo /\ h.from = str[s].from
      /\ h.replay = str[s].replay /\ h.chan = Tail(str[s].chan)
  BY <1>1, <1>2, <1>4 DEF Handler
<1>6. str' \in [Streams -> StrStates]
  <2>1. h \in Handler /\ str \in [Streams -> StrStates]
    BY <1>1, <1>5
  <2> HIDE <1>1, <1>2, <1>5
  <2> QED
    BY <1>3, <2>1, StrTyped
<1> QED
  BY <1>1, <1>3, <1>5, <1>6 DEF OthersStay

\* A handler whose replay has moved on.
LEMMA BatchIs ==
  ASSUME TypeOK, NEW s \in Streams, str[s].pc # "unused", NEW f \in [Topics -> Int],
         NEW R \in SUBSET Topics,
         str' = [str EXCEPT ![s].from = f, ![s].replay = R]
  PROVE  /\ OthersStay(s) /\ str'[s] \in Handler /\ str' \in [Streams -> StrStates]
         /\ str'[s].pc = str[s].pc /\ str'[s].topics = str[s].topics
         /\ str'[s].todo = str[s].todo /\ str'[s].from = f
         /\ str'[s].replay = R /\ str'[s].chan = str[s].chan
<1>1. str[s] \in Handler /\ str \in [Streams -> StrStates]
  BY HandlerFields DEF TypeOK
<1>2. PICK h : h = [str[s] EXCEPT !.from = f, !.replay = R]
  OBVIOUS
<1>3. str' = [str EXCEPT ![s] = h]
  BY <1>1, <1>2 DEF Handler
<1>4. TRUE
  BY <1>1 DEF Handler, Events
<1>5. /\ h \in Handler
      /\ h.pc = str[s].pc /\ h.topics = str[s].topics
      /\ h.todo = str[s].todo /\ h.from = f
      /\ h.replay = R /\ h.chan = str[s].chan
  BY <1>1, <1>2, <1>4 DEF Handler
<1>6. str' \in [Streams -> StrStates]
  <2>1. h \in Handler /\ str \in [Streams -> StrStates]
    BY <1>1, <1>5
  <2> HIDE <1>1, <1>2, <1>5
  <2> QED
    BY <1>3, <2>1, StrTyped
<1> QED
  BY <1>1, <1>3, <1>5, <1>6 DEF OthersStay
-----------------------------------------------------------------------------
(* The shape of the state: types, connections, routing entries, offsets. *)

USE SSECapsAssumption, SSEBoundsAssumption, CoversAssumption, InboundAssumption

\* What a publisher that is not idle holds.
LEMMA PubFields ==
  ASSUME TypeOK, NEW p \in Publishers
  PROVE  /\ pub[p].pc \in {"idle", "persisted", "deliver"}
         /\ pub[p].pc # "idle" => pub[p].topic \in Topics /\ pub[p].offset \in Nat
         /\ pub[p].pc = "deliver" => pub[p].to \subseteq Patterns \X Streams
         /\ pub[p].pc = "idle" => pub[p] = IdlePub
  BY DEF TypeOK, PubStates, IdlePub

\* An event is a topic and an offset below the bound.
LEMMA EventIs ==
  ASSUME NEW t \in Topics, NEW o \in Nat, o < MaxEvents
  PROVE  <<t, o>> \in Events
  BY DEF Events

\* The topic and the offset of an event.
LEMMA EventFields ==
  ASSUME NEW e \in Events
  PROVE  /\ e[1] \in Topics /\ e[2] \in Nat /\ e[2] < MaxEvents
         /\ e = <<e[1], e[2]>>
  BY DEF Events

\* The event a publisher holds.
LEMMA HeldIsEvent ==
  ASSUME TypeOK, OffsetInv, NEW p \in Publishers, pub[p].pc # "idle"
  PROVE  <<pub[p].topic, pub[p].offset>> \in Events
<1>1. pub[p].topic \in Topics /\ pub[p].offset \in Nat
  BY PubFields
<1>2. log[pub[p].topic] \in Int /\ used["events"] \in Nat
  BY <1>1 DEF TypeOK, Bounds
<1>3. pub[p].offset < MaxEvents
  BY <1>1, <1>2 DEF OffsetInv
<1> QED
  BY <1>1, <1>3, EventIs

\* An append extends one topic; no offset that was in use moves.
LEMMA PersistBase ==
  ASSUME BaseInv, NEW p \in Publishers, NEW t \in Topics, Persist(p, t)
  PROVE  BaseInv'
<1> USE DEF BaseInv, StreamInv
<1>1. /\ log' = [log EXCEPT ![t] = @ + 1]
      /\ log \in [Topics -> 0 .. MaxEvents] /\ log[t] \in Nat
      /\ used["events"] \in Nat /\ used["events"] < MaxEvents
      /\ used' = [used EXCEPT !["events"] = @ + 1] /\ used \in [Bounds -> Nat]
      /\ log[t] <= used["events"]
  BY DEF Persist, TypeOK, Spend, OffsetInv, Bounds
<1>2. log' \in [Topics -> 0 .. MaxEvents] /\ used' \in [Bounds -> Nat]
  BY <1>1 DEF Bounds
<1>3. /\ used'["events"] = used["events"] + 1 /\ used'["streams"] = used["streams"]
      /\ \A u \in Topics : log[u] <= log'[u] /\ log'[u] <= used'["events"]
  BY <1>1 DEF Bounds, OffsetInv, TypeOK
<1>4. /\ pub'[p] = [pc |-> "persisted", topic |-> t, offset |-> log[t]]
      /\ \A q \in Publishers : q # p => pub'[q] = pub[q]
      /\ pub' \in [Publishers -> PubStates]
  BY <1>1 DEF Persist, TypeOK, PubStates
<1>5. TypeOK'
  BY <1>2, <1>4 DEF TypeOK, Persist, clientVars
<1>6. OpenedInv' /\ ConnInv' /\ HandlerInv'
  BY <1>3 DEF OpenedInv, ConnInv, HandlerInv, Opened, Persist, clientVars
<1>7. RouteInv'
  BY <1>4 DEF RouteInv, Opened, Carries, Persist, clientVars
<1>8. OffsetInv'
  <2>1. /\ used'["events"] <= MaxEvents
        /\ \A u \in Topics : log'[u] <= used'["events"]
    BY <1>1, <1>3
  <2>2. \A q \in Publishers : pub'[q].pc # "idle" => pub'[q].offset < log'[pub'[q].topic]
    <3> TAKE q \in Publishers
    <3>1. CASE q = p
      BY <1>1, <1>4, <3>1 DEF TypeOK
    <3>2. CASE q # p
      <4>1. pub[q].pc # "idle" => pub[q].topic \in Topics /\ pub[q].offset \in Nat
        BY PubFields
      <4>2. pub[q].pc # "idle" => pub[q].offset < log[pub[q].topic]
        BY DEF OffsetInv
      <4> QED
        BY <1>1, <1>2, <1>3, <1>4, <3>2, <4>1, <4>2
    <3> QED
      BY <3>1, <3>2
  <2>3. ASSUME NEW s \in Streams, str[s].pc # "unused"
        PROVE  /\ \A i \in DOMAIN str[s].chan : str[s].chan[i][2] < log'[str[s].chan[i][1]]
               /\ \A u \in Topics : str[s].from[u] >= -1 /\ (log'[u] = 0 => str[s].from[u] = -1)
    <3>1. str[s] \in Handler
      BY <2>3, HandlerFields
    <3>2. \A i \in DOMAIN str[s].chan : str[s].chan[i] \in Events
      BY <3>1 DEF Handler
    <3>3. \A i \in DOMAIN str[s].chan : str[s].chan[i][1] \in Topics /\ str[s].chan[i][2] \in Nat
      BY <3>2, EventFields
    <3> QED
      BY <1>1, <1>2, <1>3, <2>3, <3>3 DEF OffsetInv
  <2>4. \A i \in DOMAIN wire : wire[i][2] < log'[wire[i][1]]
    <3>1. \A i \in DOMAIN wire : wire[i] \in Events
      BY DEF TypeOK
    <3>2. \A i \in DOMAIN wire : wire[i][1] \in Topics /\ wire[i][2] \in Nat
      BY <3>1, EventFields
    <3> QED
      BY <1>1, <1>2, <1>3, <3>2 DEF OffsetInv
  <2>5. \A u \in Topics : cursor[u] < log'[u] /\ (base[u] = -1 <=> cursor[u] = -1)
    BY <1>1, <1>2, <1>3 DEF OffsetInv, TypeOK
  <2> QED
    BY <2>1, <2>2, <2>3, <2>4, <2>5 DEF OffsetInv, Persist, clientVars
<1> QED
  BY <1>5, <1>6, <1>7, <1>8
\* What the wire and the channels hold.
LEMMA SeqEvents ==
  ASSUME TypeOK
  PROVE  /\ \A i \in DOMAIN wire : /\ wire[i] \in Events /\ wire[i][1] \in Topics
                                   /\ wire[i][2] \in Nat
         /\ \A s \in Streams : str[s].pc # "unused" =>
              \A i \in DOMAIN str[s].chan :
                /\ str[s].chan[i] \in Events /\ str[s].chan[i][1] \in Topics
                /\ str[s].chan[i][2] \in Nat
<1>1. \A i \in DOMAIN wire : wire[i] \in Events
  BY DEF TypeOK
<1>2. ASSUME NEW s \in Streams, str[s].pc # "unused"
      PROVE  \A i \in DOMAIN str[s].chan : str[s].chan[i] \in Events
  BY <1>2, HandlerFields DEF Handler
<1> QED
  BY <1>1, <1>2, EventFields

\* The steps that change a publisher's record only.
LEMMA PubBase ==
  ASSUME BaseInv, NEW p \in Publishers,
         \A q \in Publishers : q # p => pub'[q] = pub[q],
         pub' \in [Publishers -> PubStates],
         pub'[p].pc # "idle" => /\ pub[p].pc # "idle" /\ pub'[p].topic = pub[p].topic
                                /\ pub'[p].offset = pub[p].offset,
         pub'[p].pc = "deliver" =>
           \A d \in pub'[p].to : /\ Opened(d[2]) /\ d[1] \in str[d[2]].topics
                                 /\ pub'[p].topic \in Covers[d[1]],
         excused' \in [Causes -> SUBSET Events],
         UNCHANGED <<log, subs, route, str, clientVars, used>>
  PROVE  BaseInv'
<1> USE DEF BaseInv, StreamInv
<1>1. TypeOK'
  BY DEF TypeOK, clientVars
<1>2. OpenedInv' /\ ConnInv' /\ HandlerInv'
  BY DEF OpenedInv, ConnInv, HandlerInv, Opened, clientVars
<1>3. RouteInv'
  BY DEF RouteInv, Opened, Carries, clientVars
<1>4. OffsetInv'
  BY DEF OffsetInv, clientVars
<1> QED
  BY <1>1, <1>2, <1>3, <1>4

\* A lookup finds streams that asked for the pattern.
LEMMA GetSubscribersBase ==
  ASSUME BaseInv, NEW p \in Publishers, GetSubscribers(p)
  PROVE  BaseInv'
<1> DEFINE t == pub[p].topic
           e == <<t, pub[p].offset>>
           found == {k \in Patterns : t \in Covers[k] /\ route[k] # 0}
           to == {<<k, route[k]>> : k \in found}
           h == [pc |-> "deliver", topic |-> t, offset |-> pub[p].offset, to |-> to]
<1> USE DEF BaseInv, StreamInv
<1>1. /\ pub[p].pc = "persisted" /\ t \in Topics /\ pub[p].offset \in Nat
      /\ e \in Events
  BY PubFields, HeldIsEvent DEF GetSubscribers
<1>2. \A k \in found : Opened(route[k]) /\ k \in str[route[k]].topics /\ route[k] \in Streams
  BY DEF RouteInv, Opened
<1>3. to \subseteq Patterns \X Streams
  BY <1>2
<1>4. \A d \in to : Opened(d[2]) /\ d[1] \in str[d[2]].topics /\ t \in Covers[d[1]]
  BY <1>2
<1>5. pub' = [pub EXCEPT ![p] = h]
  BY DEF GetSubscribers
<1>6. h \in PubStates
  BY <1>1, <1>3 DEF PubStates
<1>7. pub \in [Publishers -> PubStates] /\ excused \in [Causes -> SUBSET Events]
  BY DEF TypeOK
<1>8. /\ pub'[p] = h /\ pub' \in [Publishers -> PubStates]
      /\ \A q \in Publishers : q # p => pub'[q] = pub[q]
  <2> HIDE DEF h
  <2> QED
    BY <1>5, <1>6, <1>7
<1>9. excused' \in [Causes -> SUBSET Events]
  <2>1. PICK U, V : /\ U = (IF Attached(t) /\ conn \notin {route[k] : k \in found}
                             THEN excused["unrouted"] \cup {e} ELSE excused["unrouted"])
                    /\ V = (IF Fresh(t) /\ conn \notin {route[k] : k \in found}
                             THEN excused["fresh"] \cup {e} ELSE excused["fresh"])
    OBVIOUS
  <2>2. excused' = [excused EXCEPT !["unrouted"] = U, !["fresh"] = V]
    BY <2>1 DEF GetSubscribers
  <2>3. U \subseteq Events /\ V \subseteq Events
    BY <1>1, <1>7, <2>1 DEF Causes
  <2> QED
    BY <1>7, <2>2, <2>3
<1>10. UNCHANGED <<log, subs, route, str, clientVars, used>>
  BY DEF GetSubscribers
<1>11. /\ pub'[p].pc = "deliver" /\ pub'[p].topic = pub[p].topic
       /\ pub'[p].offset = pub[p].offset /\ pub'[p].to = to
  BY <1>8
<1> HIDE DEF to, BaseInv, h, e
<1> QED
  BY <1>1, <1>4, <1>8, <1>9, <1>10, <1>11, PubBase

\* A publish returns.
LEMMA PublishReturnBase ==
  ASSUME BaseInv, NEW p \in Publishers, PublishReturn(p)
  PROVE  BaseInv'
<1>1. pub \in [Publishers -> PubStates] /\ excused \in [Causes -> SUBSET Events]
  BY DEF BaseInv, TypeOK
<1>2. /\ pub'[p] = IdlePub /\ pub' \in [Publishers -> PubStates]
      /\ \A q \in Publishers : q # p => pub'[q] = pub[q]
      /\ UNCHANGED <<log, subs, route, str, clientVars, excused, used>>
  BY <1>1 DEF PublishReturn, PubStates
<1>3. pub'[p].pc = "idle"
  BY <1>2 DEF IdlePub
<1> QED
  BY <1>1, <1>2, <1>3, PubBase
\* The steps that change the record of one handler: what they must keep.
StrStep(s) ==
  /\ Opened(s) /\ OthersStay(s)
  /\ str' \in [Streams -> StrStates] /\ str'[s] \in Handler
  /\ str'[s].topics = str[s].topics /\ str'[s].todo \subseteq str[s].topics
  /\ str'[s].pc \in {"replay", "live"} => str'[s].todo = {}
  /\ str'[s].pc = "replay" => \A t \in str'[s].replay : str'[s].from[t] # -1
  /\ str'[s].pc = "live" => str'[s].replay = {}
  /\ Len(str'[s].chan) <= ChanCap
  /\ \A i \in DOMAIN str'[s].chan : /\ Carries(s, str'[s].chan[i][1])
                                    /\ str'[s].chan[i][2] < log[str'[s].chan[i][1]]
  /\ \A t \in Topics : /\ str'[s].from[t] >= -1
                       /\ log[t] = 0 => str'[s].from[t] = -1
                       /\ str'[s].from[t] # -1 => str[s].from[t] # -1
  /\ \A k \in Patterns : \/ route'[k] \in {0, route[k]}
                         \/ route'[k] = s /\ k \in str[s].topics
  /\ \A q \in Publishers :
       \/ pub'[q] = pub[q]
       \/ /\ pub'[q] \in PubStates
          /\ pub'[q].pc = pub[q].pc /\ pub'[q].topic = pub[q].topic
          /\ pub'[q].offset = pub[q].offset /\ pub'[q].to \subseteq pub[q].to
  /\ conn' \in {0, conn}
  /\ conn' = s => str'[s].pc # "closing" /\ (str'[s].pc = "register" => wire' = <<>>)
  /\ wire' # <<>> => conn' # 0 /\ (wire' = wire \/ conn = s)
  /\ wire' \in Seq(Events)
  /\ \A i \in DOMAIN wire' : wire'[i][2] < log[wire'[i][1]]
  /\ excused' \in [Causes -> SUBSET Events]
  /\ route' \in [Patterns -> 0 .. MaxStreams]
  /\ pub' = [q \in Publishers |-> pub'[q]]
  /\ UNCHANGED <<log, subs, ensured, cursor, buf, got, base, used>>

\* A step of one handler that keeps to its own topics and offsets.
LEMMA StrBase ==
  ASSUME BaseInv, NEW s \in Streams, StrStep(s)
  PROVE  BaseInv'
<1> USE DEF BaseInv, StreamInv
<1>1. TypeOK'
  <2>1. pub' \in [Publishers -> PubStates]
    BY DEF TypeOK, StrStep
  <2>2. \A r \in Streams : str'[r].pc # "unused" => Len(str'[r].chan) <= ChanCap
    BY DEF TypeOK, StrStep, OthersStay
  <2>3. conn' \in 0 .. MaxStreams
    BY DEF TypeOK, StrStep
  <2> QED
    BY <2>1, <2>2, <2>3 DEF TypeOK, StrStep
<1>2. \A r \in Streams : /\ str'[r].topics = str[r].topics
                         /\ str'[r].pc = "unused" <=> str[r].pc = "unused"
  BY DEF StrStep, OthersStay, Opened, Handler
<1>3. OpenedInv'
  BY DEF OpenedInv, StrStep, OthersStay, Opened, Unused
<1>4. ConnInv'
  <2>1. conn' # 0 => conn' = conn /\ conn \in Streams
    BY DEF StrStep, TypeOK, Streams
  <2>2. conn' # 0 => Opened(conn)' /\ str'[conn'].pc # "closing"
    BY <1>2, <2>1 DEF StrStep, ConnInv, Opened, OthersStay
  <2>3. conn' # 0 => \A t \in Topics : str'[conn'].from[t] # -1 => cursor'[t] # -1
    <3>1. \A t \in Topics : str'[s].from[t] # -1 => str[s].from[t] # -1
      BY DEF StrStep
    <3>2. \A r \in Streams : r # s => str'[r] = str[r]
      BY DEF StrStep, OthersStay
    <3>3. cursor' = cursor
      BY DEF StrStep
    <3>4. conn # 0 => \A t \in Topics : str[conn].from[t] # -1 => cursor[t] # -1
      BY DEF ConnInv
    <3> QED
      BY <2>1, <3>1, <3>2, <3>3, <3>4
  <2>4. conn' = 0 => wire' = <<>>
    BY DEF StrStep
  <2>5. conn' # 0 /\ str'[conn'].pc = "register" => wire' = <<>>
    <3>1. CASE conn' = s
      BY <3>1 DEF StrStep
    <3>2. CASE conn' # s /\ conn' # 0
      BY <2>1, <3>2 DEF StrStep, OthersStay, ConnInv
    <3> QED
      BY <3>1, <3>2
  <2> QED
    BY <2>2, <2>3, <2>4, <2>5 DEF ConnInv
<1>5. HandlerInv'
  BY DEF HandlerInv, StrStep, OthersStay
<1>6. RouteInv'
  <2>1. \A r : Opened(r) => Opened(r)'
    BY <1>2 DEF Opened
  <2>2. \A k \in Patterns : route'[k] # 0 => Opened(route[k])' /\ k \in str'[route'[k]].topics
    <3>1. \A k \in Patterns : route[k] # 0 => Opened(route[k]) /\ k \in str[route[k]].topics
      BY DEF RouteInv
    <3>2. Opened(s)
      BY DEF StrStep
    <3>3. ASSUME NEW k \in Patterns, route'[k] # 0
          PROVE  Opened(route'[k]) /\ k \in str[route'[k]].topics
      <4>1. \/ route'[k] = route[k]
            \/ route'[k] = s /\ k \in str[s].topics
        BY <3>3 DEF StrStep
      <4> QED
        BY <3>1, <3>2, <3>3, <4>1
    <3> QED
      BY <1>2, <2>1, <3>3 DEF Opened
  <2>3. ASSUME NEW q \in Publishers, pub'[q].pc = "deliver", NEW d \in pub'[q].to
        PROVE  /\ Opened(d[2])' /\ d[1] \in str'[d[2]].topics
               /\ pub'[q].topic \in Covers[d[1]]
    <3>1. pub[q].pc = "deliver" /\ d \in pub[q].to /\ pub'[q].topic = pub[q].topic
      BY <2>3 DEF StrStep
    <3> QED
      BY <1>2, <2>1, <3>1 DEF RouteInv, Opened
  <2>4. ASSUME NEW r \in Streams, str'[r].pc # "unused", NEW i \in DOMAIN str'[r].chan
        PROVE  \E k \in str'[r].topics : str'[r].chan[i][1] \in Covers[k]
    <3>1. CASE r = s
      BY <2>4, <3>1 DEF StrStep, Carries
    <3>2. CASE r # s
      <4>1. str'[r] = str[r]
        BY <3>2 DEF StrStep, OthersStay
      <4> QED
        BY <2>4, <4>1 DEF Carries, RouteInv
    <3> QED
      BY <3>1, <3>2
  <2>5. \A r \in Streams : str'[r].pc # "unused" =>
          \A i \in DOMAIN str'[r].chan : Carries(r, str[r].chan[i][1])'
    BY <2>4 DEF Carries
  <2> QED
    BY <2>2, <2>3, <2>5 DEF RouteInv
<1>7. OffsetInv'
  <2>1. \A q \in Publishers : pub'[q].pc # "idle" => pub'[q].offset < log'[pub'[q].topic]
    BY DEF OffsetInv, StrStep
  <2>2. \A r \in Streams : str'[r].pc # "unused" =>
          /\ \A i \in DOMAIN str'[r].chan : str'[r].chan[i][2] < log'[str'[r].chan[i][1]]
          /\ \A t \in Topics : /\ str'[r].from[t] >= -1
                               /\ log'[t] = 0 => str'[r].from[t] = -1
    <3> TAKE r \in Streams
    <3>1. CASE r = s
      BY <3>1 DEF StrStep
    <3>2. CASE r # s
      <4>1. str'[r] = str[r] /\ log' = log
        BY <3>2 DEF StrStep, OthersStay
      <4> QED
        BY <4>1 DEF OffsetInv
    <3> QED
      BY <3>1, <3>2
  <2> QED
    BY <2>1, <2>2 DEF OffsetInv, StrStep
<1> QED
  BY <1>1, <1>3, <1>4, <1>5, <1>6, <1>7
\* What an open handler satisfies.
LEMMA OpenHandler ==
  ASSUME BaseInv, NEW s \in Streams, str[s].pc # "unused"
  PROVE  /\ Opened(s) /\ str[s] \in Handler /\ Len(str[s].chan) <= ChanCap
         /\ str \in [Streams -> StrStates]
         /\ str[s].chan \in Seq(Events) /\ str[s].todo \subseteq str[s].topics
         /\ str[s].pc \in {"replay", "live"} => str[s].todo = {}
         /\ str[s].pc = "replay" => \A t \in str[s].replay : str[s].from[t] # -1
         /\ str[s].pc = "live" => str[s].replay = {}
         /\ \A i \in DOMAIN str[s].chan : /\ Carries(s, str[s].chan[i][1])
                                          /\ str[s].chan[i][2] < log[str[s].chan[i][1]]
         /\ \A t \in Topics : /\ str[s].from[t] >= -1 /\ str[s].from[t] \in Int
                              /\ log[t] = 0 => str[s].from[t] = -1
<1> USE DEF BaseInv, StreamInv
<1>1. /\ Opened(s) /\ str[s] \in Handler /\ Len(str[s].chan) <= ChanCap
      /\ str \in [Streams -> StrStates]
  BY HandlerFields DEF Opened, TypeOK
<1>2. str[s].chan \in Seq(Events) /\ \A t \in Topics : str[s].from[t] \in Int
  BY <1>1 DEF Handler
<1>3. /\ str[s].todo \subseteq str[s].topics
      /\ str[s].pc \in {"replay", "live"} => str[s].todo = {}
      /\ str[s].pc = "replay" => \A t \in str[s].replay : str[s].from[t] # -1
      /\ str[s].pc = "live" => str[s].replay = {}
  BY DEF HandlerInv
<1>4. \A i \in DOMAIN str[s].chan : Carries(s, str[s].chan[i][1])
  BY DEF RouteInv
<1>5. /\ \A i \in DOMAIN str[s].chan : str[s].chan[i][2] < log[str[s].chan[i][1]]
      /\ \A t \in Topics : str[s].from[t] >= -1 /\ (log[t] = 0 => str[s].from[t] = -1)
  BY DEF OffsetInv
<1> QED
  BY <1>1, <1>2, <1>3, <1>4, <1>5

\* The parts of StrStep about what a handler's step leaves alone.
Elsewhere ==
  /\ UNCHANGED <<log, pub, subs, ensured, cursor, buf, got, base, used>>
  /\ route' \in [Patterns -> 0 .. MaxStreams]

\* When a change of one handler is such a step.
LEMMA StrStepWhen ==
  ASSUME BaseInv, NEW s \in Streams, str[s].pc # "unused",
         OthersStay(s), str' \in [Streams -> StrStates], str'[s] \in Handler,
         str'[s].topics = str[s].topics, str'[s].todo \subseteq str[s].topics,
         str'[s].pc \in {"replay", "live"} => str'[s].todo = {},
         str'[s].pc = "replay" => \A t \in str'[s].replay : str'[s].from[t] # -1,
         str'[s].pc = "live" => str'[s].replay = {},
         str'[s].chan = str[s].chan, str'[s].from = str[s].from,
         \A k \in Patterns : \/ route'[k] \in {0, route[k]}
                             \/ route'[k] = s /\ k \in str[s].topics,
         conn' \in {0, conn},
         conn' = s => str'[s].pc # "closing" /\ (str'[s].pc = "register" => wire = <<>>),
         wire # <<>> => conn' # 0,
         wire' = wire, excused' \in [Causes -> SUBSET Events],
         Elsewhere
  PROVE  BaseInv'
<1>1. /\ Opened(s) /\ Len(str[s].chan) <= ChanCap
      /\ \A i \in DOMAIN str[s].chan : /\ Carries(s, str[s].chan[i][1])
                                       /\ str[s].chan[i][2] < log[str[s].chan[i][1]]
      /\ \A t \in Topics : /\ str[s].from[t] >= -1
                           /\ log[t] = 0 => str[s].from[t] = -1
  BY OpenHandler
<1>2. /\ wire \in Seq(Events) /\ \A i \in DOMAIN wire : wire[i][2] < log[wire[i][1]]
      /\ pub = [q \in Publishers |-> pub[q]]
  BY DEF BaseInv, TypeOK, OffsetInv
<1>3. StrStep(s)
  BY <1>1, <1>2 DEF StrStep, Elsewhere
<1> QED
  BY <1>3, StrBase

\* The entry of a pattern names a stream or none.
LEMMA RouteTyped ==
  ASSUME BaseInv, NEW k \in Patterns, NEW s \in 0 .. MaxStreams
  PROVE  [route EXCEPT ![k] = s] \in [Patterns -> 0 .. MaxStreams]
  BY DEF BaseInv, TypeOK

\* A handler's entry is made and taken back while the handler exists.
LEMMA RegisterBase ==
  ASSUME BaseInv, NEW s \in Streams, NEW k \in Patterns, Register(s, k) \/ Unregister(s, k)
  PROVE  BaseInv'
<1>1. /\ str[s].pc # "unused" /\ str' = [str EXCEPT ![s].todo = @ \ {k}]
      /\ str[s].pc \in {"register", "closing"} /\ k \in str[s].todo
      /\ \/ str[s].pc = "register" /\ route' = [route EXCEPT ![k] = s]
         \/ route' = [route EXCEPT ![k] = 0]
      /\ UNCHANGED <<log, pub, subs, clientVars, excused, used>>
  BY DEF Register, Unregister
<1>2. TypeOK
  BY DEF BaseInv
<1>3. /\ OthersStay(s) /\ str'[s] \in Handler /\ str' \in [Streams -> StrStates]
      /\ str'[s].pc = str[s].pc /\ str'[s].topics = str[s].topics
      /\ str'[s].from = str[s].from
      /\ str'[s].replay = str[s].replay /\ str'[s].chan = str[s].chan
  BY <1>1, <1>2, TodoIs
<1>4. str'[s].todo = str[s].todo \ {k}
  BY <1>1, <1>2, TodoIs
<1>5. /\ str[s].todo \subseteq str[s].topics /\ str[s].replay \subseteq Topics
  BY <1>1, OpenHandler DEF Handler
<1>6. /\ route' \in [Patterns -> 0 .. MaxStreams]
      /\ \A j \in Patterns : \/ route'[j] \in {0, route[j]}
                             \/ route'[j] = s /\ j \in str[s].topics
  <2>1. s \in 0 .. MaxStreams /\ 0 \in 0 .. MaxStreams /\ route \in [Patterns -> 0 .. MaxStreams]
    BY <1>2 DEF Streams, TypeOK
  <2> QED
    BY <1>1, <1>5, <2>1
<1>7. /\ conn' = conn /\ wire' = wire /\ excused' \in [Causes -> SUBSET Events]
      /\ conn = s => str[s].pc = "register" /\ wire = <<>>
      /\ wire # <<>> => conn # 0
  BY <1>1, <1>2 DEF BaseInv, StreamInv, ConnInv, TypeOK, clientVars, Streams
<1>8. Elsewhere
  BY <1>1, <1>6 DEF Elsewhere, clientVars
<1> QED
  BY <1>1, <1>3, <1>4, <1>5, <1>6, <1>7, <1>8, StrStepWhen

\* Validation only chooses the topics to replay.
LEMMA PlanBase ==
  ASSUME BaseInv, NEW s \in Streams, ValidateSSEReplayPlan(s)
  PROVE  BaseInv'
<1>1. /\ str[s].pc = "register" /\ str[s].todo = {}
      /\ str' = [str EXCEPT ![s].pc = "replay", ![s].replay = Replayable(s)]
      /\ UNCHANGED <<log, pub, subs, route, clientVars, excused, used>>
  BY DEF ValidateSSEReplayPlan
<1>2. TypeOK /\ Replayable(s) \in SUBSET Topics
  BY DEF BaseInv, Replayable
<1>3. /\ OthersStay(s) /\ str'[s] \in Handler /\ str' \in [Streams -> StrStates]
      /\ str'[s].pc = "replay" /\ str'[s].topics = str[s].topics
      /\ str'[s].todo = str[s].todo /\ str'[s].from = str[s].from
      /\ str'[s].replay = Replayable(s) /\ str'[s].chan = str[s].chan
  BY <1>1, <1>2, PlanIs
<1>4. \A t \in str'[s].replay : str'[s].from[t] # -1
  BY <1>3 DEF Replayable
<1>5. str[s].todo \subseteq str[s].topics
  BY <1>1, OpenHandler
<1>6. /\ conn' = conn /\ wire' = wire /\ excused' \in [Causes -> SUBSET Events]
      /\ wire # <<>> => conn # 0
      /\ route' = route /\ route \in [Patterns -> 0 .. MaxStreams]
  BY <1>1, <1>2 DEF BaseInv, StreamInv, ConnInv, TypeOK, clientVars
<1>7. Elsewhere
  BY <1>1, <1>6 DEF Elsewhere, clientVars
<1> QED
  BY <1>1, <1>3, <1>4, <1>5, <1>6, <1>7, StrStepWhen

\* Going live changes no channel.
LEMMA ReplayDoneBase ==
  ASSUME BaseInv, NEW s \in Streams, ReplayDone(s)
  PROVE  BaseInv'
<1>1. /\ str[s].pc = "replay" /\ str[s].replay = {}
      /\ str' = [str EXCEPT ![s].pc = "live"]
      /\ UNCHANGED <<log, pub, subs, route, clientVars, excused, used>>
  BY DEF ReplayDone
<1>2. TypeOK
  BY DEF BaseInv
<1>3. /\ OthersStay(s) /\ str'[s] \in Handler /\ str' \in [Streams -> StrStates]
      /\ str'[s].pc = "live" /\ str'[s].topics = str[s].topics
      /\ str'[s].todo = str[s].todo /\ str'[s].from = str[s].from
      /\ str'[s].replay = str[s].replay /\ str'[s].chan = str[s].chan
  BY <1>1, <1>2, LiveIs
<1>4. str[s].todo \subseteq str[s].topics /\ str[s].todo = {}
  BY <1>1, OpenHandler
<1>5. /\ conn' = conn /\ wire' = wire /\ excused' \in [Causes -> SUBSET Events]
      /\ wire # <<>> => conn # 0
      /\ route' = route /\ route \in [Patterns -> 0 .. MaxStreams]
  BY <1>1, <1>2 DEF BaseInv, StreamInv, ConnInv, TypeOK, clientVars
<1>6. Elsewhere
  BY <1>1, <1>5 DEF Elsewhere, clientVars
<1> QED
  BY <1>1, <1>3, <1>4, <1>5, <1>6, StrStepWhen

\* What the client loses with its connection are events.
LEMMA UnreadEvents ==
  ASSUME TypeOK, conn \in Streams, str[conn].pc # "unused"
  PROVE  Unread \subseteq Events
  BY SeqEvents DEF Unread

\* A handler that refuses or returns still knows what it registered.
LEMMA EndBase ==
  ASSUME BaseInv, NEW s \in Streams, RefuseReplay(s) \/ HandlerReturn(s)
  PROVE  BaseInv'
<1>1. /\ str[s].pc # "unused"
      /\ str' = [str EXCEPT ![s].pc = "closing", ![s].todo = str[s].topics]
      /\ wire' = wire
      /\ UNCHANGED <<log, pub, subs, route, ensured, cursor, buf, got, base, used>>
  BY DEF RefuseReplay, HandlerReturn, EndedWith, clientVars
<1>2. TypeOK
  BY DEF BaseInv
<1>3. /\ OthersStay(s) /\ str'[s] \in Handler /\ str' \in [Streams -> StrStates]
      /\ str'[s].pc = "closing" /\ str'[s].topics = str[s].topics
      /\ str'[s].todo = str[s].topics /\ str'[s].from = str[s].from
      /\ str'[s].chan = str[s].chan
  BY <1>1, <1>2, EndIs
<1>4. /\ excused' \in [Causes -> SUBSET Events] /\ conn' \in {0, conn} /\ conn' # s
      /\ wire # <<>> => conn' # 0
  <2>1. excused \in [Causes -> SUBSET Events]
    BY <1>2 DEF TypeOK
  <2>2. wire # <<>> => conn # 0 /\ str[conn].pc # "register"
    BY DEF BaseInv, StreamInv, ConnInv
  <2>3. CASE RefuseReplay(s) /\ conn = s
    <3>1. Unread \subseteq Events
      BY <1>1, <1>2, <2>3, UnreadEvents
    <3>2. excused' = [excused EXCEPT !["fresh"] = @ \cup Unread] /\ conn' = 0
      BY <2>3 DEF RefuseReplay, Excuse
    <3>3. wire = <<>>
      BY <2>2, <2>3 DEF RefuseReplay
    <3> QED
      BY <2>1, <2>3, <3>1, <3>2, <3>3 DEF Causes, Streams
  <2>4. CASE conn # s
    BY <2>1, <2>2, <2>4 DEF RefuseReplay, HandlerReturn, clientVars
  <2>5. HandlerReturn(s) => conn # s
    BY DEF HandlerReturn
  <2> QED
    BY <2>3, <2>4, <2>5
<1>5. Elsewhere /\ route' = route
  BY <1>1, <1>2 DEF Elsewhere, TypeOK
<1>6. str[s].topics \subseteq Patterns
  BY <1>1, <1>2, HandlerFields DEF Handler
<1> QED
  BY <1>1, <1>3, <1>4, <1>5, <1>6, StrStepWhen
\* Catenation of sequences of events.
LEMMA Catenated ==
  ASSUME NEW v \in Seq(Events), NEW w \in Seq(Events)
  PROVE  /\ v \o w \in Seq(Events) /\ DOMAIN (v \o w) = 1 .. Len(v) + Len(w)
         /\ \A i \in DOMAIN v : i \in DOMAIN (v \o w) /\ (v \o w)[i] = v[i]
         /\ \A i \in DOMAIN (v \o w) : i \notin DOMAIN v =>
              i - Len(v) \in DOMAIN w /\ (v \o w)[i] = w[i - Len(v)]
         /\ \A i \in DOMAIN w : Len(v) + i \in DOMAIN (v \o w) /\ (v \o w)[Len(v) + i] = w[i]
  OBVIOUS

\* The elements of a sequence with one more.
LEMMA Appended ==
  ASSUME NEW v \in Seq(Events), NEW e \in Events
  PROVE  /\ Append(v, e) \in Seq(Events) /\ Len(Append(v, e)) = Len(v) + 1 /\ Len(v) \in Nat
         /\ DOMAIN v = 1 .. Len(v) /\ DOMAIN Append(v, e) = 1 .. Len(v) + 1
         /\ \A i \in DOMAIN v : i \in DOMAIN Append(v, e) /\ Append(v, e)[i] = v[i]
         /\ Append(v, e)[Len(v) + 1] = e
         /\ \A i \in DOMAIN Append(v, e) : i \notin DOMAIN v => i = Len(v) + 1
         /\ \A i \in DOMAIN Append(v, e) :
              Append(v, e)[i] = e \/ (i \in DOMAIN v /\ Append(v, e)[i] = v[i])
<1>1. /\ Append(v, e) \in Seq(Events) /\ Len(Append(v, e)) = Len(v) + 1 /\ Len(v) \in Nat
      /\ DOMAIN v = 1 .. Len(v) /\ DOMAIN Append(v, e) = 1 .. Len(v) + 1
      /\ Append(v, e)[Len(v) + 1] = e
  OBVIOUS
<1>2. \A i \in DOMAIN v : i \in DOMAIN Append(v, e) /\ Append(v, e)[i] = v[i]
  OBVIOUS
<1>3. PICK w : w = Append(v, e)
  OBVIOUS
<1>4. \A i \in DOMAIN w : i \notin DOMAIN v => i = Len(v) + 1
  BY <1>1, <1>3
<1>5. \A i \in DOMAIN w : w[i] = e \/ (i \in DOMAIN v /\ w[i] = v[i])
  <2>1. PICK n : n = Len(v) + 1
    OBVIOUS
  <2>2. w[n] = e /\ \A i \in DOMAIN v : w[i] = v[i]
    BY <1>1, <1>2, <1>3, <2>1
  <2>3. \A i \in DOMAIN w : i \notin DOMAIN v => i = n
    BY <1>4, <2>1
  <2> QED
    BY <2>2, <2>3, Zenon
<1> QED
  BY <1>1, <1>2, <1>3, <1>4, <1>5

\* One attempt to deliver: to which entry, and what the ghost becomes.
DeliverTo(p, d) ==
  LET s == d[2]
      e == <<pub[p].topic, pub[p].offset>>
      room == Len(str[s].chan) < ChanCap
  IN  /\ pub[p].pc = "deliver" /\ d \in pub[p].to
      /\ pub' = [pub EXCEPT ![p].to = @ \ {d}]
      /\ IF room THEN str' = [str EXCEPT ![s].chan = Append(@, e)] ELSE str' = str
      /\ ~room => e \in excused'["full"] \cup excused'["catchup"]
      /\ Overtaken(p) \subseteq excused'["overtaken"]
      /\ s # conn /\ Fresh(e[1]) => e \in excused'["fresh"]
      /\ \A c \in Causes : excused[c] \subseteq excused'[c]
      /\ excused' \in [Causes -> SUBSET Events]
      /\ UNCHANGED <<log, subs, route, clientVars, used>>

\* What one delivery does.
LEMMA DeliverCases ==
  ASSUME BaseInv, NEW p \in Publishers, DeliverEvent(p)
  PROVE  \E d \in pub[p].to : DeliverTo(p, d)
<1> DEFINE e == <<pub[p].topic, pub[p].offset>>
<1>1. PICK d \in pub[p].to :
        LET s == d[2]
            room == Len(str[s].chan) < ChanCap
        IN  /\ pub' = [pub EXCEPT ![p].to = @ \ {d}]
            /\ str' = IF room THEN [str EXCEPT ![s].chan = Append(@, e)] ELSE str
            /\ excused' = [excused EXCEPT
                 !["full"] = IF room \/ CatchingUp(s, e[1]) THEN @ ELSE @ \cup {e},
                 !["catchup"] = IF ~room /\ CatchingUp(s, e[1]) THEN @ \cup {e} ELSE @,
                 !["overtaken"] = @ \cup Overtaken(p),
                 !["fresh"] = IF s # conn /\ Fresh(e[1]) THEN @ \cup {e} ELSE @]
  BY DEF DeliverEvent
<1> DEFINE s == d[2]
           room == Len(str[s].chan) < ChanCap
<1>2. PICK F, C, O, V :
        /\ F = (IF room \/ CatchingUp(s, e[1]) THEN excused["full"] ELSE excused["full"] \cup {e})
        /\ C = (IF ~room /\ CatchingUp(s, e[1]) THEN excused["catchup"] \cup {e}
                                                ELSE excused["catchup"])
        /\ O = excused["overtaken"] \cup Overtaken(p)
        /\ V = (IF s # conn /\ Fresh(e[1]) THEN excused["fresh"] \cup {e} ELSE excused["fresh"])
  OBVIOUS
<1>3. excused' = [excused EXCEPT !["full"] = F, !["catchup"] = C, !["overtaken"] = O, !["fresh"] = V]
  BY <1>1, <1>2
<1>4. e \in Events /\ Overtaken(p) \subseteq Events /\ excused \in [Causes -> SUBSET Events]
  <2>1. TypeOK /\ OffsetInv /\ pub[p].pc # "idle"
    BY DEF BaseInv, DeliverEvent
  <2>2. e \in Events /\ excused \in [Causes -> SUBSET Events]
    BY <2>1, HeldIsEvent DEF TypeOK
  <2>3. \A q \in Publishers : pub[q].pc # "idle" => <<pub[q].topic, pub[q].offset>> \in Events
    BY <2>1, HeldIsEvent
  <2>4. Overtaken(p) \subseteq Events
    BY <2>3 DEF Overtaken
  <2> QED
    BY <2>2, <2>4
<1>5. /\ F \subseteq Events /\ excused["full"] \subseteq F
      /\ C \subseteq Events /\ excused["catchup"] \subseteq C
      /\ O \subseteq Events /\ excused["overtaken"] \subseteq O /\ Overtaken(p) \subseteq O
      /\ V \subseteq Events /\ excused["fresh"] \subseteq V
      /\ ~room => e \in F \cup C
      /\ s # conn /\ Fresh(e[1]) => e \in V
  <2> HIDE DEF e, room
  <2>1. /\ excused["full"] \subseteq Events /\ excused["catchup"] \subseteq Events
        /\ excused["overtaken"] \subseteq Events /\ excused["fresh"] \subseteq Events
    BY <1>4 DEF Causes
  <2> QED
    BY <1>2, <1>4, <2>1
<1>6. /\ excused'["full"] = F /\ excused'["catchup"] = C /\ excused'["overtaken"] = O
      /\ excused'["fresh"] = V /\ excused'["unrouted"] = excused["unrouted"]
      /\ excused'["buffer"] = excused["buffer"] /\ excused'["cancelled"] = excused["cancelled"]
      /\ excused' \in [Causes -> SUBSET Events]
  BY <1>3, <1>4, <1>5 DEF Causes
<1>7. \A c \in Causes : excused[c] \subseteq excused'[c]
  BY <1>5, <1>6 DEF Causes
<1>8. pub[p].pc = "deliver" /\ UNCHANGED <<log, subs, route, clientVars, used>>
  BY DEF DeliverEvent
<1>9. IF room THEN str' = [str EXCEPT ![s].chan = Append(@, e)] ELSE str' = str
  BY <1>1
<1>10. DeliverTo(p, d)
  BY <1>1, <1>5, <1>6, <1>7, <1>8, <1>9 DEF DeliverTo
<1> QED
  BY <1>10

\* What an attempt leaves of the publisher and of the channel.
LEMMA DeliverToIs ==
  ASSUME BaseInv, NEW p \in Publishers, NEW d, DeliverTo(p, d)
  PROVE  LET s == d[2]
             e == <<pub[p].topic, pub[p].offset>>
         IN  /\ s \in Streams /\ Opened(s) /\ e \in Events
             /\ pub' \in [Publishers -> PubStates]
             /\ \A q \in Publishers : q # p => pub'[q] = pub[q]
             /\ pub'[p].pc = "deliver" /\ pub'[p].topic = pub[p].topic
             /\ pub'[p].offset = pub[p].offset /\ pub'[p].to = pub[p].to \ {d}
             /\ OthersStay(s) /\ str'[s] \in Handler /\ str' \in [Streams -> StrStates]
             /\ str'[s].pc = str[s].pc /\ str'[s].topics = str[s].topics
             /\ str'[s].todo = str[s].todo /\ str'[s].from = str[s].from
             /\ str'[s].replay = str[s].replay
             /\ IF Len(str[s].chan) < ChanCap THEN str'[s].chan = Append(str[s].chan, e)
                                              ELSE str'[s].chan = str[s].chan
<1> DEFINE s == d[2]
           e == <<pub[p].topic, pub[p].offset>>
<1>1. /\ pub[p].pc = "deliver" /\ d \in pub[p].to /\ pub' = [pub EXCEPT ![p].to = @ \ {d}]
      /\ pub \in [Publishers -> PubStates] /\ TypeOK
  BY DEF DeliverTo, BaseInv, TypeOK
<1>2. Opened(s) /\ s \in Streams /\ str[s].pc # "unused"
  BY <1>1 DEF BaseInv, StreamInv, RouteInv, Opened
<1>3. e \in Events
  BY <1>1, HeldIsEvent DEF BaseInv
<1>4. /\ pub[p] \in [pc : {"deliver"}, topic : Topics, offset : Nat,
                     to : SUBSET (Patterns \X Streams)]
  BY <1>1 DEF PubStates, IdlePub
<1>5. PICK h : h = [pub[p] EXCEPT !.to = pub[p].to \ {d}]
  OBVIOUS
<1>6. /\ h \in PubStates /\ h.pc = "deliver" /\ h.topic = pub[p].topic
      /\ h.offset = pub[p].offset /\ h.to = pub[p].to \ {d}
  <2>1. pub[p].to \ {d} \in SUBSET (Patterns \X Streams)
    BY <1>4
  <2> QED
    BY <1>4, <1>5, <2>1 DEF PubStates
<1>7. pub' = [pub EXCEPT ![p] = h]
  BY <1>1, <1>5
<1>8. /\ pub' \in [Publishers -> PubStates]
      /\ \A q \in Publishers : q # p => pub'[q] = pub[q]
      /\ pub'[p] = h
  BY <1>1, <1>6, <1>7
<1>9. /\ OthersStay(s) /\ str'[s] \in Handler /\ str' \in [Streams -> StrStates]
      /\ str'[s].pc = str[s].pc /\ str'[s].topics = str[s].topics
      /\ str'[s].todo = str[s].todo /\ str'[s].from = str[s].from
      /\ str'[s].replay = str[s].replay
      /\ IF Len(str[s].chan) < ChanCap THEN str'[s].chan = Append(str[s].chan, e)
                                       ELSE str'[s].chan = str[s].chan
  <2>1. CASE Len(str[s].chan) < ChanCap
    <3>1. str' = [str EXCEPT ![s].chan = Append(@, e)]
      BY <2>1 DEF DeliverTo
    <3> HIDE DEF e, s
    <3> QED
      BY <1>1, <1>2, <1>3, <2>1, <3>1, DeliverIs
  <2>2. CASE ~(Len(str[s].chan) < ChanCap)
    <3>1. str' = str
      BY <2>2 DEF DeliverTo
    <3>2. str[s] \in Handler /\ str \in [Streams -> StrStates]
      BY <1>1, <1>2, HandlerFields DEF TypeOK
    <3> QED
      BY <2>2, <3>1, <3>2 DEF OthersStay
  <2> QED
    BY <2>1, <2>2
<1> QED
  BY <1>2, <1>3, <1>6, <1>8, <1>9

\* A delivered event is below the end of its topic.
LEMMA DeliverBase ==
  ASSUME BaseInv, NEW p \in Publishers, DeliverEvent(p)
  PROVE  BaseInv'
<1>1. PICK d \in pub[p].to : DeliverTo(p, d)
  BY DeliverCases
<1> DEFINE s == d[2]
           e == <<pub[p].topic, pub[p].offset>>
<1>2. /\ s \in Streams /\ Opened(s) /\ e \in Events
      /\ pub' \in [Publishers -> PubStates]
      /\ \A q \in Publishers : q # p => pub'[q] = pub[q]
      /\ pub'[p].pc = "deliver" /\ pub'[p].topic = pub[p].topic
      /\ pub'[p].offset = pub[p].offset /\ pub'[p].to = pub[p].to \ {d}
      /\ OthersStay(s) /\ str'[s] \in Handler /\ str' \in [Streams -> StrStates]
      /\ str'[s].pc = str[s].pc /\ str'[s].topics = str[s].topics
      /\ str'[s].todo = str[s].todo /\ str'[s].from = str[s].from
      /\ str'[s].replay = str[s].replay
      /\ IF Len(str[s].chan) < ChanCap THEN str'[s].chan = Append(str[s].chan, e)
                                       ELSE str'[s].chan = str[s].chan
  BY <1>1, DeliverToIs
<1>3. str[s].pc # "unused"
  BY <1>2 DEF Opened
<1>4. /\ Len(str[s].chan) <= ChanCap /\ str[s].chan \in Seq(Events)
      /\ str[s].todo \subseteq str[s].topics
      /\ str[s].pc \in {"replay", "live"} => str[s].todo = {}
      /\ str[s].pc = "replay" => \A t \in str[s].replay : str[s].from[t] # -1
      /\ str[s].pc = "live" => str[s].replay = {}
      /\ \A i \in DOMAIN str[s].chan : /\ Carries(s, str[s].chan[i][1])
                                       /\ str[s].chan[i][2] < log[str[s].chan[i][1]]
      /\ \A t \in Topics : /\ str[s].from[t] >= -1
                           /\ log[t] = 0 => str[s].from[t] = -1
  BY <1>2, <1>3, OpenHandler
<1>5. /\ pub[p].pc = "deliver" /\ UNCHANGED <<log, subs, route, clientVars, used>>
      /\ excused' \in [Causes -> SUBSET Events]
  BY <1>1 DEF DeliverTo
<1>6. Carries(s, e[1]) /\ e[2] < log[e[1]]
  BY <1>5 DEF BaseInv, StreamInv, RouteInv, OffsetInv, Carries
<1>7. /\ Len(str'[s].chan) <= ChanCap
      /\ \A i \in DOMAIN str'[s].chan : /\ Carries(s, str'[s].chan[i][1])
                                        /\ str'[s].chan[i][2] < log[str'[s].chan[i][1]]
  <2> HIDE DEF e
  <2>1. CASE Len(str[s].chan) < ChanCap
    <3>1. str'[s].chan = Append(str[s].chan, e)
      BY <1>2, <2>1
    <3> HIDE DEF s
    <3>2. \A i \in DOMAIN str'[s].chan :
            str'[s].chan[i] = e \/ (i \in DOMAIN str[s].chan /\ str'[s].chan[i] = str[s].chan[i])
      <4>1. PICK v, w : v = str[s].chan /\ w = str'[s].chan
        OBVIOUS
      <4>2. v \in Seq(Events) /\ e \in Events /\ w = Append(v, e)
        BY <1>2, <1>4, <3>1, <4>1
      <4>3. \A i \in DOMAIN w : w[i] = e \/ (i \in DOMAIN v /\ w[i] = v[i])
        <5>1. \A i \in DOMAIN Append(v, e) :
                Append(v, e)[i] = e \/ (i \in DOMAIN v /\ Append(v, e)[i] = v[i])
          BY <4>2, Appended, Zenon
        <5> QED
          BY <4>2, <5>1, Zenon
      <4> QED
        BY <4>1, <4>3
    <3>3. Len(str'[s].chan) = Len(str[s].chan) + 1 /\ Len(str[s].chan) \in Nat
      BY <1>2, <1>4, <3>1, Appended
    <3>4. Len(str'[s].chan) <= ChanCap
      BY <2>1, <3>3
    <3>5. ASSUME NEW i \in DOMAIN str'[s].chan
          PROVE  Carries(s, str'[s].chan[i][1]) /\ str'[s].chan[i][2] < log[str'[s].chan[i][1]]
      BY <1>4, <1>6, <3>2
    <3> QED
      BY <3>4, <3>5
  <2>2. CASE ~(Len(str[s].chan) < ChanCap)
    BY <1>2, <1>4, <2>2
  <2> QED
    BY <2>1, <2>2
<1>8. /\ conn = s => str[s].pc # "closing" /\ (str[s].pc = "register" => wire = <<>>)
      /\ wire # <<>> => conn # 0
      /\ wire \in Seq(Events) /\ \A i \in DOMAIN wire : wire[i][2] < log[wire[i][1]]
      /\ route \in [Patterns -> 0 .. MaxStreams]
  <2>1. s # 0
    BY <1>2 DEF Streams
  <2> QED
    BY <2>1 DEF BaseInv, StreamInv, ConnInv, OffsetInv, TypeOK
<1>9. \A q \in Publishers :
        \/ pub'[q] = pub[q]
        \/ /\ pub'[q] \in PubStates
           /\ pub'[q].pc = pub[q].pc /\ pub'[q].topic = pub[q].topic
           /\ pub'[q].offset = pub[q].offset /\ pub'[q].to \subseteq pub[q].to
  BY <1>2, <1>5
<1>10. pub' = [q \in Publishers |-> pub'[q]]
  BY <1>2
<1>11. UNCHANGED <<log, subs, route, ensured, conn, wire, cursor, buf, got, base, used>>
  BY <1>5 DEF clientVars
<1>12. StrStep(s)
  <2> HIDE DEF s, e
  <2> QED
    BY <1>2, <1>4, <1>5, <1>7, <1>8, <1>9, <1>10, <1>11 DEF StrStep
<1> QED
  BY <1>2, <1>12, StrBase
\* One batch: n events of t after offset f = str[s].from[t], written as b.
BatchOf(s, t, n, b) ==
  /\ str[s].pc = "replay" /\ t \in str[s].replay
  /\ b \in Seq(Events) /\ Len(b) = n
  /\ \A i \in 1 .. n : b[i] = <<t, str[s].from[t] + i>>
  /\ n > 0 => str[s].from[t] + n < log[t]
  /\ wire' = IF conn = s THEN wire \o b ELSE wire
  /\ OthersStay(s) /\ str'[s] \in Handler /\ str' \in [Streams -> StrStates]
  /\ str'[s].pc = str[s].pc /\ str'[s].topics = str[s].topics
  /\ str'[s].todo = str[s].todo /\ str'[s].chan = str[s].chan
  /\ str'[s].from[t] = str[s].from[t] + n
  /\ \A u \in Topics : u # t => str'[s].from[u] = str[s].from[u]
  /\ str'[s].replay \subseteq str[s].replay
  /\ \A u \in str[s].replay : u # t => u \in str'[s].replay
  /\ t \notin str'[s].replay => log[t] <= str'[s].from[t] + 1
  /\ UNCHANGED <<log, pub, subs, route, ensured, conn, cursor, buf, got, base, excused, used>>

\* What one batch of a replay reads and writes.
LEMMA BatchCases ==
  ASSUME BaseInv, NEW s \in Streams, NEW t \in Topics, ReplayBatch(s, t)
  PROVE  \E n \in Nat : \E b : BatchOf(s, t, n, b)
<1> DEFINE first == str[s].from[t] + 1
           left == IF log[t] > first THEN log[t] - first ELSE 0
<1>1. str[s].pc = "replay" /\ t \in str[s].replay /\ str[s].pc # "unused" /\ TypeOK
  BY DEF ReplayBatch, BaseInv
<1>2. /\ str[s].from[t] \in Int /\ str[s].from[t] >= -1 /\ str[s].from[t] # -1
      /\ str[s] \in Handler
  BY <1>1, OpenHandler
<1>3. log[t] \in Nat /\ log[t] <= MaxEvents
  BY <1>1 DEF TypeOK
<1>4. left \in Nat /\ first \in Nat
  BY <1>2, <1>3
<1>5. PICK n : n = IF left < Batch THEN left ELSE Batch
  OBVIOUS
<1>6. PICK b : b = [i \in 1 .. n |-> <<t, first + i - 1>>]
  OBVIOUS
<1>7. PICK R : R = IF n < Batch THEN str[s].replay \ {t} ELSE str[s].replay
  OBVIOUS
<1>8. /\ wire' = IF conn = s THEN wire \o b ELSE wire
      /\ str' = [str EXCEPT ![s].from[t] = @ + n, ![s].replay = R]
      /\ UNCHANGED <<log, pub, subs, route, ensured, conn, cursor, buf, got, base, excused, used>>
  BY <1>5, <1>6, <1>7 DEF ReplayBatch, WriteTo
<1>9. /\ n \in Nat /\ n <= left
      /\ n > 0 => str[s].from[t] + n < log[t]
      /\ n < Batch => log[t] <= str[s].from[t] + n + 1
  BY <1>2, <1>3, <1>4, <1>5
<1>10. /\ b \in Seq(Events) /\ Len(b) = n
       /\ \A i \in 1 .. n : b[i] = <<t, str[s].from[t] + i>>
  <2>1. \A i \in 1 .. n : /\ first + i - 1 \in Nat /\ first + i - 1 < MaxEvents
                          /\ first + i - 1 = str[s].from[t] + i
    BY <1>2, <1>3, <1>4, <1>9
  <2>2. \A i \in 1 .. n : <<t, first + i - 1>> \in Events
    BY <2>1, EventIs
  <2>3. b \in [1 .. n -> Events]
    BY <1>6, <2>2
  <2>4. b \in Seq(Events) /\ Len(b) = n
    BY <1>9, <2>3
  <2> QED
    BY <1>6, <2>1, <2>4
<1>11. R \in SUBSET Topics /\ R \subseteq str[s].replay
  BY <1>2, <1>7 DEF Handler
<1>12. /\ OthersStay(s) /\ str'[s] \in Handler /\ str' \in [Streams -> StrStates]
       /\ str'[s].pc = str[s].pc /\ str'[s].topics = str[s].topics
       /\ str'[s].todo = str[s].todo /\ str'[s].chan = str[s].chan
       /\ str'[s].from = [str[s].from EXCEPT ![t] = @ + n]
       /\ str'[s].replay = R
  <2>1. PICK f : f = [str[s].from EXCEPT ![t] = @ + n]
    OBVIOUS
  <2>2. f \in [Topics -> Int]
    BY <1>2, <1>9, <2>1 DEF Handler
  <2>3. str' = [str EXCEPT ![s].from = f, ![s].replay = R]
    BY <1>8, <2>1
  <2> QED
    <3>1. /\ OthersStay(s) /\ str'[s] \in Handler /\ str' \in [Streams -> StrStates]
          /\ str'[s].pc = str[s].pc /\ str'[s].topics = str[s].topics
          /\ str'[s].todo = str[s].todo /\ str'[s].from = f
          /\ str'[s].replay = R /\ str'[s].chan = str[s].chan
      BY <1>1, <1>11, <2>2, <2>3, BatchIs
    <3> QED
      BY <2>1, <3>1
<1>13. /\ str'[s].from[t] = str[s].from[t] + n
       /\ \A u \in Topics : u # t => str'[s].from[u] = str[s].from[u]
  <2>1. str[s].from \in [Topics -> Int]
    BY <1>2 DEF Handler
  <2> QED
    BY <1>12, <2>1
<1>14. /\ \A u \in str[s].replay : u # t => u \in R
       /\ t \notin R => n < Batch
  BY <1>1, <1>7
<1>15. t \notin R => log[t] <= str'[s].from[t] + 1
  BY <1>9, <1>13, <1>14
<1>16. BatchOf(s, t, n, b)
  BY <1>1, <1>8, <1>9, <1>10, <1>11, <1>12, <1>13, <1>14, <1>15 DEF BatchOf
<1> QED
  BY <1>9, <1>16

\* What a handler's step that writes v needs to keep the shape.
LEMMA WriteKeeps ==
  ASSUME BaseInv, NEW s \in Streams, NEW v \in Seq(Events),
         str[s].pc \in {"replay", "live"},
         \A i \in DOMAIN v : v[i][2] < log[v[i][1]],
         wire' = IF conn = s THEN wire \o v ELSE wire, conn' = conn
  PROVE  /\ wire' \in Seq(Events)
         /\ \A i \in DOMAIN wire' : wire'[i][2] < log[wire'[i][1]]
         /\ wire' # <<>> => conn' # 0 /\ (wire' = wire \/ conn = s)
<1>1. /\ wire \in Seq(Events) /\ \A i \in DOMAIN wire : wire[i][2] < log[wire[i][1]]
      /\ wire # <<>> => conn # 0
      /\ s # 0
  BY DEF BaseInv, StreamInv, ConnInv, OffsetInv, TypeOK, Streams
<1>2. CASE conn = s
  <2>1. wire' = wire \o v
    BY <1>2
  <2>2. /\ wire' \in Seq(Events)
        /\ \A i \in DOMAIN wire' : \/ i \in DOMAIN wire /\ wire'[i] = wire[i]
                                   \/ \E j \in DOMAIN v : wire'[i] = v[j]
    BY <1>1, <2>1, Catenated
  <2>3. ASSUME NEW i \in DOMAIN wire'
        PROVE  wire'[i][2] < log[wire'[i][1]]
    BY <1>1, <2>2
  <2> QED
    BY <1>1, <1>2, <2>2, <2>3
<1>3. CASE conn # s
  BY <1>1, <1>3
<1> QED
  BY <1>2, <1>3

\* A batch reads below the end of the topic.
LEMMA BatchBase ==
  ASSUME BaseInv, NEW s \in Streams, NEW t \in Topics, ReplayBatch(s, t)
  PROVE  BaseInv'
<1>0. PICK n \in Nat : \E b : BatchOf(s, t, n, b)
  BY BatchCases
<1>1. PICK b : BatchOf(s, t, n, b)
  BY <1>0
<1>2. str[s].pc = "replay" /\ str[s].pc # "unused"
  BY <1>1 DEF BatchOf
<1>3. /\ Opened(s) /\ Len(str[s].chan) <= ChanCap /\ str[s].todo \subseteq str[s].topics
      /\ str[s].todo = {} /\ \A u \in str[s].replay : str[s].from[u] # -1
      /\ \A i \in DOMAIN str[s].chan : /\ Carries(s, str[s].chan[i][1])
                                       /\ str[s].chan[i][2] < log[str[s].chan[i][1]]
      /\ \A u \in Topics : /\ str[s].from[u] >= -1 /\ str[s].from[u] \in Int
                           /\ log[u] = 0 => str[s].from[u] = -1
  BY <1>2, OpenHandler
<1>4. /\ b \in Seq(Events) /\ \A i \in DOMAIN b : b[i][2] < log[b[i][1]]
  <2>1. /\ b \in Seq(Events) /\ Len(b) = n /\ \A i \in 1 .. n : b[i] = <<t, str[s].from[t] + i>>
        /\ n > 0 => str[s].from[t] + n < log[t]
    BY <1>1 DEF BatchOf
  <2>2. DOMAIN b = 1 .. n /\ log[t] \in Int
    BY <2>1 DEF BaseInv, TypeOK
  <2>3. ASSUME NEW i \in 1 .. n
        PROVE  str[s].from[t] + i < log[t]
    BY <1>3, <2>1, <2>2
  <2> QED
    BY <2>1, <2>2, <2>3
<1>5. /\ wire' \in Seq(Events)
      /\ \A i \in DOMAIN wire' : wire'[i][2] < log[wire'[i][1]]
      /\ wire' # <<>> => conn' # 0 /\ (wire' = wire \/ conn = s)
  BY <1>1, <1>2, <1>4, WriteKeeps DEF BatchOf
<1>6. \A u \in Topics : /\ str'[s].from[u] >= -1
                        /\ log[u] = 0 => str'[s].from[u] = -1
                        /\ str'[s].from[u] # -1 => str[s].from[u] # -1
  <2>1. CASE n = 0
    BY <1>1, <1>3, <2>1 DEF BatchOf
  <2>2. CASE n > 0
    <3>1. /\ str'[s].from[t] = str[s].from[t] + n /\ str[s].from[t] + n < log[t]
          /\ \A u \in Topics : u # t => str'[s].from[u] = str[s].from[u]
          /\ str[s].from[t] # -1
      BY <1>1, <1>3, <2>2 DEF BatchOf
    <3>2. log[t] \in Nat
      BY DEF BaseInv, TypeOK
    <3>3. str'[s].from[t] >= -1 /\ log[t] # 0
      BY <1>3, <3>1, <3>2
    <3> QED
      BY <1>3, <3>1, <3>3
  <2> QED
    BY <2>1, <2>2
<1>7. \A u \in str'[s].replay : str'[s].from[u] # -1
  <2>1. str[s].replay \subseteq Topics
    BY <1>2, OpenHandler DEF Handler
  <2> QED
    BY <1>1, <1>3, <2>1 DEF BatchOf
<1>8. /\ OthersStay(s) /\ str'[s] \in Handler /\ str' \in [Streams -> StrStates]
      /\ str'[s].pc = str[s].pc /\ str'[s].topics = str[s].topics
      /\ str'[s].todo = str[s].todo /\ str'[s].chan = str[s].chan
      /\ UNCHANGED <<log, pub, subs, route, ensured, conn, cursor, buf, got, base, excused, used>>
  BY <1>1 DEF BatchOf
<1>9. /\ excused \in [Causes -> SUBSET Events] /\ route \in [Patterns -> 0 .. MaxStreams]
      /\ pub = [q \in Publishers |-> pub[q]]
  BY DEF BaseInv, TypeOK
<1>10. StrStep(s)
  BY <1>2, <1>3, <1>5, <1>6, <1>7, <1>8, <1>9 DEF StrStep
<1> QED
  BY <1>10, StrBase

\* The head of a channel goes to the wire.
TakeOf(s) ==
  /\ str[s].pc = "live" /\ str[s].chan # <<>>
  /\ wire' = IF conn = s THEN wire \o <<Head(str[s].chan)>> ELSE wire
  /\ OthersStay(s) /\ str'[s] \in Handler /\ str' \in [Streams -> StrStates]
  /\ str'[s].pc = str[s].pc /\ str'[s].topics = str[s].topics
  /\ str'[s].todo = str[s].todo /\ str'[s].from = str[s].from
  /\ str'[s].replay = str[s].replay /\ str'[s].chan = Tail(str[s].chan)
  /\ UNCHANGED <<log, pub, subs, route, ensured, conn, cursor, buf, got, base, excused, used>>

\* What a live handler writes.
LEMMA TakeCases ==
  ASSUME BaseInv, NEW s \in Streams, StreamLive(s)
  PROVE  TakeOf(s)
<1>1. str[s].pc # "unused" /\ TypeOK
  BY DEF StreamLive, BaseInv
<1> QED
  BY <1>1, TakeIs DEF StreamLive, TakeOf, WriteTo

\* The elements of a sequence without its head.
LEMMA Popped ==
  ASSUME NEW v \in Seq(Events), v # <<>>
  PROVE  /\ Head(v) = v[1] /\ 1 \in DOMAIN v /\ Head(v) \in Events /\ Tail(v) \in Seq(Events)
         /\ Len(Tail(v)) = Len(v) - 1 /\ Len(v) \in Nat /\ Len(v) >= 1
         /\ DOMAIN v = 1 .. Len(v) /\ DOMAIN Tail(v) = 1 .. Len(v) - 1
         /\ \A i \in DOMAIN Tail(v) : i + 1 \in DOMAIN v /\ Tail(v)[i] = v[i + 1]
  OBVIOUS

\* A live handler writes what its channel held.
LEMMA TakeBase ==
  ASSUME BaseInv, NEW s \in Streams, StreamLive(s)
  PROVE  BaseInv'
<1>1. TakeOf(s)
  BY TakeCases
<1>2. str[s].pc = "live" /\ str[s].pc # "unused" /\ str[s].chan # <<>>
  BY <1>1 DEF TakeOf
<1>3. /\ Opened(s) /\ Len(str[s].chan) <= ChanCap /\ str[s].todo \subseteq str[s].topics
      /\ str[s].todo = {} /\ str[s].replay = {} /\ str[s].chan \in Seq(Events)
      /\ \A i \in DOMAIN str[s].chan : /\ Carries(s, str[s].chan[i][1])
                                       /\ str[s].chan[i][2] < log[str[s].chan[i][1]]
      /\ \A u \in Topics : /\ str[s].from[u] >= -1
                           /\ log[u] = 0 => str[s].from[u] = -1
  BY <1>2, OpenHandler
<1>4. PICK v : v = str[s].chan
  OBVIOUS
<1>5. /\ Head(v) = v[1] /\ 1 \in DOMAIN v /\ Head(v) \in Events /\ Tail(v) \in Seq(Events)
      /\ Len(Tail(v)) = Len(v) - 1 /\ Len(v) \in Nat
      /\ \A i \in DOMAIN Tail(v) : i + 1 \in DOMAIN v /\ Tail(v)[i] = v[i + 1]
  BY <1>2, <1>3, <1>4, Popped
<1>6. /\ Len(Tail(v)) <= ChanCap
      /\ \A i \in DOMAIN Tail(v) : Carries(s, Tail(v)[i][1]) /\ Tail(v)[i][2] < log[Tail(v)[i][1]]
  BY <1>3, <1>4, <1>5
<1>7. <<Head(v)>> \in Seq(Events) /\ DOMAIN <<Head(v)>> = {1} /\ <<Head(v)>>[1] = v[1]
  BY <1>5
<1>8. \A i \in DOMAIN <<Head(v)>> : <<Head(v)>>[i][2] < log[<<Head(v)>>[i][1]]
  BY <1>3, <1>4, <1>5, <1>7
<1>9. /\ wire' \in Seq(Events)
      /\ \A i \in DOMAIN wire' : wire'[i][2] < log[wire'[i][1]]
      /\ wire' # <<>> => conn' # 0 /\ (wire' = wire \/ conn = s)
  BY <1>1, <1>2, <1>4, <1>7, <1>8, WriteKeeps DEF TakeOf
<1>10. /\ OthersStay(s) /\ str'[s] \in Handler /\ str' \in [Streams -> StrStates]
       /\ str'[s].pc = str[s].pc /\ str'[s].topics = str[s].topics
       /\ str'[s].todo = str[s].todo /\ str'[s].chan = Tail(v)
       /\ str'[s].from = str[s].from /\ str'[s].replay = str[s].replay
       /\ UNCHANGED <<log, pub, subs, route, ensured, conn, cursor, buf, got, base, excused, used>>
  BY <1>1, <1>4 DEF TakeOf
<1>11. /\ excused \in [Causes -> SUBSET Events] /\ route \in [Patterns -> 0 .. MaxStreams]
       /\ pub = [q \in Publishers |-> pub[q]]
  BY DEF BaseInv, TypeOK
<1>12. StrStep(s)
  BY <1>2, <1>3, <1>6, <1>9, <1>10, <1>11 DEF StrStep
<1> QED
  BY <1>12, StrBase
\* The steps that change only what a request of the client's may change.
LEMMA RequestBase ==
  ASSUME BaseInv, subs' \subseteq Patterns, ensured' \subseteq Patterns,
         route' \in [Patterns -> 0 .. MaxStreams],
         \A k \in Patterns : route'[k] \in {0, route[k]},
         buf' \in 0 .. BufCap, used' \in [Bounds -> Nat],
         used'["events"] = used["events"], used'["streams"] = used["streams"],
         UNCHANGED <<log, pub, str, conn, wire, cursor, got, base, excused>>
  PROVE  BaseInv'
<1> USE DEF BaseInv, StreamInv
<1>1. TypeOK'
  BY DEF TypeOK
<1>2. OpenedInv' /\ ConnInv' /\ HandlerInv'
  BY DEF OpenedInv, ConnInv, HandlerInv, Opened
<1>3. RouteInv'
  <2>1. \A k \in Patterns : route'[k] # 0 => Opened(route[k])' /\ k \in str'[route'[k]].topics
    BY DEF RouteInv, Opened
  <2> QED
    BY <2>1 DEF RouteInv, Opened, Carries
<1>4. OffsetInv'
  BY DEF OffsetInv
<1> QED
  BY <1>1, <1>2, <1>3, <1>4

\* A bound that is used once more.
LEMMA SpendIs ==
  ASSUME TypeOK, NEW b \in Bounds, NEW max \in Nat, Spend(b, max)
  PROVE  /\ used' \in [Bounds -> Nat] /\ used'[b] = used[b] + 1 /\ used[b] \in Nat
         /\ used[b] < max /\ \A a \in Bounds : a # b => used'[a] = used[a]
  BY DEF TypeOK, Spend

\* Subscription requests change entries to none or to the client's.
LEMMA SubscriptionsBase ==
  ASSUME BaseInv, NEW k \in Patterns,
         CreateSubscription(k) \/ DeleteSubscription(k) \/ EnsureStreamSubscription(k)
  PROVE  BaseInv'
<1>1. /\ TypeOK /\ subs \subseteq Patterns /\ ensured \subseteq Patterns
      /\ route \in [Patterns -> 0 .. MaxStreams] /\ buf \in 0 .. BufCap
      /\ used \in [Bounds -> Nat]
  BY DEF BaseInv, TypeOK
<1>2. /\ subs' \subseteq Patterns /\ ensured' \subseteq Patterns
      /\ route' = [route EXCEPT ![k] = 0] \/ route' = route
      /\ UNCHANGED <<log, pub, str, conn, wire, cursor, buf, got, base, excused>>
  BY <1>1 DEF CreateSubscription, DeleteSubscription, EnsureStreamSubscription, SubscribeAs,
              UnsubscribeByID, clientVars
<1>3. /\ route' \in [Patterns -> 0 .. MaxStreams]
      /\ \A j \in Patterns : route'[j] \in {0, route[j]}
  BY <1>1, <1>2
<1>4. /\ used' \in [Bounds -> Nat]
      /\ used'["events"] = used["events"] /\ used'["streams"] = used["streams"]
  <2>1. CASE CreateSubscription(k)
    <3>1. Spend("upsets", MaxUpsets)
      BY <2>1 DEF CreateSubscription
    <3> QED
      BY <1>1, <3>1, SpendIs DEF Bounds
  <2>2. CASE DeleteSubscription(k)
    <3>1. Spend("upsets", MaxUpsets)
      BY <2>2 DEF DeleteSubscription
    <3> QED
      BY <1>1, <3>1, SpendIs DEF Bounds
  <2>3. CASE EnsureStreamSubscription(k)
    BY <1>1, <2>3 DEF EnsureStreamSubscription
  <2> QED
    BY <2>1, <2>2, <2>3
<1>5. buf' \in 0 .. BufCap
  BY <1>1, <1>2
<1> QED
  BY <1>2, <1>3, <1>4, <1>5, RequestBase

\* A failed check and the application's reads touch no stream.
LEMMA EnsureFailsBase ==
  ASSUME BaseInv, EnsureFails \/ Consume
  PROVE  BaseInv'
<1>1. /\ ensured' \subseteq Patterns /\ buf' \in 0 .. BufCap /\ subs \subseteq Patterns
      /\ route \in [Patterns -> 0 .. MaxStreams] /\ used \in [Bounds -> Nat]
      /\ UNCHANGED <<log, pub, subs, route, str, conn, wire, cursor, got, base, excused, used>>
  BY DEF BaseInv, TypeOK, EnsureFails, Consume, serverVars
<1> QED
  BY <1>1, RequestBase

\* A new connection: nothing is queued or written yet.
OpenAs(s) ==
  /\ conn = 0 /\ s = used["streams"] + 1 /\ s \in Streams
  /\ used' \in [Bounds -> Nat] /\ used'["streams"] = s /\ used'["events"] = used["events"]
  /\ conn' = s /\ ensured' = {} /\ str[s] = Unused
  /\ OthersStay(s) /\ str'[s] \in Handler /\ str' \in [Streams -> StrStates]
  /\ str'[s].pc = "register" /\ str'[s].topics = subs /\ str'[s].todo = subs
  /\ str'[s].from = cursor /\ str'[s].replay = {} /\ str'[s].chan = <<>>
  /\ UNCHANGED <<log, pub, subs, route, wire, cursor, buf, got, base, excused>>

\* What a new connection starts with.
LEMMA OpenIs ==
  ASSUME BaseInv, Open
  PROVE  OpenAs(used["streams"] + 1)
<1> DEFINE s == used["streams"] + 1
           h == [pc |-> "register", topics |-> subs, todo |-> subs,
                 from |-> DecodeSSECursor(ResumeCursorHeader), replay |-> {}, chan |-> <<>>]
<1>1. /\ TypeOK /\ subs \subseteq Patterns /\ str \in [Streams -> StrStates]
      /\ cursor \in [Topics -> -1 .. MaxEvents - 1]
      /\ \A r \in Streams : r > used["streams"] => str[r] = Unused
  BY DEF BaseInv, TypeOK, StreamInv, OpenedInv
<1>2. /\ conn = 0 /\ conn' = s /\ ensured' = {} /\ str' = [str EXCEPT ![s] = h]
      /\ Spend("streams", MaxStreams)
      /\ UNCHANGED <<log, pub, subs, route, wire, cursor, buf, got, base, excused>>
  BY DEF Open
<1>3. /\ used' \in [Bounds -> Nat] /\ used'["streams"] = s /\ used'["events"] = used["events"]
      /\ used["streams"] \in Nat /\ used["streams"] < MaxStreams
  BY <1>1, <1>2, SpendIs DEF Bounds
<1>4. s \in Streams
  BY <1>3 DEF Streams
<1>5. DecodeSSECursor(ResumeCursorHeader) = cursor
  BY <1>1 DEF DecodeSSECursor, ResumeCursorHeader
<1>6. cursor \in [Topics -> Int]
  BY <1>1
<1>7. PICK g : g = h
  OBVIOUS
<1>8. /\ g \in Handler /\ g.pc = "register" /\ g.topics = subs /\ g.todo = subs
      /\ g.from = cursor /\ g.replay = {} /\ g.chan = <<>>
  BY <1>1, <1>5, <1>6, <1>7 DEF Handler
<1>9. str' = [str EXCEPT ![s] = g]
  BY <1>2, <1>7
<1> HIDE DEF h, s
<1>10. /\ str' \in [Streams -> StrStates] /\ str'[s] = g /\ OthersStay(s)
  BY <1>1, <1>4, <1>8, <1>9, StrTyped DEF OthersStay
<1>11. str[s] = Unused
  BY <1>1, <1>3, <1>4 DEF s
<1> QED
  BY <1>2, <1>3, <1>4, <1>8, <1>10, <1>11 DEF OpenAs, s
\* A new connection has the next number, and offsets from the cursor.
LEMMA OpenBase ==
  ASSUME BaseInv, Open
  PROVE  BaseInv'
<1>1. PICK s : s = used["streams"] + 1 /\ OpenAs(s)
  BY OpenIs
<1>2. /\ conn = 0 /\ s \in Streams /\ str[s] = Unused /\ conn' = s
      /\ OthersStay(s) /\ str'[s] \in Handler /\ str' \in [Streams -> StrStates]
      /\ str'[s].pc = "register" /\ str'[s].topics = subs /\ str'[s].todo = subs
      /\ str'[s].from = cursor /\ str'[s].replay = {} /\ str'[s].chan = <<>>
      /\ ensured' = {} /\ used' \in [Bounds -> Nat]
      /\ used'["streams"] = s /\ used'["events"] = used["events"]
      /\ UNCHANGED <<log, pub, subs, route, wire, cursor, buf, got, base, excused>>
  BY <1>1 DEF OpenAs
<1> USE DEF BaseInv, StreamInv
<1>3. /\ s \in 1 .. MaxStreams /\ s # 0 /\ used["streams"] \in Nat
  BY <1>2 DEF Streams, TypeOK, Bounds
<1>4. TypeOK'
  <2>1. \A r \in Streams : str'[r].pc # "unused" => Len(str'[r].chan) <= ChanCap
    <3> TAKE r \in Streams
    <3>1. CASE r = s
      BY <1>2, <3>1
    <3>2. CASE r # s
      BY <1>2, <3>2 DEF OthersStay, TypeOK
    <3> QED
      BY <3>1, <3>2
  <2>2. conn' \in 0 .. MaxStreams
    BY <1>2, <1>3
  <2> QED
    BY <1>2, <2>1, <2>2 DEF TypeOK
<1>5. OpenedInv'
  <2>1. s <= MaxStreams
    BY <1>3
  <2>2. \A r \in Streams : r > s => str'[r] = Unused
    <3> TAKE r \in Streams
    <3>1. r > s => r # s /\ r > used["streams"]
      BY <1>1, <1>3 DEF Streams
    <3> QED
      BY <1>2, <3>1 DEF OthersStay, OpenedInv
  <2> QED
    BY <1>2, <2>1, <2>2 DEF OpenedInv
<1>6. wire = <<>>
  BY <1>2 DEF ConnInv
<1>7. ConnInv'
  BY <1>2, <1>3, <1>6 DEF ConnInv, Opened
<1>8. HandlerInv'
  <2> SUFFICES ASSUME NEW r \in Streams
               PROVE  /\ str'[r].pc # "unused" => str'[r].todo \subseteq str'[r].topics
                      /\ str'[r].pc \in {"replay", "live"} => str'[r].todo = {}
                      /\ str'[r].pc = "replay" =>
                           \A t \in str'[r].replay : str'[r].from[t] # -1
                      /\ str'[r].pc = "live" => str'[r].replay = {}
    BY DEF HandlerInv
  <2>1. CASE r = s
    BY <1>2, <2>1
  <2>2. CASE r # s
    BY <1>2, <2>2 DEF OthersStay, HandlerInv
  <2> QED
    BY <2>1, <2>2
<1>9. \A r \in Streams : str[r].pc # "unused" => r # s /\ str'[r] = str[r]
  BY <1>2 DEF OthersStay, Unused
<1>10. RouteInv'
  <2>1. \A r : Opened(r) => Opened(r)' /\ str'[r] = str[r]
    BY <1>9 DEF Opened
  <2>2. \A k \in Patterns : route'[k] # 0 => Opened(route[k])' /\ k \in str'[route'[k]].topics
    <3>1. \A k \in Patterns : route[k] # 0 => Opened(route[k]) /\ k \in str[route[k]].topics
      BY DEF RouteInv
    <3>2. ASSUME NEW k \in Patterns, NEW r, r = route[k], r # 0
          PROVE  Opened(r)' /\ k \in str'[r].topics
      BY <2>1, <3>1, <3>2
    <3> QED
      BY <1>2, <3>2 DEF Opened
  <2>3. ASSUME NEW q \in Publishers, pub'[q].pc = "deliver", NEW d \in pub'[q].to
        PROVE  /\ Opened(d[2])' /\ d[1] \in str'[d[2]].topics
               /\ pub'[q].topic \in Covers[d[1]]
    <3>1. Opened(d[2]) /\ d[1] \in str[d[2]].topics /\ pub[q].topic \in Covers[d[1]]
      BY <1>2, <2>3 DEF RouteInv
    <3> QED
      BY <1>2, <2>1, <3>1
  <2>4. \A r \in Streams : str'[r].pc # "unused" =>
          \A i \in DOMAIN str'[r].chan : Carries(r, str[r].chan[i][1])'
    <3> TAKE r \in Streams
    <3>1. CASE r = s
      BY <1>2, <3>1
    <3>2. CASE r # s
      BY <1>2, <3>2 DEF OthersStay, RouteInv, Carries
    <3> QED
      BY <3>1, <3>2
  <2> QED
    BY <2>2, <2>3, <2>4 DEF RouteInv
<1>11. OffsetInv'
  <2>1. \A r \in Streams : str'[r].pc # "unused" =>
          /\ \A i \in DOMAIN str'[r].chan : str'[r].chan[i][2] < log'[str'[r].chan[i][1]]
          /\ \A t \in Topics : /\ str'[r].from[t] >= -1
                               /\ log'[t] = 0 => str'[r].from[t] = -1
    <3> TAKE r \in Streams
    <3>1. CASE r = s
      <4>1. \A t \in Topics : cursor[t] >= -1 /\ (log[t] = 0 => cursor[t] = -1)
        BY DEF TypeOK, OffsetInv
      <4> QED
        BY <1>2, <3>1, <4>1
    <3>2. CASE r # s
      <4>1. str'[r] = str[r] /\ log' = log
        BY <1>2, <3>2 DEF OthersStay
      <4> QED
        BY <4>1 DEF OffsetInv
    <3> QED
      BY <3>1, <3>2
  <2> QED
    BY <1>2, <2>1 DEF OffsetInv
<1> QED
  BY <1>4, <1>5, <1>7, <1>8, <1>10, <1>11

\* What the loss of the connection adds to the ghost, and nothing else.
LEMMA ExcuseIs ==
  ASSUME TypeOK, NEW c \in Causes, NEW E, E \subseteq Events, Excuse(c, E)
  PROVE  /\ excused' \in [Causes -> SUBSET Events] /\ excused'[c] = excused[c] \cup E
         /\ \A a \in Causes : excused[a] \subseteq excused'[a]
<1>1. excused \in [Causes -> SUBSET Events] /\ excused' = [excused EXCEPT ![c] = @ \cup E]
  BY DEF TypeOK, Excuse
<1>2. PICK X : X = excused[c] \cup E
  OBVIOUS
<1>3. excused' = [excused EXCEPT ![c] = X] /\ X \subseteq Events /\ excused[c] \subseteq X
  BY <1>1, <1>2
<1> QED
  BY <1>1, <1>2, <1>3

\* What a connection leaves that broke or that the scanner gave up.
LEMMA BreakIs ==
  ASSUME BaseInv, Break \/ ScannerError
  PROVE  /\ conn \in Streams /\ str[conn].pc # "unused" /\ conn' = 0 /\ wire' = <<>>
         /\ excused' \in [Causes -> SUBSET Events]
         /\ excused'["fresh"] = excused["fresh"] \cup Unread
         /\ \A c \in Causes : excused[c] \subseteq excused'[c]
         /\ UNCHANGED <<serverVars, ensured, cursor, buf, got, base, used>>
<1>0. Disconnect
  BY DEF Break, ScannerError
<1>1. TypeOK /\ conn \in Streams /\ str[conn].pc # "unused"
  <2>1. conn # 0
    BY DEF BaseInv, StreamInv, ConnInv, Break, ScannerError
  <2> QED
    BY <2>1 DEF BaseInv, StreamInv, ConnInv, Opened
<1>2. Unread \subseteq Events
  BY <1>1, UnreadEvents
<1>3. Excuse("fresh", Unread)
  BY <1>0 DEF Disconnect
<1>4. "fresh" \in Causes
  BY DEF Causes
<1>5. /\ excused' \in [Causes -> SUBSET Events]
      /\ excused'["fresh"] = excused["fresh"] \cup Unread
      /\ \A c \in Causes : excused[c] \subseteq excused'[c]
  BY <1>1, <1>2, <1>3, <1>4, ExcuseIs
<1> QED
  BY <1>0, <1>1, <1>5 DEF Disconnect

\* After a break the client has no connection.
LEMMA BreakBase ==
  ASSUME BaseInv, Break \/ ScannerError
  PROVE  BaseInv'
<1>1. /\ conn' = 0 /\ wire' = <<>> /\ excused' \in [Causes -> SUBSET Events]
      /\ UNCHANGED <<log, pub, subs, route, str, ensured, cursor, buf, got, base, used>>
  BY BreakIs DEF serverVars
<1> USE DEF BaseInv, StreamInv
<1>2. TypeOK'
  BY <1>1 DEF TypeOK
<1>3. OpenedInv' /\ ConnInv' /\ HandlerInv'
  BY <1>1 DEF OpenedInv, ConnInv, HandlerInv, Opened
<1>4. RouteInv'
  BY <1>1 DEF RouteInv, Opened, Carries
<1>5. OffsetInv'
  BY <1>1 DEF OffsetInv
<1> QED
  BY <1>2, <1>3, <1>4, <1>5
\* What a cancelled publish leaves: the event is excused if the client's stream,
\* or that of a topic it cannot resume, was among those not tried yet.
CancelledAs(p) ==
  /\ pub[p].pc = "deliver" /\ pub'[p] = IdlePub /\ pub' \in [Publishers -> PubStates]
  /\ \A q \in Publishers : q # p => pub'[q] = pub[q]
  /\ excused' \in [Causes -> SUBSET Events]
  /\ \A c \in Causes : excused[c] \subseteq excused'[c]
  /\ (\E d \in pub[p].to : Fresh(pub[p].topic) \/ d[2] = conn) =>
       <<pub[p].topic, pub[p].offset>> \in excused'["cancelled"]
  /\ UNCHANGED <<log, subs, route, str, clientVars, used>>

\* That is what the step does.
LEMMA CancelledIs ==
  ASSUME BaseInv, NEW p \in Publishers, PublishCancelled(p)
  PROVE  CancelledAs(p)
<1>1. TypeOK /\ OffsetInv /\ pub \in [Publishers -> PubStates] /\ pub[p].pc = "deliver"
  BY DEF BaseInv, TypeOK, PublishCancelled
<1>2. PICK e : e = <<pub[p].topic, pub[p].offset>>
  OBVIOUS
<1>3. e \in Events /\ e[1] = pub[p].topic
  BY <1>1, <1>2, HeldIsEvent DEF BaseInv
<1>4. PICK E : E = IF \E d \in pub[p].to : Fresh(pub[p].topic) \/ d[2] = conn THEN {e} ELSE {}
  OBVIOUS
<1>5. Excuse("cancelled", E) /\ pub' = [pub EXCEPT ![p] = IdlePub]
      /\ UNCHANGED <<log, subs, route, str, clientVars, used>>
  BY <1>2, <1>3, <1>4 DEF PublishCancelled
<1>6. E \subseteq Events /\ "cancelled" \in Causes
  BY <1>3, <1>4 DEF Causes
<1>7. /\ excused' \in [Causes -> SUBSET Events]
      /\ excused'["cancelled"] = excused["cancelled"] \cup E
      /\ \A c \in Causes : excused[c] \subseteq excused'[c]
  BY <1>1, <1>5, <1>6, ExcuseIs
<1>8. /\ pub'[p] = IdlePub /\ pub' \in [Publishers -> PubStates]
      /\ \A q \in Publishers : q # p => pub'[q] = pub[q]
  BY <1>1, <1>5 DEF PubStates
<1>9. (\E d \in pub[p].to : Fresh(pub[p].topic) \/ d[2] = conn) => e \in excused'["cancelled"]
  BY <1>4, <1>7
<1> QED
  BY <1>1, <1>2, <1>5, <1>7, <1>8, <1>9 DEF CancelledAs

\* A publish is cancelled.
LEMMA PublishCancelledBase ==
  ASSUME BaseInv, NEW p \in Publishers, PublishCancelled(p)
  PROVE  BaseInv'
<1>1. CancelledAs(p)
  BY CancelledIs
<1>2. pub'[p].pc = "idle"
  BY <1>1 DEF CancelledAs, IdlePub
<1> QED
  BY <1>1, <1>2, PubBase DEF CancelledAs

\* Every handler is gone; what it had read stays in its record.
LEMMA RestartIs ==
  ASSUME BaseInv, Restart
  PROVE  /\ conn' = 0 /\ wire' = <<>> /\ subs' = {} /\ pub' = [p \in Publishers |-> IdlePub]
         /\ route' = [k \in Patterns |-> 0]
         /\ str' \in [Streams -> StrStates]
         /\ \A s \in Streams :
              /\ str[s].pc = "unused" => str'[s] = Unused
              /\ str[s].pc # "unused" =>
                   /\ str'[s] \in Handler /\ str'[s].pc = "closing" /\ str'[s].todo = {}
                   /\ str'[s].topics = str[s].topics /\ str'[s].from = str[s].from
                   /\ str'[s].replay = str[s].replay /\ str'[s].chan = str[s].chan
         /\ used' \in [Bounds -> Nat] /\ used'["events"] = used["events"]
         /\ used'["streams"] = used["streams"]
         /\ excused' \in [Causes -> SUBSET Events]
         /\ \A c \in Causes : excused[c] \subseteq excused'[c]
         /\ conn # 0 => Unread \subseteq excused'["fresh"]
         /\ \A p \in Publishers : pub[p].pc # "idle" /\ cursor[pub[p].topic] = -1 =>
              <<pub[p].topic, pub[p].offset>> \in excused'["fresh"]
         /\ UNCHANGED <<log, ensured, cursor, buf, got, base>>
<1>1. TypeOK /\ OffsetInv /\ str \in [Streams -> StrStates]
  BY DEF BaseInv, TypeOK
<1>2. /\ conn' = 0 /\ wire' = <<>> /\ subs' = {} /\ pub' = [p \in Publishers |-> IdlePub]
      /\ route' = [k \in Patterns |-> 0]
      /\ str' = [s \in Streams |-> IF str[s].pc = "unused" THEN Unused
                                   ELSE [str[s] EXCEPT !.pc = "closing", !.todo = {}]]
      /\ Spend("upsets", MaxUpsets)
      /\ UNCHANGED <<log, ensured, cursor, buf, got, base>>
  BY DEF Restart
<1>3. ASSUME NEW s \in Streams
      PROVE  /\ str'[s] \in StrStates
             /\ str[s].pc = "unused" => str'[s] = Unused
             /\ str[s].pc # "unused" =>
                  /\ str'[s] \in Handler /\ str'[s].pc = "closing" /\ str'[s].todo = {}
                  /\ str'[s].topics = str[s].topics /\ str'[s].from = str[s].from
                  /\ str'[s].replay = str[s].replay /\ str'[s].chan = str[s].chan
  <2>1. CASE str[s].pc = "unused"
    BY <1>2, <2>1 DEF StrStates
  <2>2. CASE str[s].pc # "unused"
    <3>1. str[s] \in Handler
      BY <1>1, <2>2, HandlerFields
    <3>2. str'[s] = [str[s] EXCEPT !.pc = "closing", !.todo = {}]
      BY <1>2, <2>2
    <3>3. /\ str'[s] \in Handler /\ str'[s].pc = "closing" /\ str'[s].todo = {}
          /\ str'[s].topics = str[s].topics /\ str'[s].from = str[s].from
          /\ str'[s].replay = str[s].replay /\ str'[s].chan = str[s].chan
      BY <3>1, <3>2 DEF Handler
    <3>4. str'[s] \in StrStates
      BY <3>3 DEF Handler, StrStates
    <3> QED
      BY <2>2, <3>3, <3>4
  <2> QED
    BY <2>1, <2>2
<1>4. str' \in [Streams -> StrStates]
  <2>1. \A s \in Streams : str'[s] \in StrStates
    BY <1>3
  <2>2. str' = [s \in Streams |-> str'[s]]
    BY <1>2
  <2> QED
    BY <2>1, <2>2
<1>5. /\ used' \in [Bounds -> Nat] /\ used'["events"] = used["events"]
      /\ used'["streams"] = used["streams"]
  BY <1>1, <1>2, SpendIs DEF Bounds
<1>6. PICK H : H = {<<pub[p].topic, pub[p].offset>> :
                      p \in {p \in Publishers : pub[p].pc # "idle" /\ cursor[pub[p].topic] = -1}}
  OBVIOUS
<1>7. PICK U : U = IF conn = 0 THEN {} ELSE Unread
  OBVIOUS
<1>8. Excuse("fresh", U \cup H)
  BY <1>6, <1>7 DEF Restart
<1>9. H \subseteq Events
  <2>1. \A p \in Publishers : pub[p].pc # "idle" => <<pub[p].topic, pub[p].offset>> \in Events
    BY <1>1, HeldIsEvent
  <2> QED
    BY <1>6, <2>1
<1>10. U \subseteq Events
  <2>1. conn # 0 => conn \in Streams /\ str[conn].pc # "unused"
    BY DEF BaseInv, StreamInv, ConnInv, Opened
  <2> QED
    BY <1>1, <1>7, <2>1, UnreadEvents
<1>11. /\ excused' \in [Causes -> SUBSET Events]
       /\ excused'["fresh"] = excused["fresh"] \cup (U \cup H)
       /\ \A c \in Causes : excused[c] \subseteq excused'[c]
  <2>1. "fresh" \in Causes /\ U \cup H \subseteq Events
    BY <1>9, <1>10 DEF Causes
  <2>2. PICK E : E = U \cup H
    OBVIOUS
  <2> QED
    BY <1>1, <1>8, <2>1, <2>2, ExcuseIs
<1>12. conn # 0 => Unread \subseteq excused'["fresh"]
  BY <1>7, <1>11
<1>13. \A p \in Publishers : pub[p].pc # "idle" /\ cursor[pub[p].topic] = -1 =>
         <<pub[p].topic, pub[p].offset>> \in excused'["fresh"]
  BY <1>6, <1>11
<1> QED
  BY <1>2, <1>3, <1>4, <1>5, <1>11, <1>12, <1>13

\* A restarted server has its log and nothing else.
LEMMA RestartBase ==
  ASSUME BaseInv, Restart
  PROVE  BaseInv'
<1> USE DEF BaseInv, StreamInv
<1>1. /\ conn' = 0 /\ wire' = <<>> /\ subs' = {} /\ pub' = [p \in Publishers |-> IdlePub]
      /\ route' = [k \in Patterns |-> 0]
      /\ str' \in [Streams -> StrStates]
      /\ used' \in [Bounds -> Nat] /\ used'["events"] = used["events"]
      /\ used'["streams"] = used["streams"] /\ excused' \in [Causes -> SUBSET Events]
      /\ UNCHANGED <<log, ensured, cursor, buf, got, base>>
  BY RestartIs
<1>2. \A s \in Streams :
        /\ str[s].pc = "unused" => str'[s] = Unused
        /\ str[s].pc # "unused" =>
             /\ str'[s].pc = "closing" /\ str'[s].todo = {}
             /\ str'[s].topics = str[s].topics /\ str'[s].from = str[s].from
             /\ str'[s].chan = str[s].chan
  BY RestartIs
<1>3. \A s \in Streams : /\ str'[s].pc # "unused" <=> str[s].pc # "unused"
                         /\ str[s] = Unused => str'[s] = Unused
  BY <1>2 DEF Unused
<1>4. pub' \in [Publishers -> PubStates] /\ \A q \in Publishers : pub'[q].pc = "idle"
  BY <1>1 DEF PubStates, IdlePub
<1>5. TypeOK'
  <2>1. \A s \in Streams : str'[s].pc # "unused" => Len(str'[s].chan) <= ChanCap
    BY <1>2, <1>3 DEF TypeOK
  <2> QED
    BY <1>1, <1>4, <2>1 DEF TypeOK
<1>6. OpenedInv' /\ ConnInv'
  BY <1>1, <1>3 DEF OpenedInv, ConnInv
<1>7. HandlerInv'
  BY <1>2, <1>3 DEF HandlerInv, Unused
<1>8. RouteInv'
  <2>1. \A s \in Streams : str'[s].pc # "unused" =>
          \A i \in DOMAIN str'[s].chan : Carries(s, str[s].chan[i][1])'
    BY <1>2, <1>3 DEF RouteInv, Carries
  <2> QED
    BY <1>1, <1>4, <2>1 DEF RouteInv
<1>9. OffsetInv'
  <2>1. \A s \in Streams : str'[s].pc # "unused" =>
          /\ \A i \in DOMAIN str'[s].chan : str'[s].chan[i][2] < log'[str'[s].chan[i][1]]
          /\ \A t \in Topics : /\ str'[s].from[t] >= -1
                               /\ log'[t] = 0 => str'[s].from[t] = -1
    <3> TAKE s \in Streams
    <3>1. HAVE str'[s].pc # "unused"
    <3>2. str[s].pc # "unused" /\ str'[s].chan = str[s].chan /\ str'[s].from = str[s].from
          /\ log' = log
      BY <1>1, <1>2, <1>3, <3>1
    <3> QED
      BY <3>2 DEF OffsetInv
  <2>2. /\ used'["events"] <= MaxEvents /\ \A t \in Topics : log'[t] <= used'["events"]
        /\ \A t \in Topics : cursor'[t] < log'[t] /\ (base'[t] = -1 <=> cursor'[t] = -1)
        /\ \A i \in DOMAIN wire' : wire'[i][2] < log'[wire'[i][1]]
    BY <1>1 DEF OffsetInv
  <2> QED
    BY <1>4, <2>1, <2>2 DEF OffsetInv
<1> QED
  BY <1>5, <1>6, <1>7, <1>8, <1>9

\* The client reads <<t, o>>, the first event on the wire.
ReadAs(t, o) ==
  /\ wire # <<>> /\ Head(wire) = <<t, o>> /\ t \in Topics /\ o \in Nat /\ o < MaxEvents
  /\ wire' = Tail(wire) /\ o < log[t] /\ conn # 0
  /\ cursor' \in [Topics -> -1 .. MaxEvents - 1] /\ base' \in [Topics -> -1 .. MaxEvents - 1]
  /\ cursor'[t] = IF o > cursor[t] THEN o ELSE cursor[t]
  /\ base'[t] = IF base[t] = -1 THEN o ELSE base[t]
  /\ \A u \in Topics : u # t => cursor'[u] = cursor[u] /\ base'[u] = base[u]
  /\ buf' \in 0 .. BufCap /\ got \subseteq got' /\ got' \subseteq Events
  /\ excused' \in [Causes -> SUBSET Events]
  /\ \A c \in Causes : excused[c] \subseteq excused'[c]
  /\ <<t, o>> \in got' \/ <<t, o>> \in excused'["buffer"]
  /\ UNCHANGED <<serverVars, ensured, conn, used>>

\* What the client does with the next event of the wire.
LEMMA ReadCases ==
  ASSUME BaseInv, ProcessSSEStream
  PROVE  \E t, o : ReadAs(t, o)
<1>1. TypeOK /\ wire \in Seq(Events) /\ wire # <<>> /\ got \subseteq Events /\ buf \in 0 .. BufCap
      /\ cursor \in [Topics -> -1 .. MaxEvents - 1] /\ base \in [Topics -> -1 .. MaxEvents - 1]
      /\ excused \in [Causes -> SUBSET Events]
  BY DEF BaseInv, TypeOK, ProcessSSEStream
<1>2. PICK e : e = Head(wire)
  OBVIOUS
<1>3. e \in Events /\ e = wire[1] /\ 1 \in DOMAIN wire
  BY <1>1, <1>2, Popped
<1>4. PICK t, o : t = e[1] /\ o = e[2]
  OBVIOUS
<1>5. e = <<t, o>> /\ t \in Topics /\ o \in Nat /\ o < MaxEvents
  BY <1>3, <1>4, EventFields
<1>6. o < log[t] /\ conn # 0
  BY <1>1, <1>3, <1>4 DEF BaseInv, StreamInv, OffsetInv, ConnInv
<1>7. /\ wire' = Tail(wire)
      /\ cursor' = [cursor EXCEPT ![t] = IF o > @ THEN o ELSE @]
      /\ base' = [base EXCEPT ![t] = IF @ = -1 THEN o ELSE @]
      /\ IF buf < BufCap
         THEN buf' = buf + 1 /\ got' = got \cup {e} /\ UNCHANGED excused
         ELSE Excuse("buffer", {e}) /\ UNCHANGED <<buf, got>>
      /\ UNCHANGED <<serverVars, ensured, conn, used>>
  BY <1>2, <1>4 DEF ProcessSSEStream, RecordResumeEventID
<1>8. /\ cursor' \in [Topics -> -1 .. MaxEvents - 1] /\ base' \in [Topics -> -1 .. MaxEvents - 1]
      /\ cursor'[t] = IF o > cursor[t] THEN o ELSE cursor[t]
      /\ base'[t] = IF base[t] = -1 THEN o ELSE base[t]
      /\ \A u \in Topics : u # t => cursor'[u] = cursor[u] /\ base'[u] = base[u]
  <2>1. (IF o > cursor[t] THEN o ELSE cursor[t]) \in -1 .. MaxEvents - 1
    BY <1>1, <1>5
  <2>2. (IF base[t] = -1 THEN o ELSE base[t]) \in -1 .. MaxEvents - 1
    BY <1>1, <1>5
  <2> QED
    BY <1>1, <1>5, <1>7, <2>1, <2>2
<1>9. /\ buf' \in 0 .. BufCap /\ got \subseteq got' /\ got' \subseteq Events
      /\ excused' \in [Causes -> SUBSET Events]
      /\ \A c \in Causes : excused[c] \subseteq excused'[c]
      /\ e \in got' \/ e \in excused'["buffer"]
  <2>1. CASE buf < BufCap
    BY <1>1, <1>3, <1>7, <2>1
  <2>2. CASE ~(buf < BufCap)
    <3>1. Excuse("buffer", {e}) /\ {e} \subseteq Events /\ "buffer" \in Causes
      BY <1>3, <1>7, <2>2 DEF Causes
    <3>2. /\ excused' \in [Causes -> SUBSET Events]
          /\ excused'["buffer"] = excused["buffer"] \cup {e}
          /\ \A c \in Causes : excused[c] \subseteq excused'[c]
      BY <1>1, <3>1, ExcuseIs
    <3> QED
      BY <1>1, <1>7, <2>2, <3>2
  <2> QED
    BY <2>1, <2>2
<1>10. ReadAs(t, o)
  BY <1>1, <1>2, <1>5, <1>6, <1>7, <1>8, <1>9 DEF ReadAs
<1> QED
  BY <1>10

\* The cursor moves to an offset of the log.
LEMMA ReadBase ==
  ASSUME BaseInv, ProcessSSEStream
  PROVE  BaseInv'
<1>1. PICK t, o : ReadAs(t, o)
  BY ReadCases
<1> USE DEF BaseInv, StreamInv
<1>2. /\ t \in Topics /\ o \in Nat /\ o < MaxEvents /\ wire' = Tail(wire) /\ wire # <<>>
      /\ o < log[t] /\ conn # 0
      /\ cursor' \in [Topics -> -1 .. MaxEvents - 1] /\ base' \in [Topics -> -1 .. MaxEvents - 1]
      /\ cursor'[t] = IF o > cursor[t] THEN o ELSE cursor[t]
      /\ base'[t] = IF base[t] = -1 THEN o ELSE base[t]
      /\ \A u \in Topics : u # t => cursor'[u] = cursor[u] /\ base'[u] = base[u]
      /\ buf' \in 0 .. BufCap /\ got' \subseteq Events
      /\ excused' \in [Causes -> SUBSET Events]
      /\ UNCHANGED <<log, pub, subs, route, str, ensured, conn, used>>
  BY <1>1 DEF ReadAs, serverVars
<1>3. wire \in Seq(Events) /\ \A i \in DOMAIN wire : wire[i][2] < log[wire[i][1]]
  BY DEF TypeOK, OffsetInv
<1>4. /\ Tail(wire) \in Seq(Events)
      /\ \A i \in DOMAIN Tail(wire) : i + 1 \in DOMAIN wire /\ Tail(wire)[i] = wire[i + 1]
  BY <1>2, <1>3, Popped
<1>5. TypeOK'
  BY <1>2, <1>4 DEF TypeOK
<1>6. OpenedInv' /\ HandlerInv'
  BY <1>2 DEF OpenedInv, HandlerInv
<1>7. ConnInv'
  <2>1. \A u \in Topics : cursor[u] # -1 => cursor'[u] # -1
    BY <1>2 DEF TypeOK
  <2>2. str[conn].pc # "register" /\ Opened(conn) /\ str[conn].pc # "closing"
        /\ \A u \in Topics : str[conn].from[u] # -1 => cursor[u] # -1
    BY <1>2 DEF ConnInv
  <2> QED
    BY <1>2, <2>1, <2>2 DEF ConnInv, Opened
<1>8. RouteInv'
  BY <1>2 DEF RouteInv, Opened, Carries
<1>9. OffsetInv'
  <2>1. \A i \in DOMAIN wire' : wire'[i][2] < log'[wire'[i][1]]
    BY <1>2, <1>3, <1>4
  <2>2. \A u \in Topics : cursor'[u] < log'[u] /\ (base'[u] = -1 <=> cursor'[u] = -1)
    <3> TAKE u \in Topics
    <3>1. cursor[u] < log[u] /\ (base[u] = -1 <=> cursor[u] = -1)
      BY DEF OffsetInv
    <3>2. cursor[u] \in Int /\ cursor[u] >= -1 /\ base[u] \in Int /\ log[u] \in Int
      BY DEF TypeOK
    <3> QED
      BY <1>2, <3>1, <3>2
  <2> QED
    BY <1>2, <2>1, <2>2 DEF OffsetInv
<1> QED
  BY <1>5, <1>6, <1>7, <1>8, <1>9
\* The first state.
LEMMA BaseInit ==
  ASSUME Init
  PROVE  BaseInv
<1> USE DEF BaseInv, StreamInv, Init
<1>1. /\ pub \in [Publishers -> PubStates] /\ \A p \in Publishers : pub[p].pc = "idle"
  BY DEF PubStates, IdlePub
<1>2. str \in [Streams -> StrStates] /\ \A s \in Streams : str[s] = Unused /\ str[s].pc = "unused"
  BY DEF StrStates, Unused
<1>3. used \in [Bounds -> Nat] /\ used["events"] = 0 /\ used["streams"] = 0
  BY DEF Bounds
<1>4. TypeOK
  BY <1>1, <1>2, <1>3 DEF TypeOK
<1>5. OpenedInv /\ ConnInv
  BY <1>2, <1>3 DEF OpenedInv, ConnInv
<1>6. HandlerInv
  BY <1>2 DEF HandlerInv
<1>7. RouteInv
  BY <1>1, <1>2 DEF RouteInv
<1>8. OffsetInv
  BY <1>1, <1>2, <1>3 DEF OffsetInv
<1> QED
  BY <1>4, <1>5, <1>6, <1>7, <1>8

\* BaseInv is inductive by itself.
LEMMA BaseStep ==
  ASSUME BaseInv, [Next]_vars
  PROVE  BaseInv'
<1>1. ASSUME NEW p \in Publishers, PublisherStep(p)
      PROVE  BaseInv'
  BY <1>1, GetSubscribersBase, DeliverBase, PublishReturnBase DEF PublisherStep
<1>2. ASSUME NEW p \in Publishers, PublishCancelled(p) \/ \E t \in Topics : Persist(p, t)
      PROVE  BaseInv'
  BY <1>2, PersistBase, PublishCancelledBase
<1>3. ASSUME NEW s \in Streams, HandlerStep(s)
      PROVE  BaseInv'
  BY <1>3, RegisterBase, PlanBase, EndBase, BatchBase, ReplayDoneBase, TakeBase DEF HandlerStep
<1>4. ASSUME NEW k \in Patterns,
             CreateSubscription(k) \/ EnsureStreamSubscription(k) \/ DeleteSubscription(k)
      PROVE  BaseInv'
  BY <1>4, SubscriptionsBase
<1>5. CASE EnsureFails \/ Open \/ Break \/ Restart \/ ProcessSSEStream \/ ScannerError \/ Consume
  BY <1>5, EnsureFailsBase, OpenBase, BreakBase, RestartBase, ReadBase
<1>6. CASE UNCHANGED vars
  <2>1. UNCHANGED <<log, pub, subs, route, str, ensured, conn, wire, cursor, buf, got, base, excused, used>>
    BY <1>6 DEF vars, serverVars, clientVars
  <2>2. TypeOK' /\ OpenedInv' /\ ConnInv' /\ HandlerInv'
    BY <2>1 DEF BaseInv, StreamInv, TypeOK, OpenedInv, ConnInv, HandlerInv, Opened
  <2>3. RouteInv' /\ OffsetInv'
    BY <2>1 DEF BaseInv, StreamInv, RouteInv, OffsetInv, Opened, Carries
  <2> QED
    BY <2>2, <2>3 DEF BaseInv, StreamInv
<1> QED
  BY <1>1, <1>2, <1>3, <1>4, <1>5, <1>6 DEF Next

-----------------------------------------------------------------------------
(* No gaps: what lies between the cursor and what the client will read next. *)

Grows == got \subseteq got' /\ \A c \in Causes : excused[c] \subseteq excused'[c]

\* What is covered stays covered: got and excused only grow.
LEMMA CoveredStays ==
  ASSUME Grows
  PROVE  \A e : Covered(e) => Covered(e)'
  BY DEF Grows, Covered

\* The steps that leave the cursor and the log alone, and settle no topic.
SameTopics ==
  /\ Grows
  /\ UNCHANGED <<log, conn, cursor>>
  /\ conn # 0 =>
       /\ str'[conn].from = str[conn].from /\ str'[conn].topics = str[conn].topics
       /\ str'[conn].pc # "register" => \A t \in Topics :
            t \notin str'[conn].replay /\ Carries(conn, t) =>
              \/ str[conn].from[t] = -1
              \/ str[conn].pc # "register" /\ t \notin str[conn].replay

\* Those that leave the client's queues alone too.
SameConnection ==
  SameTopics /\ wire' = wire /\ (conn # 0 => str'[conn].chan = str[conn].chan)

\* Then a topic is settled only if it was.
LEMMA SameSettled ==
  ASSUME SameTopics
  PROVE  \A t \in Topics : (Fresh(t)' <=> Fresh(t)) /\ (Settled(t)' => Settled(t))
<1>1. \A t \in Topics : Fresh(t)' <=> Fresh(t)
  BY DEF SameTopics, Fresh
<1>2. \A t \in Topics : conn # 0 => (Carries(conn, t)' <=> Carries(conn, t))
  BY DEF SameTopics, Carries
<1> SUFFICES ASSUME NEW t \in Topics, Settled(t)', ~Fresh(t)
             PROVE  Settled(t)
  BY <1>1 DEF Settled
<1>3. /\ conn # 0 /\ conn' = conn /\ str'[conn].pc # "register" /\ t \notin str'[conn].replay
      /\ Carries(conn, t)
  BY <1>1, <1>2 DEF Settled, SameTopics
<1>4. str[conn].from[t] # -1
  BY <1>3 DEF Fresh
<1>5. str[conn].pc # "register" /\ t \notin str[conn].replay
  BY <1>3, <1>4 DEF SameTopics
<1> QED
  BY <1>3, <1>5 DEF Settled

\* ChanInv, when the channel stays.
LEMMA SameChan ==
  ASSUME ChanInv, conn' = conn, cursor' = cursor, conn # 0 => str'[conn].chan = str[conn].chan,
         \A e : (Covered(e) => Covered(e)') /\ (InWire(e) => InWire(e)'),
         \A t \in Topics : Settled(t)' => Settled(t)
  PROVE  ChanInv'
<1> SUFFICES ASSUME conn' # 0, NEW i \in DOMAIN str'[conn'].chan, NEW t \in Topics,
                    str'[conn'].chan[i][1] = t, Settled(t)',
                    NEW o \in cursor'[t] + 1 .. str'[conn'].chan[i][2] - 1
             PROVE  \/ Covered(<<t, o>>)' \/ InWire(<<t, o>>)'
                    \/ \E j \in 1 .. i - 1 : str'[conn'].chan[j] = <<t, o>>
  BY DEF ChanInv
<1>1. /\ conn # 0 /\ conn' = conn /\ str'[conn].chan = str[conn].chan /\ cursor' = cursor
      /\ Settled(t)
  OBVIOUS
<1>2. /\ i \in DOMAIN str[conn].chan /\ str[conn].chan[i][1] = t
      /\ o \in cursor[t] + 1 .. str[conn].chan[i][2] - 1
  BY <1>1
<1>3. \/ Covered(<<t, o>>) \/ InWire(<<t, o>>)
      \/ \E j \in 1 .. i - 1 : str[conn].chan[j] = <<t, o>>
  BY <1>1, <1>2 DEF ChanInv
<1> QED
  BY <1>1, <1>3

\* GapInv, when the connection, its wire and channel stay and no publisher drops
\* an event that is not covered.
LEMMA SameGaps ==
  ASSUME BaseInv, GapInv, SameConnection,
         \A t \in Topics : Settled(t) => \A o \in Nat :
           InHand(<<t, o>>) => InHand(<<t, o>>)' \/ Covered(<<t, o>>)'
  PROVE  GapInv'
<1>1. \A e : Covered(e) => Covered(e)'
  BY CoveredStays DEF SameConnection, SameTopics
<1>2. \A e : (InWire(e)' <=> InWire(e)) /\ (InChan(e)' <=> InChan(e))
  BY DEF SameConnection, SameTopics, InWire, InChan
<1>3. \A t \in Topics : Settled(t)' => Settled(t)
  BY SameSettled DEF SameConnection
<1>4. WireInv'
  BY <1>1 DEF WireInv, GapInv, SameConnection, SameTopics
<1>5. ReplayInv'
  BY <1>1, <1>2 DEF ReplayInv, GapInv, SameConnection, SameTopics
<1>6. ChanInv'
  BY <1>1, <1>2, <1>3, SameChan DEF GapInv, SameConnection, SameTopics
<1>7. HandInv'
  <2> SUFFICES ASSUME NEW t \in Topics, Settled(t)', NEW o \in cursor'[t] + 1 .. log'[t] - 1
               PROVE  Covered(<<t, o>>)' \/ InWire(<<t, o>>)' \/ InChan(<<t, o>>)' \/ InHand(<<t, o>>)'
    BY DEF HandInv
  <2>1. o \in cursor[t] + 1 .. log[t] - 1 /\ Settled(t)
    BY <1>3 DEF SameConnection, SameTopics
  <2>2. Covered(<<t, o>>) \/ InWire(<<t, o>>) \/ InChan(<<t, o>>) \/ InHand(<<t, o>>)
    BY <2>1 DEF HandInv, GapInv
  <2>3. o \in Nat
    <3>1. cursor[t] \in Int /\ cursor[t] >= -1 /\ log[t] \in Int
      BY DEF BaseInv, TypeOK
    <3> QED
      BY <2>1, <3>1
  <2> QED
    BY <1>1, <1>2, <2>1, <2>2, <2>3
<1> QED
  BY <1>4, <1>5, <1>6, <1>7 DEF GapInv
\* A publisher that does not move keeps what it holds.
LEMMA HandStays ==
  ASSUME SameTopics, NEW q \in Publishers, pub'[q] = pub[q], NEW t \in Topics, NEW o
  PROVE  Holds(q, <<t, o>>) => Holds(q, <<t, o>>)'
<1>1. conn' = conn /\ (Fresh(t)' <=> Fresh(t))
  BY SameSettled DEF SameTopics
<1>2. <<t, o>>[1] = t
  OBVIOUS
<1> QED
  BY <1>1, <1>2 DEF Holds

\* What the publisher's step needs when it leaves the client's connection alone.
LEMMA PublisherGaps ==
  ASSUME BaseInv, GapInv, SameConnection, NEW p \in Publishers,
         \A q \in Publishers : q # p => pub'[q] = pub[q],
         \A t \in Topics : Settled(t) => \A o \in Nat :
           Holds(p, <<t, o>>) => Holds(p, <<t, o>>)' \/ Covered(<<t, o>>)'
  PROVE  GapInv'
<1>1. ASSUME NEW t \in Topics, Settled(t), NEW o \in Nat, InHand(<<t, o>>)
      PROVE  InHand(<<t, o>>)' \/ Covered(<<t, o>>)'
  <2>1. PICK q \in Publishers : Holds(q, <<t, o>>)
    BY <1>1 DEF InHand
  <2>2. CASE q = p
    BY <1>1, <2>1, <2>2 DEF InHand
  <2>3. CASE q # p
    <3>1. Holds(q, <<t, o>>)'
      BY <2>1, <2>3, HandStays DEF SameConnection
    <3> QED
      BY <3>1 DEF InHand
  <2> QED
    BY <2>2, <2>3
<1> QED
  BY <1>1, SameGaps

\* A settled topic that is not fresh is one the client's handler has registered.
LEMMA SettledAttached ==
  ASSUME BaseInv, NEW t \in Topics, Settled(t), ~Fresh(t)
  PROVE  Attached(t)
<1>1. conn # 0 /\ str[conn].pc # "register" /\ Carries(conn, t)
  BY DEF Settled
<1>2. conn \in Streams /\ str[conn].pc # "unused" /\ str[conn].pc # "closing"
  BY <1>1 DEF BaseInv, StreamInv, ConnInv, Opened
<1>3. str[conn].pc \in {"replay", "live"}
  BY <1>1, <1>2, OpenHandler DEF Handler
<1>4. str[conn].todo = {}
  BY <1>2, <1>3, OpenHandler
<1> QED
  BY <1>1, <1>3, <1>4 DEF Attached, Carries

\* Of a settled topic, an event whose lookup did not find the client's stream is
\* excused.
LEMMA GetSubscribersGaps ==
  ASSUME BaseInv, GapInv, NEW p \in Publishers, GetSubscribers(p)
  PROVE  GapInv'
<1> DEFINE u == pub[p].topic
           e == <<u, pub[p].offset>>
           found == {k \in Patterns : u \in Covers[k] /\ route[k] # 0}
           routed == conn \in {route[k] : k \in found}
<1>1. /\ pub[p].pc = "persisted" /\ pub \in [Publishers -> PubStates]
      /\ excused \in [Causes -> SUBSET Events] /\ u \in Topics
  BY PubFields DEF GetSubscribers, BaseInv, TypeOK
<1>2. /\ pub'[p].pc = "deliver" /\ pub'[p].topic = u /\ pub'[p].offset = pub[p].offset
      /\ pub'[p].to = {<<k, route[k]>> : k \in found}
      /\ \A q \in Publishers : q # p => pub'[q] = pub[q]
  BY <1>1 DEF GetSubscribers
<1>3. /\ Attached(u) /\ ~routed => e \in excused'["unrouted"]
      /\ Fresh(u) /\ ~routed => e \in excused'["fresh"]
      /\ \A c \in Causes : excused[c] \subseteq excused'[c]
  <2>1. PICK U, V : /\ U = (IF Attached(u) /\ ~routed THEN excused["unrouted"] \cup {e}
                                                      ELSE excused["unrouted"])
                    /\ V = (IF Fresh(u) /\ ~routed THEN excused["fresh"] \cup {e}
                                                   ELSE excused["fresh"])
    OBVIOUS
  <2>2. excused' = [excused EXCEPT !["unrouted"] = U, !["fresh"] = V]
    BY <2>1 DEF GetSubscribers
  <2>3. /\ excused'["unrouted"] = U /\ excused'["fresh"] = V
        /\ \A c \in Causes : c \notin {"unrouted", "fresh"} => excused'[c] = excused[c]
    BY <1>1, <2>2 DEF Causes
  <2> HIDE DEF e, routed
  <2>4. excused["unrouted"] \subseteq U /\ excused["fresh"] \subseteq V
    BY <2>1
  <2>5. /\ Attached(u) /\ ~routed => e \in U
        /\ Fresh(u) /\ ~routed => e \in V
    BY <2>1
  <2> QED
    BY <2>3, <2>4, <2>5
<1>4. UNCHANGED <<log, str, conn, wire, cursor, got>>
  BY DEF GetSubscribers, clientVars
<1>5. SameConnection
  BY <1>3, <1>4 DEF SameConnection, SameTopics, Grows
<1>6. ASSUME NEW t \in Topics, Settled(t), NEW o \in Nat, Holds(p, <<t, o>>)
      PROVE  Holds(p, <<t, o>>)' \/ Covered(<<t, o>>)'
  <2>1. t = u /\ o = pub[p].offset
    BY <1>6 DEF Holds
  <2>2. CASE routed
    <3>1. PICK k \in found : conn = route[k]
      BY <2>2
    <3>2. <<k, route[k]>> \in pub'[p].to /\ <<k, route[k]>>[2] = conn'
      BY <1>2, <1>4, <3>1
    <3>3. \E d \in pub'[p].to : d[2] = conn'
      BY <3>2
    <3> QED
      BY <1>2, <2>1, <3>3 DEF Holds
  <2>3. CASE ~routed
    <3>1. Attached(u) \/ Fresh(u)
      BY <1>6, <2>1, SettledAttached
    <3>2. e \in excused'["unrouted"] \/ e \in excused'["fresh"]
      BY <1>3, <2>3, <3>1
    <3>3. "unrouted" \in Causes /\ "fresh" \in Causes
      BY DEF Causes
    <3>4. e = <<t, o>>
      BY <2>1
    <3> QED
      BY <3>2, <3>3, <3>4 DEF Covered
  <2> QED
    BY <2>2, <2>3
<1> QED
  BY <1>2, <1>5, <1>6, PublisherGaps

\* A publisher returns when it has delivered to everyone it found.
LEMMA PublishReturnGaps ==
  ASSUME BaseInv, GapInv, NEW p \in Publishers, PublishReturn(p)
  PROVE  GapInv'
<1>1. /\ pub[p].pc = "deliver" /\ pub[p].to = {} /\ pub \in [Publishers -> PubStates]
      /\ \A q \in Publishers : q # p => pub'[q] = pub[q]
      /\ UNCHANGED <<log, str, conn, wire, cursor, got, excused>>
  BY DEF PublishReturn, BaseInv, TypeOK, clientVars
<1>2. SameConnection
  BY <1>1 DEF SameConnection, SameTopics, Grows
<1>3. \A e : ~Holds(p, e)
  BY <1>1 DEF Holds
<1> QED
  BY <1>1, <1>2, <1>3, PublisherGaps
\* A publish that is cancelled lets go of an event it has excused, or that was
\* not on its way to the client any more.
LEMMA PublishCancelledGaps ==
  ASSUME BaseInv, GapInv, NEW p \in Publishers, PublishCancelled(p)
  PROVE  GapInv' /\ Grows /\ cursor' = cursor /\ base' = base
<1>1. /\ pub[p].pc = "deliver"
      /\ \A q \in Publishers : q # p => pub'[q] = pub[q]
      /\ \A c \in Causes : excused[c] \subseteq excused'[c]
      /\ (\E d \in pub[p].to : Fresh(pub[p].topic) \/ d[2] = conn) =>
           <<pub[p].topic, pub[p].offset>> \in excused'["cancelled"]
      /\ UNCHANGED <<log, str, conn, wire, cursor, base, got>>
  BY CancelledIs DEF CancelledAs, clientVars
<1>2. SameConnection /\ Grows
  BY <1>1 DEF SameConnection, SameTopics, Grows
<1>3. ASSUME NEW t \in Topics, NEW o \in Nat, Holds(p, <<t, o>>)
      PROVE  Covered(<<t, o>>)'
  <2>1. t = pub[p].topic /\ o = pub[p].offset
    BY <1>3 DEF Holds
  <2>2. <<t, o>>[1] = t
    OBVIOUS
  <2>3. \E d \in pub[p].to : Fresh(t) \/ d[2] = conn
    BY <1>1, <1>3, <2>2 DEF Holds
  <2>4. <<t, o>> \in excused'["cancelled"]
    BY <1>1, <2>1, <2>3
  <2> QED
    BY <2>4 DEF Covered, Causes
<1>4. GapInv'
  BY <1>1, <1>2, <1>3, PublisherGaps
<1> QED
  BY <1>1, <1>2, <1>4
\* The client's wire and channel, as sequences.
LEMMA ConnSeqs ==
  ASSUME BaseInv
  PROVE  /\ wire \in Seq(Events) /\ DOMAIN wire = 1 .. Len(wire) /\ Len(wire) \in Nat
         /\ conn # 0 => /\ conn \in Streams /\ str[conn].pc # "unused"
                        /\ str[conn].chan \in Seq(Events) /\ Len(str[conn].chan) \in Nat
                        /\ DOMAIN str[conn].chan = 1 .. Len(str[conn].chan)
<1>1. wire \in Seq(Events)
  BY DEF BaseInv, TypeOK
<1>2. conn # 0 => conn \in Streams /\ str[conn].pc # "unused"
  BY DEF BaseInv, StreamInv, ConnInv, Opened
<1>3. conn # 0 => str[conn].chan \in Seq(Events)
  BY <1>2, OpenHandler
<1> QED
  BY <1>1, <1>2, <1>3

\* WireInv, when the wire and the cursor stay.
LEMMA SameWire ==
  ASSUME WireInv, Grows, wire' = wire, cursor' = cursor
  PROVE  WireInv'
<1>1. \A e : Covered(e) => Covered(e)'
  BY CoveredStays
<1> QED
  BY <1>1 DEF WireInv

\* An event goes into the channel the client's connection reads.
LEMMA QueuedGaps ==
  ASSUME BaseInv, GapInv, NEW p \in Publishers, NEW d \in pub[p].to, DeliverTo(p, d),
         d[2] = conn, Len(str[conn].chan) < ChanCap
  PROVE  GapInv'
<1> DEFINE e == <<pub[p].topic, pub[p].offset>>
           chan == str[conn].chan
<1>1. /\ conn \in Streams /\ conn # 0 /\ e \in Events /\ pub[p].pc = "deliver"
      /\ \A q \in Publishers : q # p => pub'[q] = pub[q]
      /\ str'[conn].pc = str[conn].pc /\ str'[conn].topics = str[conn].topics
      /\ str'[conn].from = str[conn].from /\ str'[conn].replay = str[conn].replay
      /\ str'[conn].chan = Append(chan, e)
  <2>1. pub[p].pc = "deliver"
    BY DEF DeliverTo
  <2>2. /\ conn \in Streams /\ e \in Events
        /\ \A q \in Publishers : q # p => pub'[q] = pub[q]
        /\ str'[conn].pc = str[conn].pc /\ str'[conn].topics = str[conn].topics
        /\ str'[conn].from = str[conn].from /\ str'[conn].replay = str[conn].replay
        /\ IF Len(str[conn].chan) < ChanCap THEN str'[conn].chan = Append(str[conn].chan, e)
                                            ELSE str'[conn].chan = str[conn].chan
    BY DeliverToIs
  <2>3. str'[conn].chan = Append(chan, e)
    BY <2>2
  <2>4. conn # 0
    BY <2>2 DEF Streams
  <2> QED
    BY <2>1, <2>2, <2>3, <2>4
<1>2. /\ UNCHANGED <<log, conn, wire, cursor, got>> /\ \A c \in Causes : excused[c] \subseteq excused'[c]
      /\ Overtaken(p) \subseteq excused'["overtaken"]
  BY DEF DeliverTo, clientVars
<1>3. SameTopics
  BY <1>1, <1>2 DEF SameTopics, Grows
<1>4. \A t \in Topics : (Fresh(t)' <=> Fresh(t)) /\ (Settled(t)' => Settled(t))
  BY <1>3, SameSettled
<1>5. \A f : Covered(f) => Covered(f)'
  BY <1>3, CoveredStays DEF SameTopics
<1>6. \A f : InWire(f)' <=> InWire(f)
  BY <1>2 DEF InWire
<1>7. chan \in Seq(Events) /\ Len(chan) \in Nat /\ DOMAIN chan = 1 .. Len(chan)
  BY <1>1, ConnSeqs
<1>8. PICK new : new = str'[conn].chan
  OBVIOUS
<1>9. /\ DOMAIN new = 1 .. Len(chan) + 1 /\ new[Len(chan) + 1] = e
      /\ \A i \in DOMAIN chan : i \in DOMAIN new /\ new[i] = chan[i]
      /\ \A i \in DOMAIN new : i \notin DOMAIN chan => i = Len(chan) + 1
  <2>1. new = Append(chan, e)
    BY <1>1, <1>8
  <2> HIDE DEF e, chan
  <2> QED
    BY <1>1, <1>7, <2>1, Appended
<1>10. WireInv'
  BY <1>2, <1>3, SameWire DEF GapInv, SameTopics
<1>11. ReplayInv'
  BY <1>1, <1>2, <1>5, <1>6 DEF ReplayInv, GapInv
<1>12. ChanInv'
  <2>a. conn' = conn /\ cursor' = cursor /\ str'[conn'].chan = new
    BY <1>2, <1>8
  <2> SUFFICES ASSUME conn' # 0, NEW i \in DOMAIN str'[conn'].chan, NEW t \in Topics,
                      str'[conn'].chan[i][1] = t, Settled(t)',
                      NEW o \in cursor'[t] + 1 .. str'[conn'].chan[i][2] - 1
               PROVE  \/ Covered(<<t, o>>)' \/ InWire(<<t, o>>)'
                      \/ \E j \in 1 .. i - 1 : str'[conn'].chan[j] = <<t, o>>
    BY DEF ChanInv
  <2>b. i \in DOMAIN new /\ new[i][1] = t /\ o \in cursor[t] + 1 .. new[i][2] - 1
    BY <2>a
  <2> SUFFICES \/ Covered(<<t, o>>)' \/ InWire(<<t, o>>)'
               \/ \E j \in 1 .. i - 1 : new[j] = <<t, o>>
    BY <2>a
  <2>1. Settled(t)
    BY <1>4
  <2>2. CASE i \in DOMAIN chan
    <3>1. new[i] = chan[i]
      BY <1>9, <2>2
    <3>2. \/ Covered(<<t, o>>) \/ InWire(<<t, o>>)
          \/ \E j \in 1 .. i - 1 : chan[j] = <<t, o>>
      BY <1>1, <2>1, <2>2, <2>b, <3>1 DEF ChanInv, GapInv
    <3>3. 1 .. i - 1 \subseteq DOMAIN chan
      <4>1. DOMAIN chan = 1 .. Len(chan) /\ Len(chan) \in Nat
        BY <1>7
      <4> HIDE DEF chan
      <4> QED
        BY <2>2, <4>1
    <3>4. \A j \in 1 .. i - 1 : new[j] = chan[j]
      BY <1>9, <3>3
    <3> QED
      BY <1>5, <1>6, <3>2, <3>4
  <2>3. CASE i \notin DOMAIN chan
    <3>1. i = Len(chan) + 1 /\ new[i] = e
      BY <1>9, <2>3, <2>b
    <3>2. t = pub[p].topic /\ pub[p].offset \in Nat /\ pub[p].offset < log[t]
      BY <1>1, <2>b, <3>1, PubFields DEF BaseInv, OffsetInv
    <3>3. o \in cursor[t] + 1 .. pub[p].offset - 1
      BY <2>b, <3>1
    <3>4. cursor[t] \in Int /\ log[t] \in Int
      BY DEF BaseInv, TypeOK
    <3>5. o \in cursor[t] + 1 .. log[t] - 1 /\ o < pub[p].offset
      BY <3>2, <3>3, <3>4
    <3>6. Covered(<<t, o>>) \/ InWire(<<t, o>>) \/ InChan(<<t, o>>) \/ InHand(<<t, o>>)
      BY <2>1, <3>5 DEF HandInv, GapInv
    <3>7. InChan(<<t, o>>) => \E j \in 1 .. i - 1 : new[j] = <<t, o>>
      <4>1. HAVE InChan(<<t, o>>)
      <4>2. PICK j \in DOMAIN chan : chan[j] = <<t, o>>
        BY <4>1 DEF InChan
      <4>3. j \in 1 .. i - 1 /\ new[j] = <<t, o>>
        BY <1>7, <1>9, <3>1, <4>2
      <4> QED
        BY <4>3
    <3>8. InHand(<<t, o>>) => Covered(<<t, o>>)'
      <4>1. HAVE InHand(<<t, o>>)
      <4>2. PICK q \in Publishers : Holds(q, <<t, o>>)
        BY <4>1 DEF InHand
      <4>3. pub[q].pc # "idle" /\ pub[q].topic = t /\ pub[q].offset = o
        BY <4>2 DEF Holds
      <4>4. q # p
        BY <3>2, <3>5, <4>3
      <4>5. <<t, o>> \in Overtaken(p)
        BY <3>2, <3>5, <4>3, <4>4 DEF Overtaken
      <4>6. "overtaken" \in Causes
        BY DEF Causes
      <4> QED
        BY <1>2, <4>5, <4>6 DEF Covered
    <3> QED
      BY <1>5, <1>6, <3>6, <3>7, <3>8
  <2> QED
    BY <2>2, <2>3
<1>13. HandInv'
  <2> SUFFICES ASSUME NEW t \in Topics, Settled(t)', NEW o \in cursor[t] + 1 .. log[t] - 1
               PROVE  Covered(<<t, o>>)' \/ InWire(<<t, o>>)' \/ InChan(<<t, o>>)' \/ InHand(<<t, o>>)'
    BY <1>2 DEF HandInv
  <2>1. Covered(<<t, o>>) \/ InWire(<<t, o>>) \/ InChan(<<t, o>>) \/ InHand(<<t, o>>)
    BY <1>4 DEF HandInv, GapInv
  <2>2. InChan(<<t, o>>) => InChan(<<t, o>>)'
    BY <1>1, <1>2, <1>8, <1>9 DEF InChan
  <2>3. InHand(<<t, o>>) => InChan(<<t, o>>)' \/ InHand(<<t, o>>)'
    <3>1. HAVE InHand(<<t, o>>)
    <3>2. PICK q \in Publishers : Holds(q, <<t, o>>)
      BY <3>1 DEF InHand
    <3>3. CASE q = p
      <4>1. <<t, o>> = e
        BY <3>2, <3>3 DEF Holds
      <4>2. Len(chan) + 1 \in DOMAIN new
        BY <1>7, <1>9
      <4> QED
        <5>1. conn' # 0 /\ str'[conn'].chan = new
          BY <1>1, <1>2, <1>8
        <5>2. \E i \in DOMAIN new : new[i] = <<t, o>>
          BY <1>9, <4>1, <4>2
        <5> QED
          BY <5>1, <5>2 DEF InChan
    <3>4. CASE q # p
      BY <1>1, <1>3, <3>2, <3>4, HandStays DEF InHand
    <3> QED
      BY <3>3, <3>4
  <2> QED
    BY <1>5, <1>6, <2>1, <2>2, <2>3
<1> QED
  BY <1>10, <1>11, <1>12, <1>13 DEF GapInv

\* A delivered event is in the channel, after what was there, or excused.
LEMMA DeliverGaps ==
  ASSUME BaseInv, GapInv, NEW p \in Publishers, DeliverEvent(p)
  PROVE  GapInv'
<1>1. PICK d \in pub[p].to : DeliverTo(p, d)
  BY DeliverCases
<1> DEFINE s == d[2]
           e == <<pub[p].topic, pub[p].offset>>
           room == Len(str[s].chan) < ChanCap
<1>2. CASE s = conn /\ room
  BY <1>1, <1>2, QueuedGaps
<1>3. CASE ~(s = conn /\ room)
  <2>1. /\ OthersStay(s) /\ s \in Streams
        /\ str'[s].pc = str[s].pc /\ str'[s].topics = str[s].topics
        /\ str'[s].from = str[s].from /\ str'[s].replay = str[s].replay
        /\ ~room => str'[s].chan = str[s].chan
        /\ \A q \in Publishers : q # p => pub'[q] = pub[q]
        /\ pub'[p].pc = "deliver" /\ pub'[p].topic = pub[p].topic
        /\ pub'[p].offset = pub[p].offset /\ pub'[p].to = pub[p].to \ {d}
    BY <1>1, DeliverToIs
  <2>2. /\ UNCHANGED <<log, conn, wire, cursor, got>>
        /\ \A c \in Causes : excused[c] \subseteq excused'[c]
        /\ ~room => e \in excused'["full"] \cup excused'["catchup"]
        /\ s # conn /\ Fresh(e[1]) => e \in excused'["fresh"]
        /\ pub[p].pc = "deliver"
    BY <1>1 DEF DeliverTo, clientVars
  <2>3. conn # 0 => conn \in Streams
    BY ConnSeqs
  <2>4. SameConnection
    <3>1. conn # 0 =>
            /\ str'[conn].from = str[conn].from /\ str'[conn].topics = str[conn].topics
            /\ str'[conn].pc = str[conn].pc /\ str'[conn].replay = str[conn].replay
            /\ str'[conn].chan = str[conn].chan
      <4>1. CASE conn = s
        BY <1>3, <2>1, <4>1
      <4>2. CASE conn # s
        BY <2>1, <2>3, <4>2 DEF OthersStay
      <4> QED
        BY <4>1, <4>2
    <3> QED
      BY <2>2, <3>1 DEF SameConnection, SameTopics, Grows
  <2>5. \A t \in Topics : Fresh(t)' <=> Fresh(t)
    BY <2>4, SameSettled DEF SameConnection
  <2>6. ASSUME NEW t \in Topics, Settled(t), NEW o \in Nat, Holds(p, <<t, o>>)
        PROVE  Holds(p, <<t, o>>)' \/ Covered(<<t, o>>)'
    <3>1. e = <<t, o>> /\ t = e[1]
      BY <2>6 DEF Holds
    <3>2. PICK c \in pub[p].to : Fresh(t) \/ c[2] = conn
      BY <2>2, <2>6, <3>1 DEF Holds
    <3>3. CASE c # d
      <4>1. c \in pub'[p].to /\ (Fresh(t)' \/ c[2] = conn')
        BY <2>1, <2>2, <2>5, <3>2, <3>3
      <4> QED
        BY <2>1, <3>1, <4>1 DEF Holds
    <3>4. CASE c = d
      <4>1. \/ e \in excused'["full"] \cup excused'["catchup"]
            \/ e \in excused'["fresh"]
        BY <1>3, <2>2, <3>1, <3>2, <3>4
      <4>2. {"full", "catchup", "fresh"} \subseteq Causes
        BY DEF Causes
      <4> QED
        BY <3>1, <4>1, <4>2 DEF Covered
    <3> QED
      BY <3>3, <3>4
  <2> QED
    BY <2>1, <2>4, <2>6, PublisherGaps
<1> QED
  BY <1>2, <1>3
\* The steps of neither a publisher nor the client's connection.
LEMMA QuietGaps ==
  ASSUME BaseInv, GapInv, SameConnection, pub' = pub
  PROVE  GapInv'
<1>1. ASSUME NEW t \in Topics, NEW o \in Nat, InHand(<<t, o>>)
      PROVE  InHand(<<t, o>>)'
  BY <1>1, HandStays DEF InHand, SameConnection
<1> QED
  BY <1>1, SameGaps

\* A step of the handler of another connection.
LEMMA ElsewhereGaps ==
  ASSUME BaseInv, GapInv, NEW s \in Streams, OthersStay(s), conn # s, Grows,
         UNCHANGED <<log, pub, conn, wire, cursor>>
  PROVE  GapInv'
<1>1. conn # 0 => conn \in Streams
  BY ConnSeqs
<1>2. conn # 0 => str'[conn] = str[conn]
  BY <1>1 DEF OthersStay
<1>3. SameConnection
  BY <1>2 DEF SameConnection, SameTopics
<1> QED
  BY <1>3, QuietGaps

\* Registering and unregistering change the entry, not what is under way.
LEMMA RegisterGaps ==
  ASSUME BaseInv, GapInv, NEW s \in Streams, NEW k \in Patterns,
         Register(s, k) \/ Unregister(s, k)
  PROVE  GapInv'
<1>1. /\ str[s].pc # "unused" /\ str' = [str EXCEPT ![s].todo = @ \ {k}] /\ TypeOK
      /\ UNCHANGED <<log, pub, conn, wire, cursor, got, excused>>
  BY DEF Register, Unregister, BaseInv, clientVars
<1>2. /\ OthersStay(s)
      /\ str'[s].pc = str[s].pc /\ str'[s].topics = str[s].topics
      /\ str'[s].from = str[s].from
      /\ str'[s].replay = str[s].replay /\ str'[s].chan = str[s].chan
  BY <1>1, TodoIs
<1>3. Grows
  BY <1>1 DEF Grows
<1>4. CASE conn = s
  <2>1. SameConnection
    BY <1>1, <1>2, <1>3, <1>4 DEF SameConnection, SameTopics
  <2> QED
    BY <1>1, <2>1, QuietGaps
<1>5. CASE conn # s
  BY <1>1, <1>2, <1>3, <1>5, ElsewhereGaps
<1> QED
  BY <1>4, <1>5

\* What the plan does not replay and the handler carries has no offset.
LEMMA PlanGaps ==
  ASSUME BaseInv, GapInv, NEW s \in Streams, ValidateSSEReplayPlan(s)
  PROVE  GapInv'
<1>1. /\ str[s].pc = "register" /\ str[s].pc # "unused" /\ TypeOK
      /\ str' = [str EXCEPT ![s].pc = "replay", ![s].replay = Replayable(s)]
      /\ UNCHANGED <<log, pub, conn, wire, cursor, got, excused>>
  BY DEF ValidateSSEReplayPlan, BaseInv, clientVars
<1>2. Replayable(s) \in SUBSET Topics
  BY DEF Replayable
<1>3. /\ OthersStay(s) /\ str'[s].topics = str[s].topics
      /\ str'[s].from = str[s].from
      /\ str'[s].replay = Replayable(s) /\ str'[s].chan = str[s].chan
  BY <1>1, <1>2, PlanIs
<1>4. Grows
  BY <1>1 DEF Grows
<1>5. CASE conn = s
  <2>1. \A t \in Topics : t \notin Replayable(s) /\ Carries(s, t) => str[s].from[t] = -1
    BY DEF Replayable, Carries
  <2>2. SameTopics
    BY <1>1, <1>3, <1>4, <1>5, <2>1 DEF SameTopics
  <2>3. SameConnection
    BY <1>1, <1>3, <1>5, <2>2 DEF SameConnection
  <2> QED
    BY <1>1, <2>3, QuietGaps
<1>6. CASE conn # s
  BY <1>1, <1>3, <1>4, <1>6, ElsewhereGaps
<1> QED
  BY <1>5, <1>6

\* Going live settles no topic: the last batch has.
LEMMA ReplayDoneGaps ==
  ASSUME BaseInv, GapInv, NEW s \in Streams, ReplayDone(s)
  PROVE  GapInv'
<1>1. /\ str[s].pc = "replay" /\ str[s].pc # "unused" /\ TypeOK
      /\ str' = [str EXCEPT ![s].pc = "live"]
      /\ UNCHANGED <<log, pub, conn, wire, cursor, got, excused>>
  BY DEF ReplayDone, BaseInv, clientVars
<1>2. /\ OthersStay(s) /\ str'[s].topics = str[s].topics
      /\ str'[s].from = str[s].from
      /\ str'[s].replay = str[s].replay /\ str'[s].chan = str[s].chan
  BY <1>1, LiveIs
<1>3. Grows
  BY <1>1 DEF Grows
<1>4. CASE conn = s
  <2>1. SameConnection
    BY <1>1, <1>2, <1>3, <1>4 DEF SameConnection, SameTopics
  <2> QED
    BY <1>1, <2>1, QuietGaps
<1>5. CASE conn # s
  BY <1>1, <1>2, <1>3, <1>5, ElsewhereGaps
<1> QED
  BY <1>4, <1>5

\* The client is without a connection: what it had queued of a topic it has no
\* offset for is excused, and the rest will be replayed.
LEMMA DropGaps ==
  ASSUME BaseInv, GapInv, Grows, conn' = 0, wire' = <<>>, cursor' = cursor, log' = log,
         conn # 0 => Unread \subseteq excused'["fresh"],
         \A p \in Publishers :
           \/ pub'[p] = pub[p]
           \/ pub[p].pc # "idle" /\ cursor[pub[p].topic] = -1 =>
                <<pub[p].topic, pub[p].offset>> \in excused'["fresh"]
  PROVE  GapInv'
<1>1. \A e : Covered(e) => Covered(e)'
  BY CoveredStays
<1>2. WireInv' /\ ReplayInv' /\ ChanInv'
  BY DEF WireInv, ReplayInv, ChanInv
<1>3. HandInv'
  <2> SUFFICES ASSUME NEW t \in Topics, Settled(t)', NEW o \in cursor'[t] + 1 .. log'[t] - 1
               PROVE  Covered(<<t, o>>)' \/ InHand(<<t, o>>)'
    BY DEF HandInv
  <2>1. cursor[t] = -1 /\ Fresh(t) /\ Fresh(t)'
    BY DEF Settled, Fresh
  <2>2. Settled(t)
    BY <2>1 DEF Settled
  <2>3. Covered(<<t, o>>) \/ InWire(<<t, o>>) \/ InChan(<<t, o>>) \/ InHand(<<t, o>>)
    BY <2>2 DEF HandInv, GapInv
  <2>4. "fresh" \in Causes
    BY DEF Causes
  <2>5. InWire(<<t, o>>) \/ InChan(<<t, o>>) => <<t, o>> \in excused'["fresh"]
    <3>1. HAVE InWire(<<t, o>>) \/ InChan(<<t, o>>)
    <3>2. conn # 0
      BY <3>1 DEF InWire, InChan, BaseInv, StreamInv, ConnInv
    <3>3. <<t, o>> \in Unread
      BY <2>1, <3>1, <3>2 DEF InWire, InChan, Unread
    <3> QED
      BY <3>2, <3>3
  <2>6. InHand(<<t, o>>) => InHand(<<t, o>>)' \/ <<t, o>> \in excused'["fresh"]
    <3>1. HAVE InHand(<<t, o>>)
    <3>2. PICK p \in Publishers : Holds(p, <<t, o>>)
      BY <3>1 DEF InHand
    <3>3. pub[p].pc # "idle" /\ pub[p].topic = t /\ pub[p].offset = o
      BY <3>2 DEF Holds
    <3>4. CASE pub'[p] = pub[p]
      <4>1. Holds(p, <<t, o>>)'
        BY <2>1, <3>2, <3>4 DEF Holds
      <4> QED
        BY <4>1 DEF InHand
    <3>5. CASE pub'[p] # pub[p]
      BY <2>1, <3>3, <3>5
    <3> QED
      BY <3>4, <3>5
  <2> QED
    BY <1>1, <2>3, <2>4, <2>5, <2>6 DEF Covered
<1> QED
  BY <1>2, <1>3 DEF GapInv

\* A break, by DropGaps.
LEMMA BreakGaps ==
  ASSUME BaseInv, GapInv, Break \/ ScannerError
  PROVE  GapInv'
<1>1. /\ conn' = 0 /\ wire' = <<>> /\ excused'["fresh"] = excused["fresh"] \cup Unread
      /\ \A c \in Causes : excused[c] \subseteq excused'[c]
      /\ UNCHANGED <<log, pub, cursor, got>>
  BY BreakIs DEF serverVars
<1> QED
  BY <1>1, DropGaps DEF Grows

\* A restart, by DropGaps: the publishers' hands are emptied as well.
LEMMA RestartGaps ==
  ASSUME BaseInv, GapInv, Restart
  PROVE  GapInv'
<1>1. /\ conn' = 0 /\ wire' = <<>> /\ (conn # 0 => Unread \subseteq excused'["fresh"])
      /\ \A c \in Causes : excused[c] \subseteq excused'[c]
      /\ \A p \in Publishers : pub[p].pc # "idle" /\ cursor[pub[p].topic] = -1 =>
           <<pub[p].topic, pub[p].offset>> \in excused'["fresh"]
      /\ UNCHANGED <<log, cursor, got>>
  BY RestartIs
<1> QED
  BY <1>1, DropGaps DEF Grows

\* A refused replay drops the client's connection, by DropGaps; a handler the
\* client has left has nothing for it.
LEMMA EndGaps ==
  ASSUME BaseInv, GapInv, NEW s \in Streams, RefuseReplay(s) \/ HandlerReturn(s)
  PROVE  GapInv'
<1>1. /\ str[s].pc # "unused" /\ TypeOK
      /\ str' = [str EXCEPT ![s].pc = "closing", ![s].todo = str[s].topics]
      /\ UNCHANGED <<log, pub, wire, cursor, got>>
  BY DEF RefuseReplay, HandlerReturn, EndedWith, BaseInv, clientVars
<1>2. OthersStay(s)
  BY <1>1, EndIs
<1>3. CASE RefuseReplay(s) /\ conn = s
  <2>1. /\ conn' = 0 /\ Excuse("fresh", Unread) /\ str[conn].pc = "register"
    BY <1>3 DEF RefuseReplay
  <2>2. wire = <<>> /\ Unread \subseteq Events /\ "fresh" \in Causes
    <3>1. conn # 0
      BY <1>3 DEF Streams
    <3> QED
      BY <1>1, <1>3, <2>1, <3>1, UnreadEvents DEF BaseInv, StreamInv, ConnInv, Causes
  <2>3. /\ excused'["fresh"] = excused["fresh"] \cup Unread
        /\ \A c \in Causes : excused[c] \subseteq excused'[c]
    BY <1>1, <2>1, <2>2, ExcuseIs
  <2> QED
    BY <1>1, <2>1, <2>2, <2>3, DropGaps DEF Grows
<1>4. CASE conn # s
  <2>1. conn' = conn /\ excused' = excused
    BY <1>4 DEF RefuseReplay, HandlerReturn, clientVars
  <2>2. Grows
    BY <1>1, <2>1 DEF Grows
  <2> QED
    BY <1>1, <1>2, <1>4, <2>1, <2>2, ElsewhereGaps
<1>5. HandlerReturn(s) => conn # s
  BY DEF HandlerReturn
<1> QED
  BY <1>3, <1>4, <1>5

\* Requests that change entries only.
LEMMA RequestGaps ==
  ASSUME BaseInv, GapInv,
         UNCHANGED <<log, pub, str, conn, wire, cursor, got, excused>>
  PROVE  GapInv'
<1>1. SameConnection
  BY DEF SameConnection, SameTopics, Grows
<1> QED
  BY <1>1, QuietGaps

\* The new connection starts where the cursor stands.
LEMMA OpenGaps ==
  ASSUME BaseInv, GapInv, Open
  PROVE  GapInv'
<1>1. PICK s : OpenAs(s)
  BY OpenIs
<1>2. /\ conn = 0 /\ conn' = s /\ s \in Streams /\ s # 0
      /\ str'[s].pc = "register" /\ str'[s].from = cursor /\ str'[s].chan = <<>>
      /\ UNCHANGED <<log, pub, wire, cursor, got, excused>>
  BY <1>1 DEF OpenAs, Streams
<1>3. wire = <<>>
  BY <1>2 DEF BaseInv, StreamInv, ConnInv
<1>4. Grows
  BY <1>2 DEF Grows
<1>5. \A e : Covered(e) => Covered(e)'
  BY <1>4, CoveredStays
<1>6. WireInv' /\ ChanInv'
  BY <1>2, <1>3 DEF WireInv, ChanInv
<1>7. ReplayInv'
  <2>1. \A t \in Topics : cursor[t] \in Int
    BY DEF BaseInv, TypeOK
  <2> QED
    BY <1>2, <2>1 DEF ReplayInv
<1>8. HandInv'
  <2> SUFFICES ASSUME NEW t \in Topics, Settled(t)', NEW o \in cursor'[t] + 1 .. log'[t] - 1
               PROVE  Covered(<<t, o>>)' \/ InHand(<<t, o>>)'
    BY DEF HandInv
  <2>1. Fresh(t)' /\ Fresh(t)
    BY <1>2 DEF Settled, Fresh
  <2>2. Covered(<<t, o>>) \/ InWire(<<t, o>>) \/ InChan(<<t, o>>) \/ InHand(<<t, o>>)
    BY <1>2, <2>1 DEF HandInv, GapInv, Settled
  <2>3. ~InWire(<<t, o>>) /\ ~InChan(<<t, o>>)
    BY <1>2, <1>3 DEF InWire, InChan
  <2>4. InHand(<<t, o>>) => InHand(<<t, o>>)'
    BY <1>2, <2>1 DEF InHand, Holds
  <2> QED
    BY <1>5, <2>2, <2>3, <2>4
<1> QED
  BY <1>6, <1>7, <1>8 DEF GapInv

\* An appended event is in its publisher's hand.
LEMMA PersistGaps ==
  ASSUME BaseInv, GapInv, NEW p \in Publishers, NEW u \in Topics, Persist(p, u)
  PROVE  GapInv'
<1>1. /\ pub[p].pc = "idle" /\ pub \in [Publishers -> PubStates]
      /\ log \in [Topics -> 0 .. MaxEvents]
      /\ log' = [log EXCEPT ![u] = @ + 1]
      /\ pub' = [pub EXCEPT ![p] = [pc |-> "persisted", topic |-> u, offset |-> log[u]]]
      /\ UNCHANGED <<str, conn, wire, cursor, got, excused>>
  BY DEF Persist, BaseInv, TypeOK, clientVars
<1>2. /\ \A q \in Publishers : q # p => pub'[q] = pub[q]
      /\ pub'[p].pc = "persisted" /\ pub'[p].topic = u /\ pub'[p].offset = log[u]
      /\ log'[u] = log[u] + 1 /\ \A t \in Topics : t # u => log'[t] = log[t]
  BY <1>1
<1>3. \A e : (Covered(e)' <=> Covered(e)) /\ (InWire(e)' <=> InWire(e)) /\ (InChan(e)' <=> InChan(e))
  BY <1>1 DEF Covered, InWire, InChan
<1>4. \A t \in Topics : (Fresh(t)' <=> Fresh(t)) /\ (Settled(t)' <=> Settled(t))
  BY <1>1 DEF Fresh, Settled, Carries
<1>5. WireInv'
  BY <1>1, SameWire DEF GapInv, Grows
<1>6. ReplayInv'
  BY <1>1, <1>3 DEF ReplayInv, GapInv
<1>7. ChanInv'
  BY <1>1, <1>3, <1>4, SameChan DEF GapInv
<1>8. HandInv'
  <2> SUFFICES ASSUME NEW t \in Topics, Settled(t)', NEW o \in cursor'[t] + 1 .. log'[t] - 1
               PROVE  Covered(<<t, o>>)' \/ InWire(<<t, o>>)' \/ InChan(<<t, o>>)' \/ InHand(<<t, o>>)'
    BY DEF HandInv
  <2>1. cursor[t] \in Int /\ log[t] \in Int /\ cursor'[t] = cursor[t]
    BY <1>1 DEF BaseInv, TypeOK
  <2>2. CASE o \in cursor[t] + 1 .. log[t] - 1
    <3>1. Covered(<<t, o>>) \/ InWire(<<t, o>>) \/ InChan(<<t, o>>) \/ InHand(<<t, o>>)
      BY <1>4, <2>2 DEF HandInv, GapInv
    <3>2. InHand(<<t, o>>) => InHand(<<t, o>>)'
      <4>1. HAVE InHand(<<t, o>>)
      <4>2. PICK q \in Publishers : Holds(q, <<t, o>>)
        BY <4>1 DEF InHand
      <4>3. q # p /\ pub'[q] = pub[q]
        BY <1>1, <1>2, <4>2 DEF Holds
      <4>4. Holds(q, <<t, o>>)'
        <5>1. <<t, o>>[1] = t
          OBVIOUS
        <5> QED
          BY <1>1, <1>4, <4>2, <4>3, <5>1 DEF Holds
      <4> QED
        BY <4>4 DEF InHand
    <3> QED
      BY <1>3, <3>1, <3>2
  <2>3. CASE t = u /\ o = log[u]
    <3>1. Holds(p, <<t, o>>)'
      BY <1>2, <2>3 DEF Holds
    <3> QED
      BY <3>1 DEF InHand
  <2>4. o \in cursor[t] + 1 .. log[t] - 1 \/ (t = u /\ o = log[u])
    BY <1>2, <2>1
  <2> QED
    BY <2>2, <2>3, <2>4
<1> QED
  BY <1>5, <1>6, <1>7, <1>8 DEF GapInv

\* The head of the live handler's channel: what precedes it is covered or on
\* the wire, so it may be written.
LEMMA TakeGaps ==
  ASSUME BaseInv, GapInv, NEW s \in Streams, StreamLive(s)
  PROVE  GapInv'
<1>1. TakeOf(s)
  BY TakeCases
<1>2. /\ str[s].pc = "live" /\ str[s].chan # <<>> /\ str[s].pc # "unused"
      /\ OthersStay(s) /\ str'[s].pc = str[s].pc /\ str'[s].topics = str[s].topics
      /\ str'[s].from = str[s].from /\ str'[s].replay = str[s].replay
      /\ str'[s].chan = Tail(str[s].chan)
      /\ UNCHANGED <<log, pub, conn, cursor, got, excused>>
      /\ wire' = IF conn = s THEN wire \o <<Head(str[s].chan)>> ELSE wire
  BY <1>1 DEF TakeOf
<1>3. Grows
  BY <1>2 DEF Grows
<1>4. CASE conn # s
  BY <1>2, <1>3, <1>4, ElsewhereGaps
<1>5. CASE conn = s
  <2>1. SameTopics /\ conn # 0
    BY <1>2, <1>3, <1>5 DEF SameTopics, Streams
  <2>2. \A t \in Topics : (Fresh(t)' <=> Fresh(t)) /\ (Settled(t)' => Settled(t))
    BY <2>1, SameSettled
  <2>3. \A e : Covered(e) => Covered(e)'
    BY <1>3, CoveredStays
  <2>4. PICK v, w : v = str[conn].chan /\ w = Tail(str[conn].chan)
    OBVIOUS
  <2>5. v \in Seq(Events) /\ v # <<>> /\ wire \in Seq(Events) /\ DOMAIN wire = 1 .. Len(wire)
        /\ Len(wire) \in Nat
    BY <1>2, <1>5, <2>1, <2>4, ConnSeqs
  <2>6. /\ Head(v) = v[1] /\ 1 \in DOMAIN v /\ Head(v) \in Events
        /\ Len(v) \in Nat /\ DOMAIN v = 1 .. Len(v) /\ DOMAIN w = 1 .. Len(v) - 1
        /\ \A i \in DOMAIN w : i + 1 \in DOMAIN v /\ w[i] = v[i + 1]
    BY <2>4, <2>5, Popped
  <2>7. PICK n : n = Len(wire) + 1
    OBVIOUS
  <2>8. PICK x : x = wire \o <<v[1]>>
    OBVIOUS
  <2>9. /\ wire' = x /\ DOMAIN x = 1 .. n /\ x[n] = v[1] /\ n \in DOMAIN x
        /\ \A i \in DOMAIN wire : i \in DOMAIN x /\ x[i] = wire[i]
        /\ \A i \in DOMAIN x : i \notin DOMAIN wire => i = n
    <3>1. wire' = x
      BY <1>2, <1>5, <2>4, <2>6, <2>8
    <3>2. x = Append(wire, v[1])
      BY <2>5, <2>6, <2>8
    <3> QED
      BY <2>5, <2>6, <2>7, <3>1, <3>2, Appended
  <2>10. conn' = conn /\ cursor' = cursor /\ log' = log /\ str'[conn'].chan = w
    BY <1>2, <1>5, <2>4
  <2>11. \A e : InWire(e) => InWire(e)'
    BY <2>9 DEF InWire
  <2>12. \A e : e = v[1] => InWire(e)'
    BY <2>9 DEF InWire
  <2>13. WireInv'
    <3> SUFFICES ASSUME NEW i \in DOMAIN wire', NEW t \in Topics, wire'[i][1] = t,
                        NEW o \in cursor'[t] + 1 .. wire'[i][2] - 1
                 PROVE  Covered(<<t, o>>)' \/ \E j \in 1 .. i - 1 : wire'[j] = <<t, o>>
      BY DEF WireInv
    <3>1. CASE i \in DOMAIN wire
      <4>1. wire'[i] = wire[i] /\ \A j \in 1 .. i - 1 : wire'[j] = wire[j]
        BY <2>5, <2>9, <3>1
      <4>2. Covered(<<t, o>>) \/ \E j \in 1 .. i - 1 : wire[j] = <<t, o>>
        BY <2>10, <3>1, <4>1 DEF WireInv, GapInv
      <4> QED
        BY <2>3, <4>1, <4>2
    <3>2. CASE i \notin DOMAIN wire
      <4>1. i = n /\ wire'[i] = v[1]
        BY <2>9, <3>2
      <4>2. Settled(t)
        <5>1. /\ str[conn].replay = {} /\ Carries(conn, str[conn].chan[1][1])
          BY <1>2, <1>5, <2>4, <2>6, OpenHandler
        <5> QED
          BY <1>2, <1>5, <2>1, <2>4, <4>1, <5>1 DEF Settled
      <4>3. \/ Covered(<<t, o>>) \/ InWire(<<t, o>>)
            \/ \E j \in 1 .. 1 - 1 : str[conn].chan[j] = <<t, o>>
        BY <2>1, <2>4, <2>6, <2>10, <4>1, <4>2 DEF ChanInv, GapInv
      <4>4. Covered(<<t, o>>) \/ InWire(<<t, o>>)
        BY <4>3
      <4>5. InWire(<<t, o>>) => \E j \in 1 .. i - 1 : wire'[j] = <<t, o>>
        BY <2>5, <2>7, <2>9, <4>1 DEF InWire
      <4> QED
        BY <2>3, <4>4, <4>5
    <3> QED
      BY <3>1, <3>2
  <2>14. ReplayInv'
    BY <1>2, <1>5, <2>1, <2>3, <2>10, <2>11 DEF ReplayInv, GapInv
  <2>15. ChanInv'
    <3> SUFFICES ASSUME conn' # 0, NEW i \in DOMAIN str'[conn'].chan, NEW t \in Topics,
                        str'[conn'].chan[i][1] = t, Settled(t)',
                        NEW o \in cursor'[t] + 1 .. str'[conn'].chan[i][2] - 1
                 PROVE  \/ Covered(<<t, o>>)' \/ InWire(<<t, o>>)'
                        \/ \E j \in 1 .. i - 1 : str'[conn'].chan[j] = <<t, o>>
      BY DEF ChanInv
    <3>1. /\ i \in DOMAIN w /\ w[i][1] = t /\ o \in cursor[t] + 1 .. w[i][2] - 1 /\ Settled(t)
      BY <2>2, <2>10
    <3>2. /\ i + 1 \in DOMAIN str[conn].chan /\ str[conn].chan[i + 1] = w[i]
      BY <2>4, <2>6, <3>1
    <3>3. \/ Covered(<<t, o>>) \/ InWire(<<t, o>>)
          \/ \E j \in 1 .. (i + 1) - 1 : str[conn].chan[j] = <<t, o>>
      BY <2>1, <3>1, <3>2 DEF ChanInv, GapInv
    <3>4. ASSUME NEW j \in 1 .. (i + 1) - 1, v[j] = <<t, o>>
          PROVE  InWire(<<t, o>>)' \/ \E m \in 1 .. i - 1 : w[m] = <<t, o>>
      <4>1. CASE j = 1
        BY <2>12, <3>4, <4>1
      <4>2. CASE j # 1
        <5>1. j - 1 \in 1 .. i - 1 /\ j - 1 \in DOMAIN w /\ (j - 1) + 1 = j
          BY <2>6, <3>1, <4>2
        <5>2. w[j - 1] = <<t, o>>
          BY <2>6, <3>4, <5>1
        <5> QED
          BY <5>1, <5>2
      <4> QED
        BY <4>1, <4>2
    <3>5. (\E j \in 1 .. (i + 1) - 1 : v[j] = <<t, o>>) =>
            InWire(<<t, o>>)' \/ \E m \in 1 .. i - 1 : w[m] = <<t, o>>
      BY <3>4
    <3> QED
      BY <2>3, <2>4, <2>10, <2>11, <3>3, <3>5
  <2>16. HandInv'
    <3> SUFFICES ASSUME NEW t \in Topics, Settled(t)', NEW o \in cursor'[t] + 1 .. log'[t] - 1
                 PROVE  Covered(<<t, o>>)' \/ InWire(<<t, o>>)' \/ InChan(<<t, o>>)' \/ InHand(<<t, o>>)'
      BY DEF HandInv
    <3>1. Covered(<<t, o>>) \/ InWire(<<t, o>>) \/ InChan(<<t, o>>) \/ InHand(<<t, o>>)
      BY <2>2, <2>10 DEF HandInv, GapInv
    <3>2. InHand(<<t, o>>) => InHand(<<t, o>>)'
      BY <1>2, <2>1, HandStays DEF InHand
    <3>3. InChan(<<t, o>>) => InChan(<<t, o>>)' \/ InWire(<<t, o>>)'
      <4>1. HAVE InChan(<<t, o>>)
      <4>2. PICK j \in DOMAIN v : v[j] = <<t, o>>
        BY <2>4, <4>1 DEF InChan
      <4>3. CASE j = 1
        BY <2>12, <4>2, <4>3
      <4>4. CASE j # 1
        <5>1. j - 1 \in DOMAIN w /\ (j - 1) + 1 = j
          BY <2>6, <4>2, <4>4
        <5>2. w[j - 1] = <<t, o>>
          BY <2>6, <4>2, <5>1
        <5> QED
          BY <2>1, <2>10, <5>1, <5>2 DEF InChan
      <4> QED
        BY <4>3, <4>4
    <3> QED
      BY <2>3, <2>11, <3>1, <3>2, <3>3
  <2> QED
    BY <2>13, <2>14, <2>15, <2>16 DEF GapInv
<1> QED
  BY <1>4, <1>5
\* A batch goes to the wire; when it is the topic's last, the replay has reached
\* the end of the log, and the topic is settled.
LEMMA BatchGaps ==
  ASSUME BaseInv, GapInv, NEW s \in Streams, NEW u \in Topics, ReplayBatch(s, u)
  PROVE  GapInv'
<1>0. PICK n \in Nat : \E b : BatchOf(s, u, n, b)
  BY BatchCases
<1>1. PICK b : BatchOf(s, u, n, b)
  BY <1>0
<1>2. /\ str[s].pc = "replay" /\ u \in str[s].replay /\ str[s].pc # "unused"
      /\ b \in Seq(Events) /\ Len(b) = n
      /\ \A i \in 1 .. n : b[i] = <<u, str[s].from[u] + i>>
      /\ wire' = IF conn = s THEN wire \o b ELSE wire
      /\ OthersStay(s) /\ str'[s].pc = str[s].pc /\ str'[s].topics = str[s].topics
      /\ str'[s].chan = str[s].chan
      /\ str'[s].from[u] = str[s].from[u] + n
      /\ \A t \in Topics : t # u => str'[s].from[t] = str[s].from[t]
      /\ \A t \in str[s].replay : t # u => t \in str'[s].replay
      /\ u \notin str'[s].replay => log[u] <= str'[s].from[u] + 1
      /\ UNCHANGED <<log, pub, conn, cursor, got, excused>>
  BY <1>1 DEF BatchOf
<1>3. Grows
  BY <1>2 DEF Grows
<1>4. CASE conn # s
  BY <1>2, <1>3, <1>4, ElsewhereGaps
<1>5. CASE conn = s
  <2>1. /\ conn # 0 /\ conn' = conn /\ cursor' = cursor /\ log' = log
        /\ str[conn].pc # "register" /\ str'[conn].pc # "register"
    BY <1>2, <1>5 DEF Streams
  <2>2. PICK f : f = str[conn].from[u]
    OBVIOUS
  <2>3. /\ f \in Nat /\ cursor[u] # -1 /\ str'[conn].from[u] = f + n
        /\ str'[conn].from[u] # -1 /\ str[conn].from[u] # -1
    <3>1. f \in Int /\ f >= -1 /\ f # -1
      BY <1>2, <1>5, <2>2, OpenHandler
    <3>2. cursor[u] # -1
      BY <2>1, <2>2, <3>1 DEF BaseInv, StreamInv, ConnInv
    <3> QED
      BY <1>2, <1>5, <2>2, <3>1, <3>2
  <2>4. \A e : Covered(e) => Covered(e)'
    BY <1>3, CoveredStays
  <2>5. \A t \in Topics : cursor[t] \in Int /\ cursor[t] >= -1 /\ log[t] \in Int
    BY DEF BaseInv, TypeOK
  <2>6. \A t \in Topics : Fresh(t)' <=> Fresh(t)
    BY <1>2, <1>5, <2>1, <2>3 DEF Fresh
  <2>7. \A t \in Topics : t # u /\ Settled(t)' => Settled(t)
    BY <1>2, <1>5, <2>1, <2>6 DEF Settled, Carries
  <2>8. Settled(u)' => log[u] <= f + n + 1
    <3>1. ~Fresh(u)
      BY <2>1, <2>3 DEF Fresh
    <3> QED
      BY <1>2, <1>5, <2>1, <2>3, <2>6, <3>1 DEF Settled
  <2>9. wire \in Seq(Events) /\ DOMAIN wire = 1 .. Len(wire) /\ Len(wire) \in Nat
    BY ConnSeqs
  <2>10. PICK x : x = wire \o b
    OBVIOUS
  <2>11. /\ wire' = x
         /\ \A i \in DOMAIN wire : i \in DOMAIN x /\ x[i] = wire[i]
         /\ \A i \in DOMAIN x : i \notin DOMAIN wire =>
              i - Len(wire) \in 1 .. n /\ x[i] = <<u, f + (i - Len(wire))>>
         /\ \A i \in 1 .. n : Len(wire) + i \in DOMAIN x /\ x[Len(wire) + i] = <<u, f + i>>
         /\ DOMAIN x = 1 .. Len(wire) + n
    <3>1. wire' = x
      BY <1>2, <1>5, <2>10
    <3>2. DOMAIN b = 1 .. n /\ \A i \in 1 .. n : b[i] = <<u, f + i>>
      BY <1>2, <1>5, <2>2
    <3>3. /\ \A i \in DOMAIN wire : i \in DOMAIN x /\ x[i] = wire[i]
          /\ \A i \in DOMAIN x : i \notin DOMAIN wire =>
               i - Len(wire) \in DOMAIN b /\ x[i] = b[i - Len(wire)]
          /\ \A i \in DOMAIN b : Len(wire) + i \in DOMAIN x /\ x[Len(wire) + i] = b[i]
          /\ DOMAIN x = 1 .. Len(wire) + Len(b)
      <4>1. /\ \A i \in DOMAIN wire : i \in DOMAIN (wire \o b) /\ (wire \o b)[i] = wire[i]
            /\ \A i \in DOMAIN (wire \o b) : i \notin DOMAIN wire =>
                 i - Len(wire) \in DOMAIN b /\ (wire \o b)[i] = b[i - Len(wire)]
            /\ \A i \in DOMAIN b : /\ Len(wire) + i \in DOMAIN (wire \o b)
                                  /\ (wire \o b)[Len(wire) + i] = b[i]
            /\ DOMAIN (wire \o b) = 1 .. Len(wire) + Len(b)
        BY <1>2, <2>9, Catenated, Zenon
      <4> QED
        BY <2>10, <4>1, Zenon
    <3> QED
      BY <1>2, <3>1, <3>2, <3>3
  <2>12. \A e : InWire(e) => InWire(e)'
    BY <2>11 DEF InWire
  <2>13. \A o \in cursor[u] + 1 .. f : Covered(<<u, o>>) \/ InWire(<<u, o>>)
    BY <2>1, <2>2, <2>3 DEF ReplayInv, GapInv
  <2>14. ASSUME NEW o \in cursor[u] + 1 .. f + n
         PROVE  Covered(<<u, o>>)' \/ InWire(<<u, o>>)'
    <3>1. o \in Int /\ o >= cursor[u] + 1 /\ o <= f + n
      BY <2>3, <2>5
    <3>2. CASE o <= f
      <4>1. o \in cursor[u] + 1 .. f
        BY <2>3, <2>5, <3>1, <3>2
      <4> QED
        BY <2>4, <2>12, <2>13, <4>1
    <3>3. CASE o > f
      <4>1. o - f \in 1 .. n /\ f + (o - f) = o
        BY <2>3, <3>1, <3>3
      <4>2. Len(wire) + (o - f) \in DOMAIN wire' /\ wire'[Len(wire) + (o - f)] = <<u, o>>
        BY <2>11, <4>1
      <4> QED
        BY <4>2 DEF InWire
    <3> QED
      BY <2>3, <3>1, <3>2, <3>3
  <2>15. WireInv'
    <3> SUFFICES ASSUME NEW i \in DOMAIN wire', NEW t \in Topics, wire'[i][1] = t,
                        NEW o \in cursor'[t] + 1 .. wire'[i][2] - 1
                 PROVE  Covered(<<t, o>>)' \/ \E j \in 1 .. i - 1 : wire'[j] = <<t, o>>
      BY DEF WireInv
    <3>1. CASE i \in DOMAIN wire
      <4>1. wire'[i] = wire[i] /\ \A j \in 1 .. i - 1 : wire'[j] = wire[j]
        BY <2>9, <2>11, <3>1
      <4>2. Covered(<<t, o>>) \/ \E j \in 1 .. i - 1 : wire[j] = <<t, o>>
        BY <2>1, <3>1, <4>1 DEF WireInv, GapInv
      <4> QED
        BY <2>4, <4>1, <4>2
    <3>2. CASE i \notin DOMAIN wire
      <4>1. PICK m : m = i - Len(wire)
        OBVIOUS
      <4>2. m \in 1 .. n /\ wire'[i] = <<u, f + m>> /\ i = Len(wire) + m
        BY <2>9, <2>11, <3>2, <4>1
      <4>3. t = u /\ o \in cursor[u] + 1 .. (f + m) - 1
        BY <2>1, <4>2
      <4>4. o \in Int /\ o >= cursor[u] + 1 /\ o < f + m
        BY <2>3, <2>5, <4>2, <4>3
      <4>5. CASE o <= f
        <5>1. o \in cursor[u] + 1 .. f
          BY <2>3, <2>5, <4>4, <4>5
        <5>2. Covered(<<u, o>>) \/ InWire(<<u, o>>)
          BY <2>13, <5>1
        <5>3. InWire(<<u, o>>) => \E j \in 1 .. i - 1 : wire'[j] = <<u, o>>
          BY <2>9, <2>11, <4>2 DEF InWire
        <5> QED
          BY <2>4, <4>3, <5>2, <5>3
      <4>6. CASE o > f
        <5>1. o - f \in 1 .. n /\ f + (o - f) = o /\ o - f < m
          BY <2>3, <4>2, <4>4, <4>6
        <5>2. Len(wire) + (o - f) \in 1 .. i - 1 /\ wire'[Len(wire) + (o - f)] = <<u, o>>
          BY <2>9, <2>11, <4>2, <5>1
        <5> QED
          BY <4>3, <5>2
      <4> QED
        BY <2>3, <4>4, <4>5, <4>6
    <3> QED
      BY <3>1, <3>2
  <2>16. ReplayInv'
    <3> SUFFICES ASSUME NEW t \in Topics, str'[conn'].from[t] # -1,
                        NEW o \in cursor'[t] + 1 .. str'[conn'].from[t]
                 PROVE  Covered(<<t, o>>)' \/ InWire(<<t, o>>)'
      BY DEF ReplayInv
    <3>1. CASE t = u
      BY <2>1, <2>3, <2>14, <3>1
    <3>2. CASE t # u
      <4>1. str'[conn'].from[t] = str[conn].from[t]
        BY <1>2, <1>5, <2>1, <3>2
      <4>2. Covered(<<t, o>>) \/ InWire(<<t, o>>)
        BY <2>1, <4>1 DEF ReplayInv, GapInv
      <4> QED
        BY <2>4, <2>12, <4>2
    <3> QED
      BY <3>1, <3>2
  <2>17. ChanInv'
    <3> SUFFICES ASSUME conn' # 0, NEW i \in DOMAIN str'[conn'].chan, NEW t \in Topics,
                        str'[conn'].chan[i][1] = t, Settled(t)',
                        NEW o \in cursor'[t] + 1 .. str'[conn'].chan[i][2] - 1
                 PROVE  \/ Covered(<<t, o>>)' \/ InWire(<<t, o>>)'
                        \/ \E j \in 1 .. i - 1 : str'[conn'].chan[j] = <<t, o>>
      BY DEF ChanInv
    <3>1. /\ str'[conn'].chan = str[conn].chan
          /\ i \in DOMAIN str[conn].chan /\ str[conn].chan[i][1] = t
          /\ o \in cursor[t] + 1 .. str[conn].chan[i][2] - 1
      BY <1>2, <1>5, <2>1
    <3>2. CASE t = u
      <4>1. str[conn].chan[i][2] \in Nat /\ str[conn].chan[i][2] < log[t]
        BY <1>2, <1>5, <2>1, <3>1, SeqEvents, OpenHandler DEF BaseInv
      <4>2. log[u] <= f + n + 1
        BY <2>8, <3>2
      <4>3. o \in cursor[u] + 1 .. f + n
        BY <2>3, <2>5, <3>1, <3>2, <4>1, <4>2
      <4> QED
        BY <2>14, <3>2, <4>3
    <3>3. CASE t # u
      <4>1. Settled(t)
        BY <2>7, <3>3
      <4>2. \/ Covered(<<t, o>>) \/ InWire(<<t, o>>)
            \/ \E j \in 1 .. i - 1 : str[conn].chan[j] = <<t, o>>
        BY <2>1, <3>1, <4>1 DEF ChanInv, GapInv
      <4> QED
        BY <2>4, <2>12, <3>1, <4>2
    <3> QED
      BY <3>2, <3>3
  <2>18. HandInv'
    <3> SUFFICES ASSUME NEW t \in Topics, Settled(t)', NEW o \in cursor'[t] + 1 .. log'[t] - 1
                 PROVE  Covered(<<t, o>>)' \/ InWire(<<t, o>>)' \/ InChan(<<t, o>>)' \/ InHand(<<t, o>>)'
      BY DEF HandInv
    <3>1. CASE t = u
      <4>1. log[u] <= f + n + 1
        BY <2>8, <3>1
      <4>2. o \in cursor[u] + 1 .. f + n
        BY <2>1, <2>3, <2>5, <3>1, <4>1
      <4> QED
        BY <2>14, <3>1, <4>2
    <3>2. CASE t # u
      <4>1. Covered(<<t, o>>) \/ InWire(<<t, o>>) \/ InChan(<<t, o>>) \/ InHand(<<t, o>>)
        BY <2>1, <2>7, <3>2 DEF HandInv, GapInv
      <4>2. InChan(<<t, o>>) => InChan(<<t, o>>)'
        BY <1>2, <1>5, <2>1 DEF InChan
      <4>3. InHand(<<t, o>>) => InHand(<<t, o>>)'
        <5>1. <<t, o>>[1] = t
          OBVIOUS
        <5> QED
          BY <1>2, <2>6, <5>1 DEF InHand, Holds
      <4> QED
        BY <2>4, <2>12, <4>1, <4>2, <4>3
    <3> QED
      BY <3>1, <3>2
  <2> QED
    BY <2>15, <2>16, <2>17, <2>18 DEF GapInv
<1> QED
  BY <1>4, <1>5
\* The client reads the first event of the wire: what precedes it is covered,
\* so the cursor may pass it.
LEMMA ReadGaps ==
  ASSUME BaseInv, GapInv, CursorCovered, ProcessSSEStream
  PROVE  GapInv' /\ CursorCovered'
<1>1. PICK u, x : ReadAs(u, x)
  BY ReadCases
<1>2. /\ wire # <<>> /\ Head(wire) = <<u, x>> /\ u \in Topics /\ x \in Nat
      /\ wire' = Tail(wire) /\ conn # 0
      /\ cursor'[u] = IF x > cursor[u] THEN x ELSE cursor[u]
      /\ base'[u] = IF base[u] = -1 THEN x ELSE base[u]
      /\ \A t \in Topics : t # u => cursor'[t] = cursor[t] /\ base'[t] = base[t]
      /\ got \subseteq got' /\ \A c \in Causes : excused[c] \subseteq excused'[c]
      /\ <<u, x>> \in got' \/ <<u, x>> \in excused'["buffer"]
      /\ UNCHANGED <<log, pub, str, conn>>
  BY <1>1 DEF ReadAs, serverVars
<1>3. Grows
  BY <1>2 DEF Grows
<1>4. \A e : Covered(e) => Covered(e)'
  BY <1>3, CoveredStays
<1>5. \A e : e = <<u, x>> => Covered(e)'
  BY <1>2 DEF Covered, Causes
<1>6. \A t \in Topics : /\ cursor[t] \in Int /\ cursor[t] >= -1 /\ base[t] \in Int
                        /\ base[t] = -1 <=> cursor[t] = -1
  BY DEF BaseInv, TypeOK, OffsetInv
<1>7. \A t \in Topics : cursor'[t] \in Int /\ cursor'[t] >= cursor[t]
  BY <1>2, <1>6
<1>8. PICK v : v = Tail(wire)
  OBVIOUS
<1>9. /\ wire[1] = <<u, x>> /\ 1 \in DOMAIN wire /\ DOMAIN wire = 1 .. Len(wire)
      /\ Len(wire) \in Nat /\ DOMAIN v = 1 .. Len(wire) - 1
      /\ \A i \in DOMAIN v : i + 1 \in DOMAIN wire /\ v[i] = wire[i + 1]
  <2>1. wire \in Seq(Events) /\ wire # <<>>
    BY <1>2 DEF BaseInv, TypeOK
  <2> QED
    BY <1>2, <1>8, <2>1, Popped
<1>10. \A e : InWire(e) => InWire(e)' \/ Covered(e)'
  <2> TAKE e
  <2>1. HAVE InWire(e)
  <2>2. PICK j \in DOMAIN wire : wire[j] = e
    BY <2>1 DEF InWire
  <2>3. CASE j = 1
    BY <1>5, <1>9, <2>2, <2>3
  <2>4. CASE j # 1
    <3>1. j - 1 \in DOMAIN v /\ (j - 1) + 1 = j
      BY <1>9, <2>2, <2>4
    <3>2. v[j - 1] = e
      BY <1>9, <2>2, <3>1
    <3> QED
      BY <1>2, <1>8, <3>1, <3>2 DEF InWire
  <2> QED
    BY <2>3, <2>4
<1>11. \A t \in Topics : Fresh(t)' <=> Fresh(t)
  <2>1. str[conn].from[u] # -1 => cursor[u] # -1
    BY <1>2 DEF BaseInv, StreamInv, ConnInv
  <2>2. cursor'[u] # -1
    BY <1>2, <1>6
  <2> QED
    BY <1>2, <2>1, <2>2 DEF Fresh
<1>12. \A t \in Topics : Settled(t)' <=> Settled(t)
  BY <1>2, <1>11 DEF Settled, Carries
<1>13. WireInv'
  <2> SUFFICES ASSUME NEW i \in DOMAIN wire', NEW t \in Topics, wire'[i][1] = t,
                      NEW o \in cursor'[t] + 1 .. wire'[i][2] - 1
               PROVE  Covered(<<t, o>>)' \/ \E j \in 1 .. i - 1 : wire'[j] = <<t, o>>
    BY DEF WireInv
  <2>1. i \in DOMAIN v /\ wire' = v /\ i + 1 \in DOMAIN wire /\ wire[i + 1] = v[i]
    BY <1>2, <1>8, <1>9
  <2>2. v[i][2] \in Nat /\ wire[i + 1][1] = t
    BY <2>1, SeqEvents DEF BaseInv
  <2>3. o \in cursor[t] + 1 .. wire[i + 1][2] - 1
    BY <1>6, <1>7, <2>1, <2>2
  <2>4. Covered(<<t, o>>) \/ \E j \in 1 .. (i + 1) - 1 : wire[j] = <<t, o>>
    BY <2>1, <2>2, <2>3 DEF WireInv, GapInv
  <2>5. ASSUME NEW j \in 1 .. (i + 1) - 1, wire[j] = <<t, o>>
        PROVE  Covered(<<t, o>>)' \/ \E m \in 1 .. i - 1 : wire'[m] = <<t, o>>
    <3>1. CASE j = 1
      BY <1>5, <1>9, <2>5, <3>1
    <3>2. CASE j # 1
      <4>1. j - 1 \in 1 .. i - 1 /\ j - 1 \in DOMAIN v /\ (j - 1) + 1 = j
        BY <1>9, <2>1, <3>2
      <4>2. wire'[j - 1] = <<t, o>>
        BY <1>9, <2>1, <2>5, <4>1
      <4> QED
        BY <4>1, <4>2
    <3> QED
      BY <3>1, <3>2
  <2> QED
    BY <1>4, <2>4, <2>5
<1>14. ReplayInv'
  <2> SUFFICES ASSUME NEW t \in Topics, str'[conn'].from[t] # -1,
                      NEW o \in cursor'[t] + 1 .. str'[conn'].from[t]
               PROVE  Covered(<<t, o>>)' \/ InWire(<<t, o>>)'
    BY DEF ReplayInv
  <2>1. str[conn].from[t] # -1 /\ str'[conn'].from[t] = str[conn].from[t]
    BY <1>2
  <2>2. str[conn].from[t] \in Int
    BY <1>2, ConnSeqs, OpenHandler
  <2>3. o \in cursor[t] + 1 .. str[conn].from[t]
    BY <1>6, <1>7, <2>1, <2>2
  <2>4. Covered(<<t, o>>) \/ InWire(<<t, o>>)
    BY <1>2, <2>1, <2>3 DEF ReplayInv, GapInv
  <2> QED
    BY <1>4, <1>10, <2>4
<1>15. ChanInv'
  <2> SUFFICES ASSUME conn' # 0, NEW i \in DOMAIN str'[conn'].chan, NEW t \in Topics,
                      str'[conn'].chan[i][1] = t, Settled(t)',
                      NEW o \in cursor'[t] + 1 .. str'[conn'].chan[i][2] - 1
               PROVE  \/ Covered(<<t, o>>)' \/ InWire(<<t, o>>)'
                      \/ \E j \in 1 .. i - 1 : str'[conn'].chan[j] = <<t, o>>
    BY DEF ChanInv
  <2>1. /\ str'[conn'].chan = str[conn].chan /\ Settled(t)
        /\ i \in DOMAIN str[conn].chan /\ str[conn].chan[i][1] = t
    BY <1>2, <1>12
  <2>2. str[conn].chan[i][2] \in Nat
    BY <1>2, <2>1, ConnSeqs, SeqEvents DEF BaseInv
  <2>3. o \in cursor[t] + 1 .. str[conn].chan[i][2] - 1
    BY <1>6, <1>7, <2>1, <2>2
  <2>4. \/ Covered(<<t, o>>) \/ InWire(<<t, o>>)
        \/ \E j \in 1 .. i - 1 : str[conn].chan[j] = <<t, o>>
    BY <1>2, <2>1, <2>3 DEF ChanInv, GapInv
  <2> QED
    BY <1>4, <1>10, <2>1, <2>4
<1>16. HandInv'
  <2> SUFFICES ASSUME NEW t \in Topics, Settled(t)', NEW o \in cursor'[t] + 1 .. log'[t] - 1
               PROVE  Covered(<<t, o>>)' \/ InWire(<<t, o>>)' \/ InChan(<<t, o>>)' \/ InHand(<<t, o>>)'
    BY DEF HandInv
  <2>1. log[t] \in Int
    BY DEF BaseInv, TypeOK
  <2>2. o \in cursor[t] + 1 .. log[t] - 1 /\ Settled(t)
    BY <1>2, <1>6, <1>7, <1>12, <2>1
  <2>3. Covered(<<t, o>>) \/ InWire(<<t, o>>) \/ InChan(<<t, o>>) \/ InHand(<<t, o>>)
    BY <2>2 DEF HandInv, GapInv
  <2>4. InChan(<<t, o>>) => InChan(<<t, o>>)'
    BY <1>2 DEF InChan
  <2>5. InHand(<<t, o>>) => InHand(<<t, o>>)'
    <3>1. <<t, o>>[1] = t
      OBVIOUS
    <3> QED
      BY <1>2, <1>11, <3>1 DEF InHand, Holds
  <2> QED
    BY <1>4, <1>10, <2>3, <2>4, <2>5
<1>17. CursorCovered'
  <2> SUFFICES ASSUME NEW t \in Topics, base'[t] # -1, NEW o \in base'[t] .. cursor'[t]
               PROVE  Covered(<<t, o>>)'
    BY DEF CursorCovered, Covered
  <2>1. ASSUME base[t] # -1, o \in base[t] .. cursor[t]
        PROVE  Covered(<<t, o>>)'
    <3>1. Covered(<<t, o>>)
      BY <2>1 DEF CursorCovered, Covered
    <3> QED
      BY <1>4, <3>1
  <2>2. CASE t # u
    BY <1>2, <2>1, <2>2
  <2>3. CASE t = u /\ base[u] = -1
    <3>1. base'[u] = x /\ cursor'[u] = x
      BY <1>2, <1>6, <2>3
    <3>2. o = x
      BY <1>2, <2>3, <3>1
    <3> QED
      BY <1>5, <2>3, <3>2
  <2>4. CASE t = u /\ base[u] # -1
    <3>1. /\ o \in Int /\ o >= base[u] /\ o <= cursor'[u]
      BY <1>2, <1>6, <1>7, <2>4
    <3>2. CASE o <= cursor[u]
      <4>1. o \in base[u] .. cursor[u]
        BY <1>6, <2>4, <3>1, <3>2
      <4> QED
        BY <2>1, <2>4, <4>1
    <3>3. CASE o > cursor[u] /\ o = x
      BY <1>5, <2>4, <3>3
    <3>4. CASE o > cursor[u] /\ o # x
      <4>1. o \in cursor[u] + 1 .. x - 1
        BY <1>2, <1>6, <3>1, <3>4
      <4>2. wire[1][1] = u /\ wire[1][2] = x
        BY <1>9
      <4>3. Covered(<<u, o>>) \/ \E j \in 1 .. 1 - 1 : wire[j] = <<u, o>>
        BY <1>2, <1>9, <4>1, <4>2 DEF WireInv, GapInv
      <4>4. Covered(<<u, o>>)
        BY <4>3
      <4> QED
        BY <1>4, <2>4, <4>4
    <3> QED
      BY <1>6, <1>2, <3>1, <3>2, <3>3, <3>4
  <2> QED
    BY <2>2, <2>3, <2>4
<1> QED
  BY <1>13, <1>14, <1>15, <1>16, <1>17 DEF GapInv

\* Every other step leaves the cursor alone.
LEMMA CursorStays ==
  ASSUME CursorCovered, Grows, cursor' = cursor, base' = base
  PROVE  CursorCovered'
<1>1. \A e : Covered(e) => Covered(e)'
  BY CoveredStays
<1> QED
  BY <1>1 DEF CursorCovered, Covered
\* A publisher's steps leave the cursor and what is covered.
LEMMA PublisherKeeps ==
  ASSUME BaseInv, NEW p \in Publishers, PublisherStep(p)
  PROVE  Grows /\ cursor' = cursor /\ base' = base
<1>1. CASE GetSubscribers(p)
  <2>1. excused \in [Causes -> SUBSET Events]
    BY DEF BaseInv, TypeOK
  <2>2. UNCHANGED <<got, cursor, base>>
    BY <1>1 DEF GetSubscribers, clientVars
  <2> DEFINE t == pub[p].topic
             e == <<t, pub[p].offset>>
             routed == conn \in {route[k] : k \in {k \in Patterns : t \in Covers[k] /\ route[k] # 0}}
  <2>3. PICK U, V :
          /\ excused' = [excused EXCEPT !["unrouted"] = U, !["fresh"] = V]
          /\ excused["unrouted"] \subseteq U /\ excused["fresh"] \subseteq V
    <3>1. PICK U, V : /\ U = (IF Attached(t) /\ ~routed THEN excused["unrouted"] \cup {e}
                                                        ELSE excused["unrouted"])
                      /\ V = (IF Fresh(t) /\ ~routed THEN excused["fresh"] \cup {e}
                                                     ELSE excused["fresh"])
      OBVIOUS
    <3>2. excused' = [excused EXCEPT !["unrouted"] = U, !["fresh"] = V]
      BY <1>1, <3>1 DEF GetSubscribers
    <3> HIDE DEF e, routed
    <3>3. excused["unrouted"] \subseteq U /\ excused["fresh"] \subseteq V
      BY <3>1
    <3> QED
      BY <3>2, <3>3
  <2>4. \A c \in Causes : excused[c] \subseteq excused'[c]
    BY <2>1, <2>3 DEF Causes
  <2> QED
    BY <2>2, <2>4 DEF Grows
<1>2. CASE DeliverEvent(p)
  <2>1. PICK d \in pub[p].to : DeliverTo(p, d)
    BY <1>2, DeliverCases
  <2> QED
    BY <2>1 DEF DeliverTo, clientVars, Grows
<1>3. CASE PublishReturn(p)
  BY <1>3 DEF PublishReturn, clientVars, Grows
<1> QED
  BY <1>1, <1>2, <1>3 DEF PublisherStep

\* A handler's steps do as well.
LEMMA HandlerKeeps ==
  ASSUME BaseInv, NEW s \in Streams, HandlerStep(s)
  PROVE  Grows /\ cursor' = cursor /\ base' = base
<1>1. CASE RefuseReplay(s) /\ conn = s
  <2>1. TypeOK /\ Excuse("fresh", Unread) /\ UNCHANGED <<cursor, base, got>>
    BY <1>1 DEF RefuseReplay, BaseInv
  <2>2. Unread \subseteq Events /\ "fresh" \in Causes
    BY <1>1, <2>1, UnreadEvents DEF RefuseReplay, Causes
  <2>3. \A c \in Causes : excused[c] \subseteq excused'[c]
    BY <2>1, <2>2, ExcuseIs
  <2> QED
    BY <2>1, <2>3 DEF Grows
<1>2. CASE RefuseReplay(s) /\ conn # s
  BY <1>2 DEF RefuseReplay, Grows
<1>3. CASE \E k \in Patterns : Register(s, k) \/ Unregister(s, k)
  BY <1>3 DEF Register, Unregister, clientVars, Grows
<1>4. CASE ValidateSSEReplayPlan(s) \/ ReplayDone(s) \/ HandlerReturn(s)
  BY <1>4 DEF ValidateSSEReplayPlan, ReplayDone, HandlerReturn, clientVars, Grows
<1>5. CASE StreamLive(s)
  BY <1>5 DEF StreamLive, Grows
<1>6. CASE \E t \in Topics : ReplayBatch(s, t)
  BY <1>6 DEF ReplayBatch, Grows
<1> QED
  BY <1>1, <1>2, <1>3, <1>4, <1>5, <1>6 DEF HandlerStep

\* GapInv and CursorCovered are inductive together, given BaseInv.
LEMMA GapStep ==
  ASSUME BaseInv, GapInv, CursorCovered, [Next]_vars
  PROVE  GapInv' /\ CursorCovered'
<1>1. ASSUME NEW p \in Publishers, PublisherStep(p)
      PROVE  GapInv' /\ CursorCovered'
  <2>1. GapInv'
    BY <1>1, GetSubscribersGaps, DeliverGaps, PublishReturnGaps DEF PublisherStep
  <2> QED
    BY <1>1, <2>1, PublisherKeeps, CursorStays
<1>2. ASSUME NEW p \in Publishers, NEW t \in Topics, Persist(p, t)
      PROVE  GapInv' /\ CursorCovered'
  <2>1. Grows /\ cursor' = cursor /\ base' = base
    BY <1>2 DEF Persist, clientVars, Grows
  <2> QED
    BY <1>2, <2>1, PersistGaps, CursorStays
<1>11. ASSUME NEW p \in Publishers, PublishCancelled(p)
      PROVE  GapInv' /\ CursorCovered'
  BY <1>11, PublishCancelledGaps, CursorStays
<1>3. ASSUME NEW s \in Streams, HandlerStep(s)
      PROVE  GapInv' /\ CursorCovered'
  <2>1. GapInv'
    BY <1>3, RegisterGaps, PlanGaps, EndGaps, BatchGaps, ReplayDoneGaps, TakeGaps DEF HandlerStep
  <2> QED
    BY <1>3, <2>1, HandlerKeeps, CursorStays
<1>4. ASSUME UNCHANGED <<log, pub, str, conn, wire, cursor, got, base, excused>>
      PROVE  GapInv' /\ CursorCovered'
  BY <1>4, RequestGaps, CursorStays DEF Grows
<1>5. ASSUME NEW k \in Patterns,
             CreateSubscription(k) \/ EnsureStreamSubscription(k) \/ DeleteSubscription(k)
      PROVE  GapInv' /\ CursorCovered'
  BY <1>4, <1>5 DEF CreateSubscription, EnsureStreamSubscription, DeleteSubscription, clientVars
<1>6. CASE EnsureFails \/ Consume \/ UNCHANGED vars
  BY <1>4, <1>6 DEF EnsureFails, Consume, vars, serverVars, clientVars
<1>7. CASE Open
  <2>1. Grows /\ cursor' = cursor /\ base' = base
    BY <1>7 DEF Open, Grows
  <2> QED
    BY <1>7, <2>1, OpenGaps, CursorStays
<1>8. CASE Break \/ ScannerError
  <2>1. Grows /\ cursor' = cursor /\ base' = base
    BY <1>8, BreakIs DEF Grows
  <2> QED
    BY <1>8, <2>1, BreakGaps, CursorStays
<1>9. CASE Restart
  <2>1. Grows /\ cursor' = cursor /\ base' = base
    BY <1>9, RestartIs DEF Grows
  <2> QED
    BY <1>9, <2>1, RestartGaps, CursorStays
<1>10. CASE ProcessSSEStream
  BY <1>10, ReadGaps
<1> QED
  BY <1>1, <1>2, <1>3, <1>5, <1>6, <1>7, <1>8, <1>9, <1>10, <1>11 DEF Next

-----------------------------------------------------------------------------
(* The theorems. *)

\* SSEInv is inductive: connections, routing entries and offsets are in step, and
\* nothing between the client's cursor and what it will read next is missing.
THEOREM StreamInvariant == Spec => []SSEInv
<1>1. Init => SSEInv
  <2> SUFFICES ASSUME Init
               PROVE  SSEInv
    OBVIOUS
  <2>1. BaseInv
    BY BaseInit
  <2>2. wire = <<>> /\ conn = 0 /\ (\A t \in Topics : log[t] = 0 /\ cursor[t] = -1 /\ base[t] = -1)
    BY DEF Init
  <2>3. GapInv
    BY <2>2 DEF GapInv, WireInv, ReplayInv, ChanInv, HandInv
  <2>4. CursorCovered
    BY <2>2 DEF CursorCovered
  <2> QED
    BY <2>1, <2>3, <2>4 DEF SSEInv, BaseInv
<1>2. SSEInv /\ [Next]_vars => SSEInv'
  BY BaseStep, GapStep DEF SSEInv, BaseInv
<1> QED
  BY <1>1, <1>2, PTL DEF Spec

\* The client, the handlers and the publishers keep the shape of the state, and
\* no channel of a stream ever holds more than its capacity.
THEOREM StreamTypes == Spec => []TypeOK
<1>1. SSEInv => TypeOK
  BY DEF SSEInv
<1> QED
  BY <1>1, StreamInvariant, PTL

\* The resume protocol loses nothing: an event the client's cursor has passed was
\* handed to the application or met one of the named causes, for any number of
\* publishers, topics, patterns, connections, breaks and restarts and any
\* capacity of channel, buffer and batch.
THEOREM ResumeLosesNothing == Spec => []CursorCovered
<1>1. SSEInv => CursorCovered
  BY DEF SSEInv
<1> QED
  BY <1>1, StreamInvariant, PTL
=============================================================================
