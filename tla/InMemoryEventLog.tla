-------------------------- MODULE InMemoryEventLog --------------------------
(***************************************************************************)
(* The default event log, internal/eventlog/inmemory.go: a slice of events *)
(* and a next-offset counter per topic, two maps behind one RWMutex.  No   *)
(* operation blocks while it holds the lock, so each critical section is   *)
(* one step.  ReplayEvents copies the topic's slice under the read lock    *)
(* and sends from the copy after releasing it.                             *)
(***************************************************************************)
EXTENDS Integers, Sequences

CONSTANTS Topics, Payloads, Replayers,
  MaxOffset,  \* bound on appends per topic: offsets 0 .. MaxOffset
  ReplayBuf   \* capacity of a replay's event channel (10 in the code)

VARIABLES
  eventsByTopic, nextOffsetByTopic, closed,
  rep         \* rep[r]: where r's ReplayEvents goroutine stands

vars == <<eventsByTopic, nextOffsetByTopic, closed, rep>>

Event(o, p) == [offset |-> o, payload |-> p]
Events == [offset : Nat, payload : Payloads]
IdleRep == [pc |-> "idle"]

\* NewInMemoryEventLog: an absent map entry reads as the empty slice and 0.
Init ==
  /\ eventsByTopic = [t \in Topics |-> <<>>]
  /\ nextOffsetByTopic = [t \in Topics |-> 0]
  /\ closed = FALSE
  /\ rep = [r \in Replayers |-> IdleRep]

AppendEvent(t, p) ==
  /\ ~closed
  /\ Len(eventsByTopic[t]) <= MaxOffset
  /\ nextOffsetByTopic' = [nextOffsetByTopic EXCEPT ![t] = @ + 1]
  /\ eventsByTopic' =
       [eventsByTopic EXCEPT ![t] = Append(@, Event(nextOffsetByTopic[t], p))]
  /\ UNCHANGED <<closed, rep>>

\* The goroutine is started; it has not taken the lock yet.
ReplayCall(r, t, s) ==
  /\ rep[r].pc = "idle"
  /\ rep' = [rep EXCEPT ![r] = [pc |-> "called", topic |-> t, start |-> s]]
  /\ UNCHANGED <<eventsByTopic, nextOffsetByTopic, closed>>

\* The slice is copied under the read lock; the lock is dropped at once.
ReplayCopy(r) ==
  /\ rep[r].pc = "called"
  /\ ~closed
  /\ rep' = [rep EXCEPT ![r] =
       [pc |-> "sending", topic |-> rep[r].topic, start |-> rep[r].start,
        copy |-> eventsByTopic[rep[r].topic], i |-> rep[r].start,
        sent |-> <<>>, buf |-> 0]]
  /\ UNCHANGED <<eventsByTopic, nextOffsetByTopic, closed>>

ReplayReject(r) ==
  /\ rep[r].pc = "called"
  /\ closed
  /\ rep' = [rep EXCEPT ![r] = IdleRep]
  /\ UNCHANGED <<eventsByTopic, nextOffsetByTopic, closed>>

\* Mutant: the goroutine sends from the topic's slice instead of its copy.
ReplaySendLive(r) ==
  /\ rep[r].pc = "sending"
  /\ rep[r].i < Len(eventsByTopic[rep[r].topic])
  /\ rep[r].buf < ReplayBuf
  /\ rep' = [rep EXCEPT
       ![r].sent = Append(@, eventsByTopic[rep[r].topic][rep[r].i + 1]),
       ![r].i = @ + 1, ![r].buf = @ + 1]
  /\ UNCHANGED <<eventsByTopic, nextOffsetByTopic, closed>>

\* eventChan <- events[i] (slices count from 0)
ReplaySend(r) ==
  /\ rep[r].pc = "sending"
  /\ rep[r].i < Len(rep[r].copy)
  /\ rep[r].buf < ReplayBuf
  /\ rep' = [rep EXCEPT
       ![r].sent = Append(@, rep[r].copy[rep[r].i + 1]), ![r].i = @ + 1, ![r].buf = @ + 1]
  /\ UNCHANGED <<eventsByTopic, nextOffsetByTopic, closed>>

ReplayReceive(r) ==
  /\ rep[r].pc = "sending"
  /\ rep[r].buf > 0
  /\ rep' = [rep EXCEPT ![r].buf = @ - 1]
  /\ UNCHANGED <<eventsByTopic, nextOffsetByTopic, closed>>

\* Everything is sent, or the caller cancels the context.
ReplayDone(r) ==
  /\ rep[r].pc = "sending"
  /\ rep' = [rep EXCEPT ![r] = IdleRep]
  /\ UNCHANGED <<eventsByTopic, nextOffsetByTopic, closed>>

Close ==
  /\ closed' = TRUE
  /\ UNCHANGED <<eventsByTopic, nextOffsetByTopic, rep>>

Next ==
  \/ \E t \in Topics, p \in Payloads : AppendEvent(t, p)
  \/ \E r \in Replayers, t \in Topics, s \in 0 .. MaxOffset : ReplayCall(r, t, s)
  \/ \E r \in Replayers : \/ ReplayCopy(r) \/ ReplayReject(r)
                          \/ ReplaySend(r) \/ ReplayReceive(r) \/ ReplayDone(r)
  \/ Close

Spec == Init /\ [][Next]_vars

-----------------------------------------------------------------------------

\* Mutant: the window ends one event early.
ReadEventsShort(t, startIdx, maxCount) ==
  LET n == Len(eventsByTopic[t])
      endIdx == IF startIdx + maxCount > n THEN n ELSE startIdx + maxCount - 1
  IN  IF startIdx >= n THEN <<>>
      ELSE [k \in 1 .. endIdx - startIdx |-> eventsByTopic[t][startIdx + k]]

\* ReadEvents: clamp the requested window to the slice.
ReadEvents(t, startIdx, maxCount) ==
  LET n == Len(eventsByTopic[t])
      endIdx == IF startIdx + maxCount > n THEN n ELSE startIdx + maxCount
  IN  IF startIdx >= n THEN <<>>
      ELSE [k \in 1 .. endIdx - startIdx |-> eventsByTopic[t][startIdx + k]]

\* Both maps describe one log: whatever appends and replays interleave, paging
\* from any offset in windows of any size visits exactly the offsets from
\* there to the counter GetTopicEndOffset reports, each one once.
PagesAgree ==
  \A t \in Topics, s \in 0 .. MaxOffset + 2, n \in 0 .. MaxOffset + 2 :
    LET page == ReadEvents(t, s, n)
    IN  /\ \A k \in DOMAIN page : page[k].offset = s + k - 1
        /\ s < nextOffsetByTopic[t] /\ n > 0 => page # <<>>
        /\ s + Len(page) < nextOffsetByTopic[t] => Len(page) = n

Abs == INSTANCE EventLog WITH
  log <- eventsByTopic,
  usable <- ~closed,
  replay <- [r \in Replayers |->
               IF rep[r].pc = "sending"
               THEN [on |-> TRUE, topic |-> rep[r].topic, start |-> rep[r].start,
                     end |-> Len(rep[r].copy), sent |-> rep[r].sent]
               ELSE [on |-> FALSE]]

\* The two maps implement the interface's append-only log, and a replay sends a
\* gapless run of the topic as it was when the slice was copied although
\* appends and Close go on while it sends.
RefinesEventLog == Abs!AbsSpec
=============================================================================
