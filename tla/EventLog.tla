------------------------------ MODULE EventLog ------------------------------
(***************************************************************************)
(* What the EventLog interface promises (pkg/eventlog/interfaces.go), the  *)
(* abstract specification that both implementations are shown to refine:   *)
(* every topic is an append-only sequence whose positions are the offsets, *)
(* starting at 0, and a replay delivers a contiguous run of one topic,     *)
(* taken as it was when the replay began.                                  *)
(***************************************************************************)
EXTENDS Integers, Sequences

CONSTANTS
  Topics,     \* topic names
  Payloads,   \* event payloads (headers and timestamps go with the payload)
  Replayers,  \* callers that may run a ReplayEvents
  MaxOffset   \* the largest offset an event may carry (math.MaxInt64)

VARIABLES
  log,     \* log[t]: the events of topic t, in offset order
  usable,  \* whether operations are accepted (the log is open)
  replay   \* replay[r]: the replay that r is running, or NoReplay

absVars == <<log, usable, replay>>

Offsets == 0 .. MaxOffset

\* A stored event: the payload and the offset that WithOffset stamped on it.
Event(o, p) == [offset |-> o, payload |-> p]
Events == [offset : Nat, payload : Payloads]

\* A replay of topic from offset start; `end' is the topic's end offset when
\* the replay began, `sent' what has been put on the channel so far.
NoReplay == [on |-> FALSE]
Replay(t, s, e, q) ==
  [on |-> TRUE, topic |-> t, start |-> s, end |-> e, sent |-> q]

AbsInit ==
  /\ log = [t \in Topics |-> <<>>]
  /\ usable = TRUE
  /\ replay = [r \in Replayers |-> NoReplay]

\* AppendEvent assigns the topic's end offset to the event.
AbsAppend(t, p) ==
  /\ usable
  /\ Len(log[t]) <= MaxOffset
  /\ log' = [log EXCEPT ![t] = Append(@, Event(Len(@), p))]
  /\ UNCHANGED <<usable, replay>>

AbsReplayStart(r, t, s) ==
  /\ usable
  /\ replay[r] = NoReplay
  /\ replay' = [replay EXCEPT ![r] = Replay(t, s, Len(log[t]), <<>>)]
  /\ UNCHANGED <<log, usable>>

\* The next event of the run: the one whose offset is start + Len(sent).
AbsReplaySend(r) ==
  /\ replay[r].on
  /\ replay[r].start + Len(replay[r].sent) < replay[r].end
  /\ replay' = [replay EXCEPT ![r].sent =
                  Append(@, log[replay[r].topic][replay[r].start + Len(@) + 1])]
  /\ UNCHANGED <<log, usable>>

\* Channels are closed: everything sent, a context cancelled, the log closed,
\* or the process ended; the log may close or be opened again meanwhile.
AbsReplayStop(S) ==
  /\ replay' = [r \in Replayers |-> IF r \in S THEN NoReplay ELSE replay[r]]
  /\ usable' \in BOOLEAN
  /\ UNCHANGED log

AbsNext ==
  \/ \E t \in Topics, p \in Payloads : AbsAppend(t, p)
  \/ \E r \in Replayers, t \in Topics, s \in Offsets : AbsReplayStart(r, t, s)
  \/ \E r \in Replayers : AbsReplaySend(r)
  \/ \E S \in SUBSET Replayers : AbsReplayStop(S)

AbsSpec == AbsInit /\ [][AbsNext]_absVars
=============================================================================
