--------------------------- MODULE PebbleEventLog ---------------------------
(***************************************************************************)
(* The durable event log, internal/eventlog/pebble.go: a key-value store   *)
(* holding one event key per (topic, offset) and one offset key per topic, *)
(* behind one sync.RWMutex.  An append runs under the write lock and       *)
(* commits both keys in one synchronous batch; a replay holds the read     *)
(* lock until its last event is on the channel.  The process may die       *)
(* between any two steps and open the store again.                         *)
(***************************************************************************)
EXTENDS Integers, Sequences, FiniteSets

CONSTANTS
  Topics, Payloads, Replayers, MaxOffset,
  Callers,    \* goroutines that call AppendEvent or Close
  ReplayBuf,  \* capacity of a replay's event channel (10 in the code)
  NoCaller    \* nobody holds or is waiting at the head of the write lock

ASSUME MaxOffsetAssumption == MaxOffset \in Nat
ASSUME ReplayBufAssumption == ReplayBuf \in Nat \ {0}
ASSUME NoCallerAssumption == NoCaller \notin Callers

VARIABLES
  db,      \* the store as reads see it
  disk,    \* the store as the next Open will find it
  up,      \* the process is running with the store open or closed
  closed,  \* PebbleEventLog.closed
  writer,  \* who holds the write lock or has announced it wants it
  call,    \* call[c]: where c stands in AppendEvent or Close
  rep,     \* rep[r]: where r stands in ReplayEvents
  acked    \* ghost: the events AppendEvent has returned to a caller

vars == <<db, disk, up, closed, writer, call, rep, acked>>

Event(o, p) == [offset |-> o, payload |-> p]
Events == [offset : Nat, payload : Payloads]

\* A map with the value of one key set, as batch.Set does.
Put(f, k, v) == [x \in DOMAIN f \cup {k} |-> IF x = k THEN v ELSE f[x]]

\* The store: event keys of a topic are the domain of ev[t], and next[t] is
\* the decoded offset key, 0 when the key is absent.
EmptyStore == [ev |-> [t \in Topics |-> [o \in {} |-> 0]],
               next |-> [t \in Topics |-> 0]]

\* Mutant: the offset key is written with the event's own offset.
ApplySameOffset(store, t, o, e) ==
  [ev |-> [store.ev EXCEPT ![t] = Put(@, o, e)],
   next |-> [store.next EXCEPT ![t] = o]]

\* Both keys of one append, applied together: a committed batch.
Apply(store, t, o, e) ==
  [ev |-> [store.ev EXCEPT ![t] = Put(@, o, e)],
   next |-> [store.next EXCEPT ![t] = o + 1]]

IdleCall == [pc |-> "idle"]
IdleRep == [pc |-> "idle"]

Readers == {r \in Replayers : rep[r].pc = "iter"}

Init ==
  /\ db = EmptyStore
  /\ disk = EmptyStore
  /\ up = TRUE
  /\ closed = FALSE
  /\ writer = NoCaller
  /\ call = [c \in Callers |-> IdleCall]
  /\ rep = [r \in Replayers |-> IdleRep]
  /\ acked = {}

-----------------------------------------------------------------------------
(* AppendEvent and Close: the write lock *)

\* AppendEvent has validated its arguments and calls mu.Lock.
AppendCall(c, t, p) ==
  /\ up
  /\ call[c].pc = "idle"
  /\ call' = [call EXCEPT ![c] = [pc |-> "queued", op |-> "append",
                                  topic |-> t, payload |-> p]]
  /\ UNCHANGED <<db, disk, up, closed, writer, rep, acked>>

CloseCall(c) ==
  /\ up
  /\ call[c].pc = "idle"
  /\ call' = [call EXCEPT ![c] = [pc |-> "queued", op |-> "close"]]
  /\ UNCHANGED <<db, disk, up, closed, writer, rep, acked>>

\* sync.RWMutex.Lock: one writer at a time announces itself; from then on no
\* new reader enters, and the writer waits for those inside.
Announce(c) ==
  /\ call[c].pc = "queued"
  /\ writer = NoCaller
  /\ writer' = c
  /\ call' = [call EXCEPT ![c].pc = "announced"]
  /\ UNCHANGED <<db, disk, up, closed, rep, acked>>

Return(c) ==
  /\ call' = [call EXCEPT ![c] = IdleCall]
  /\ writer' = NoCaller

\* getTopicEndOffsetLocked
EndOffset(store, t) == store.next[t]

CanAppend(c) ==
  /\ ~closed
  /\ EndOffset(db, call[c].topic) <= MaxOffset

\* Mutant: the event is acknowledged before the batch is committed.
AppendStageEarlyAck(c) ==
  /\ call[c].pc = "announced" /\ call[c].op = "append"
  /\ Readers = {}
  /\ CanAppend(c)
  /\ LET e == Event(EndOffset(db, call[c].topic), call[c].payload)
     IN  /\ call' = [call EXCEPT ![c] =
                       [pc |-> "staged", topic |-> call[c].topic, event |-> e]]
         /\ acked' = acked \cup {[topic |-> call[c].topic, event |-> e]}
  /\ UNCHANGED <<db, disk, up, closed, writer, rep>>

\* Mutant: the append does not wait for the readers inside.
AppendStageShared(c) ==
  /\ call[c].pc = "announced" /\ call[c].op = "append"
  /\ CanAppend(c)
  /\ call' = [call EXCEPT ![c] =
       [pc |-> "staged", topic |-> call[c].topic,
        event |-> Event(EndOffset(db, call[c].topic), call[c].payload)]]
  /\ UNCHANGED <<db, disk, up, closed, writer, rep, acked>>

\* Under the lock: read the end offset, stamp the event and stage both keys.
AppendStage(c) ==
  /\ call[c].pc = "announced" /\ call[c].op = "append"
  /\ Readers = {}
  /\ CanAppend(c)
  /\ call' = [call EXCEPT ![c] =
       [pc |-> "staged", topic |-> call[c].topic,
        event |-> Event(EndOffset(db, call[c].topic), call[c].payload)]]
  /\ UNCHANGED <<db, disk, up, closed, writer, rep, acked>>

\* Closed log, or ErrOffsetOverflow.
AppendReject(c) ==
  /\ call[c].pc = "announced" /\ call[c].op = "append"
  /\ Readers = {}
  /\ ~CanAppend(c)
  /\ Return(c)
  /\ UNCHANGED <<db, disk, up, closed, rep, acked>>

Staged(store, c) ==
  Apply(store, call[c].topic, call[c].event.offset, call[c].event)

\* batch.Commit(pebble.Sync): both keys become visible and durable together.
AppendCommit(c) ==
  /\ call[c].pc = "staged"
  /\ db' = Staged(db, c)
  /\ disk' = Staged(disk, c)
  /\ call' = [call EXCEPT ![c].pc = "committed"]
  /\ UNCHANGED <<up, closed, writer, rep, acked>>

\* AppendEvent returns the stamped event and drops the lock.
AppendReturn(c) ==
  /\ call[c].pc = "committed"
  /\ acked' = acked \cup {[topic |-> call[c].topic, event |-> call[c].event]}
  /\ Return(c)
  /\ UNCHANGED <<db, disk, up, closed, rep>>

\* Commit reports an error: the batch is dropped, nothing is acknowledged.
AppendCommitError(c) ==
  /\ call[c].pc = "staged"
  /\ Return(c)
  /\ UNCHANGED <<db, disk, up, closed, rep, acked>>

CloseLocked(c) ==
  /\ call[c].pc = "announced" /\ call[c].op = "close"
  /\ Readers = {}
  /\ closed' = TRUE
  /\ Return(c)
  /\ UNCHANGED <<db, disk, up, rep, acked>>

-----------------------------------------------------------------------------
(* ReplayEvents: one goroutine under the read lock *)

ReplayCall(r, t, s) ==
  /\ up
  /\ rep[r].pc = "idle"
  /\ rep' = [rep EXCEPT ![r] = [pc |-> "queued", topic |-> t, start |-> s]]
  /\ UNCHANGED <<db, disk, up, closed, writer, call, acked>>

\* mu.RLock is granted, the log is open, and the iterator is created.
ReplayLock(r) ==
  /\ rep[r].pc = "queued"
  /\ writer = NoCaller
  /\ ~closed
  /\ rep' = [rep EXCEPT ![r] =
       [pc |-> "iter", topic |-> rep[r].topic, start |-> rep[r].start,
        sent |-> <<>>, buf |-> 0]]
  /\ UNCHANGED <<db, disk, up, closed, writer, call, acked>>

ReplayReject(r) ==
  /\ rep[r].pc = "queued"
  /\ writer = NoCaller
  /\ closed
  /\ rep' = [rep EXCEPT ![r] = IdleRep]
  /\ UNCHANGED <<db, disk, up, closed, writer, call, acked>>

\* Mutant: the iterator starts after the requested offset.
AheadSkipping(r) ==
  LET past == IF rep[r].sent = <<>> THEN rep[r].start
              ELSE rep[r].sent[Len(rep[r].sent)].offset
  IN  {o \in DOMAIN db.ev[rep[r].topic] : o > past}

\* The event keys the iterator of a topic still has ahead of it.
Ahead(r) ==
  LET past == IF rep[r].sent = <<>> THEN rep[r].start - 1
              ELSE rep[r].sent[Len(rep[r].sent)].offset
  IN  {o \in DOMAIN db.ev[rep[r].topic] : o > past}

\* Mutant: the send does not wait for room in the channel.
ReplaySendUnbounded(r) ==
  /\ rep[r].pc = "iter"
  /\ \E o \in Ahead(r) :
       /\ \A x \in Ahead(r) : o <= x
       /\ rep' = [rep EXCEPT
            ![r].sent = Append(@, db.ev[rep[r].topic][o]), ![r].buf = @ + 1]
  /\ UNCHANGED <<db, disk, up, closed, writer, call, acked>>

\* eventChan <- event, when the channel has room.
ReplaySend(r) ==
  /\ rep[r].pc = "iter"
  /\ rep[r].buf < ReplayBuf
  /\ \E o \in Ahead(r) :
       /\ \A x \in Ahead(r) : o <= x
       /\ rep' = [rep EXCEPT
            ![r].sent = Append(@, db.ev[rep[r].topic][o]), ![r].buf = @ + 1]
  /\ UNCHANGED <<db, disk, up, closed, writer, call, acked>>

\* The consumer takes one event off the channel.
ReplayReceive(r) ==
  /\ rep[r].pc = "iter"
  /\ rep[r].buf > 0
  /\ rep' = [rep EXCEPT ![r].buf = @ - 1]
  /\ UNCHANGED <<db, disk, up, closed, writer, call, acked>>

\* Mutant: the goroutine ends without giving the read lock back.
ReplayDoneLocked(r) ==
  /\ rep[r].pc = "iter"
  /\ Ahead(r) = {}
  /\ UNCHANGED vars

\* The iterator is exhausted: the goroutine returns and drops the read lock.
ReplayDone(r) ==
  /\ rep[r].pc = "iter"
  /\ Ahead(r) = {}
  /\ rep' = [rep EXCEPT ![r] = IdleRep]
  /\ UNCHANGED <<db, disk, up, closed, writer, call, acked>>

\* The caller cancels the replay's context before the last event is sent.
ReplayCancel(r) ==
  /\ rep[r].pc = "iter"
  /\ Ahead(r) # {}
  /\ rep' = [rep EXCEPT ![r] = IdleRep]
  /\ UNCHANGED <<db, disk, up, closed, writer, call, acked>>

-----------------------------------------------------------------------------
(* The process ends, at any point, and NewPebbleEventLog opens the store. *)

\* What was staged is gone; reads will see what is on disk.
Crash ==
  /\ up
  /\ up' = FALSE
  /\ db' = disk
  /\ call' = [c \in Callers |-> IdleCall]
  /\ rep' = [r \in Replayers |-> IdleRep]
  /\ writer' = NoCaller
  /\ UNCHANGED <<disk, closed, acked>>

NewPebbleEventLog ==
  /\ ~up
  /\ up' = TRUE
  /\ closed' = FALSE
  /\ UNCHANGED <<db, disk, writer, call, rep, acked>>

-----------------------------------------------------------------------------
WriterStep(c) ==
  \/ Announce(c)
  \/ AppendStage(c)
  \/ AppendReject(c)
  \/ AppendCommit(c)
  \/ AppendReturn(c)
  \/ AppendCommitError(c)
  \/ CloseLocked(c)

ReplayStep(r) ==
  \/ ReplayLock(r)
  \/ ReplayReject(r)
  \/ ReplaySend(r)
  \/ ReplayDone(r)

Next ==
  \/ \E c \in Callers, t \in Topics, p \in Payloads : AppendCall(c, t, p)
  \/ \E c \in Callers : CloseCall(c) \/ WriterStep(c)
  \/ \E r \in Replayers, t \in Topics, s \in 0 .. MaxOffset : ReplayCall(r, t, s)
  \/ \E r \in Replayers : ReplayStep(r) \/ ReplayReceive(r) \/ ReplayCancel(r)
  \/ Crash
  \/ NewPebbleEventLog

Spec == Init /\ [][Next]_vars

\* Every goroutine keeps running; the Go mutex is starvation free, and whoever
\* starts a replay keeps receiving from its channel (or cancels it).
Fairness ==
  /\ \A c \in Callers : WF_vars(WriterStep(c)) /\ SF_vars(Announce(c))
  /\ \A r \in Replayers : WF_vars(ReplayStep(r)) /\ WF_vars(ReplayReceive(r))

FairSpec == Spec /\ Fairness

-----------------------------------------------------------------------------
(* ReadEvents and GetStatistics, as functions of the store *)

\* Mutant: the seek goes to the first key after s.
ReadEventsAfter(store, t, s, n) ==
  LET keys == {o \in DOMAIN store.ev[t] : o > s}
      nth(i) == CHOOSE o \in keys : Cardinality({x \in keys : x < o}) = i - 1
      size == IF Cardinality(keys) < n THEN Cardinality(keys) ELSE n
  IN  [i \in 1 .. size |-> store.ev[t][nth(i)]]

\* readEventsLocked: seek to the first key at or after s, take at most n.
ReadEvents(store, t, s, n) ==
  LET keys == {o \in DOMAIN store.ev[t] : o >= s}
      nth(i) == CHOOSE o \in keys : Cardinality({x \in keys : x < o}) = i - 1
      size == IF Cardinality(keys) < n THEN Cardinality(keys) ELSE n
  IN  [i \in 1 .. size |-> store.ev[t][nth(i)]]

\* GetTopicEndOffset and GetStatistics report an offset key as an int64, which
\* the key of a full topic no longer is: ErrOffsetOverflow.
Overflows(store, t) == EndOffset(store, t) > MaxOffset

\* GetStatistics counts by the offset keys alone, and fails as a whole when one
\* of them overflows.  TotalEvents, the sum of the counts, is left out.
StatisticsError == [ok |-> FALSE]
GetStatistics(store) ==
  IF \E t \in Topics : Overflows(store, t) THEN StatisticsError
  ELSE [ok |-> TRUE,
        counts |-> [t \in {u \in Topics : EndOffset(store, u) > 0} |-> EndOffset(store, t)]]

-----------------------------------------------------------------------------
(* Properties *)

CallStates ==
  {IdleCall}
    \cup [pc : {"queued", "announced"}, op : {"append"},
          topic : Topics, payload : Payloads]
    \cup [pc : {"queued", "announced"}, op : {"close"}]
    \cup [pc : {"staged", "committed"}, topic : Topics, event : Events]

RepStates ==
  {IdleRep}
    \cup [pc : {"queued"}, topic : Topics, start : Nat]
    \cup [pc : {"iter"}, topic : Topics, start : Nat, sent : Seq(Events), buf : Nat]

\* The shape of the state: the store's maps, where each goroutine stands, and
\* a replay channel never holding more than its capacity.
TypeOK ==
  /\ \A s \in {db, disk} : /\ DOMAIN s.ev = Topics
                           /\ s.next \in [Topics -> Nat]
  /\ up \in BOOLEAN
  /\ closed \in BOOLEAN
  /\ writer \in Callers \cup {NoCaller}
  /\ call \in [Callers -> CallStates]
  /\ rep \in [Replayers -> RepStates]
  /\ \A r \in Readers : rep[r].buf <= ReplayBuf
  /\ \A a \in acked : a.topic \in Topics /\ a.event \in Events

\* The two kinds of key stay in step through every interleaving and crash: a
\* topic has exactly the event keys below its offset key, each holding an
\* event stamped with its own offset (AppendEvent's batch).
WellKeyed(s) ==
  \A t \in Topics :
    /\ DOMAIN s.ev[t] = 0 .. s.next[t] - 1
    /\ \A o \in DOMAIN s.ev[t] : s.ev[t][o] \in Events /\ s.ev[t][o].offset = o

KeysInStep == WellKeyed(db) /\ WellKeyed(disk)

\* An event AppendEvent has returned is never lost, moved or overwritten, by
\* later appends, Close, a crash or reopening the store.
AckedDurable ==
  \A a \in acked :
    /\ a.event.offset \in DOMAIN disk.ev[a.topic]
    /\ disk.ev[a.topic][a.event.offset] = a.event
    /\ db.ev[a.topic][a.event.offset] = a.event

\* The topic a store holds, as a sequence.
LogOf(s, t) == [i \in 1 .. s.next[t] |-> s.ev[t][i - 1]]

\* Everything ReadEvents can return of a topic.
Readable(t) == ReadEvents(db, t, 0, MaxOffset + 2)

\* ReadEvents returns the requested run of the topic whatever offset and count
\* are asked for.
RunsAgree ==
  \A t \in Topics, s \in 0 .. MaxOffset + 1, n \in 0 .. MaxOffset + 2 :
    ReadEvents(db, t, s, n) =
      SubSeq(LogOf(db, t), s + 1,
             IF s + n < db.next[t] THEN s + n ELSE db.next[t])

\* GetStatistics fails exactly when a topic has an event at every offset, the
\* last one included; otherwise it lists the topics that have events and counts
\* what ReadEvents can return of each.
StatisticsAgree ==
  IF \E t \in Topics : Len(Readable(t)) = MaxOffset + 1
  THEN ~GetStatistics(db).ok
  ELSE /\ GetStatistics(db).ok
       /\ DOMAIN GetStatistics(db).counts = {t \in Topics : Readable(t) # <<>>}
       /\ \A t \in DOMAIN GetStatistics(db).counts :
            GetStatistics(db).counts[t] = Len(Readable(t))

\* Reads and statistics, which look at different keys of the store, agree on
\* what a topic holds (readEventsLocked and GetStatistics).
ReadAgrees == RunsAgree /\ StatisticsAgree

\* The mutual exclusion the appends rest on: whoever has staged or committed
\* holds the write lock, nobody is reading, and the log is open.
WriterExcludes ==
  \A c \in Callers : call[c].pc \in {"staged", "committed"} =>
     writer = c /\ Readers = {} /\ up /\ ~closed

Abs == INSTANCE EventLog WITH
  log <- [t \in Topics |-> LogOf(db, t)],
  usable <- up /\ ~closed,
  replay <- [r \in Replayers |->
               IF rep[r].pc = "iter"
               THEN [on |-> TRUE, topic |-> rep[r].topic, start |-> rep[r].start,
                     end |-> db.next[rep[r].topic], sent |-> rep[r].sent]
               ELSE [on |-> FALSE]]

\* The store implements the interface's append-only log: appends extend one
\* topic by one event at its end offset, nothing is ever taken back, and a
\* replay sends a gapless run of the topic as it was when the replay started.
RefinesEventLog == Abs!AbsSpec

\* AppendEvent and Close always return, replays notwithstanding: the read lock
\* a replay holds over its whole run is given back.
WritersReturn ==
  \A c \in Callers : call[c].pc = "queued" ~> call[c].pc = "idle"
=============================================================================
