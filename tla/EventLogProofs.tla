--------------------------- MODULE EventLogProofs ---------------------------
(***************************************************************************)
(* Proofs about the event logs, for any topics, payloads, callers,         *)
(* replayers, channel capacity and largest offset: the Pebble log keeps    *)
(* what it acknowledged through every interleaving and crash, and it and   *)
(* the in-memory log implement EventLog.                                   *)
(***************************************************************************)
EXTENDS EventLogBackend, FiniteSetTheorems, SequenceTheorems, TLAPS

-----------------------------------------------------------------------------
(* The Pebble log: its lock *)

\* Whoever is past Announce is the writer, and nobody is anywhere in a process
\* that is not running.
LockHeld ==
  /\ \A c \in Callers : call[c].pc \in {"announced", "staged", "committed"} => writer = c
  /\ ~up => /\ \A c \in Callers : call[c] = IdleCall
            /\ \A r \in Replayers : rep[r] = IdleRep

LockInv == TypeOK /\ LockHeld /\ WriterExcludes

\* A fresh process has the lock free and everyone idle.
LEMMA LockInit == Init => LockInv
<1> SUFFICES ASSUME Init PROVE LockInv
  OBVIOUS
<1>1. \A s \in {db, disk} : DOMAIN s.ev = Topics /\ s.next \in [Topics -> Nat]
  BY DEF Init, EmptyStore
<1>2. call \in [Callers -> CallStates] /\ rep \in [Replayers -> RepStates]
  BY DEF Init, IdleCall, IdleRep, CallStates, RepStates
<1>3. Readers = {}
  BY DEF Init, Readers, IdleRep
<1>4. TypeOK
  BY <1>1, <1>2, <1>3 DEF Init, TypeOK
<1>5. LockHeld /\ WriterExcludes
  BY DEF Init, LockHeld, WriterExcludes, IdleCall
<1> QED BY <1>4, <1>5 DEF LockInv

\* What a caller's steps change, apart from the two stores.
LEMMA LockStep ==
  ASSUME LockInv, WellKeyed(db), [Next]_vars
  PROVE  LockInv'
<1> USE NoCallerAssumption, ReplayBufAssumption
<1>1. CASE UNCHANGED vars
  BY <1>1 DEF vars, LockInv, TypeOK, LockHeld, WriterExcludes, Readers
<1>2. ASSUME NEW c \in Callers, NEW t \in Topics, NEW p \in Payloads, AppendCall(c, t, p)
      PROVE  LockInv'
  <2>1. call' \in [Callers -> CallStates]
    BY <1>2 DEF AppendCall, LockInv, TypeOK, CallStates
  <2>2. TypeOK'
    BY <1>2, <2>1 DEF AppendCall, LockInv, TypeOK, Readers
  <2>3. LockHeld' /\ WriterExcludes'
    BY <1>2 DEF AppendCall, LockInv, TypeOK, LockHeld, WriterExcludes, Readers, IdleCall
  <2> QED BY <2>2, <2>3 DEF LockInv
<1>3. ASSUME NEW c \in Callers, CloseCall(c)
      PROVE  LockInv'
  <2>1. call' \in [Callers -> CallStates]
    BY <1>3 DEF CloseCall, LockInv, TypeOK, CallStates
  <2>2. TypeOK'
    BY <1>3, <2>1 DEF CloseCall, LockInv, TypeOK, Readers
  <2>3. LockHeld' /\ WriterExcludes'
    BY <1>3 DEF CloseCall, LockInv, TypeOK, LockHeld, WriterExcludes, Readers, IdleCall
  <2> QED BY <2>2, <2>3 DEF LockInv
<1>4. ASSUME NEW c \in Callers, Announce(c)
      PROVE  LockInv'
  <2>1. call' \in [Callers -> CallStates]
    BY <1>4 DEF Announce, LockInv, TypeOK, CallStates, IdleCall
  <2>2. TypeOK'
    BY <1>4, <2>1 DEF Announce, LockInv, TypeOK, Readers
  <2>3. LockHeld' /\ WriterExcludes'
    BY <1>4 DEF Announce, LockInv, TypeOK, LockHeld, WriterExcludes, Readers, IdleCall
  <2> QED BY <2>2, <2>3 DEF LockInv
<1>5. ASSUME NEW c \in Callers, AppendStage(c)
      PROVE  LockInv'
  <2>1. call' \in [Callers -> CallStates]
    BY <1>5 DEF AppendStage, CanAppend, EndOffset, Event, Events, LockInv, TypeOK, CallStates, IdleCall
  <2>2. TypeOK'
    BY <1>5, <2>1 DEF AppendStage, LockInv, TypeOK, Readers
  <2>3. LockHeld' /\ WriterExcludes'
    BY <1>5 DEF AppendStage, CanAppend, LockInv, TypeOK, LockHeld, WriterExcludes, Readers, IdleCall
  <2> QED BY <2>2, <2>3 DEF LockInv
<1>6. ASSUME NEW c \in Callers, Return(c), call[c].pc \in {"announced", "staged", "committed"},
             UNCHANGED <<db, disk, up, rep>>, closed' \in BOOLEAN,
             \A a \in acked' : a.topic \in Topics /\ a.event \in Events
      PROVE  LockInv'
  <2>1. call' \in [Callers -> CallStates]
    BY <1>6 DEF Return, LockInv, TypeOK, CallStates
  <2>2. TypeOK'
    BY <1>6, <2>1 DEF Return, LockInv, TypeOK, Readers
  <2>3. LockHeld' /\ WriterExcludes'
    BY <1>6 DEF Return, LockInv, TypeOK, LockHeld, WriterExcludes, Readers, IdleCall
  <2> QED BY <2>2, <2>3 DEF LockInv
<1>7. ASSUME NEW c \in Callers,
             AppendReject(c) \/ AppendReturn(c) \/ AppendCommitError(c) \/ CloseLocked(c)
      PROVE  LockInv'
  <2>1. CASE AppendReturn(c)
    <3>1. call[c].topic \in Topics /\ call[c].event \in Events
      BY <2>1 DEF AppendReturn, LockInv, TypeOK, CallStates, IdleCall
    <3> QED BY <1>6, <2>1, <3>1 DEF AppendReturn, LockInv, TypeOK
  <2> QED BY <1>6, <1>7, <2>1 DEF AppendReject, AppendCommitError, CloseLocked, LockInv, TypeOK
<1>8. ASSUME NEW c \in Callers, AppendCommit(c)
      PROVE  LockInv'
  <2>1. call[c].topic \in Topics /\ call[c].event \in Events
    BY <1>8 DEF AppendCommit, LockInv, TypeOK, CallStates, IdleCall
  <2>2. \A s \in {db', disk'} : DOMAIN s.ev = Topics /\ s.next \in [Topics -> Nat]
    BY <1>8, <2>1 DEF AppendCommit, Staged, Apply, LockInv, TypeOK, Events
  <2>3. call' \in [Callers -> CallStates]
    BY <1>8 DEF AppendCommit, LockInv, TypeOK, CallStates, IdleCall
  <2>4. TypeOK'
    BY <1>8, <2>2, <2>3 DEF AppendCommit, LockInv, TypeOK, Readers
  <2>5. LockHeld' /\ WriterExcludes'
    BY <1>8 DEF AppendCommit, LockInv, TypeOK, LockHeld, WriterExcludes, Readers, IdleCall
  <2> QED BY <2>4, <2>5 DEF LockInv
<1>9. ASSUME NEW r \in Replayers, NEW t \in Topics, NEW s \in 0 .. MaxOffset, ReplayCall(r, t, s)
      PROVE  LockInv'
  <2>1. rep' \in [Replayers -> RepStates]
    BY <1>9 DEF ReplayCall, LockInv, TypeOK, RepStates
  <2>2. Readers' = Readers
    BY <1>9 DEF ReplayCall, LockInv, TypeOK, Readers
  <2>3. TypeOK'
    BY <1>9, <2>1, <2>2 DEF ReplayCall, LockInv, TypeOK, Readers
  <2>4. LockHeld' /\ WriterExcludes'
    BY <1>9, <2>2 DEF ReplayCall, LockInv, TypeOK, LockHeld, WriterExcludes
  <2> QED BY <2>3, <2>4 DEF LockInv
<1>10. ASSUME NEW r \in Replayers, ReplayLock(r)
       PROVE  LockInv'
  <2>1. rep[r].topic \in Topics /\ rep[r].start \in Nat
    BY <1>10 DEF ReplayLock, LockInv, TypeOK, RepStates, IdleRep
  <2>2. rep' \in [Replayers -> RepStates] /\ rep'[r].buf = 0
    BY <1>10, <2>1 DEF ReplayLock, LockInv, TypeOK, RepStates
  <2>3. TypeOK'
    BY <1>10, <2>2 DEF ReplayLock, LockInv, TypeOK, Readers
  <2>4. \A c \in Callers : call[c].pc \notin {"announced", "staged", "committed"}
    BY <1>10 DEF ReplayLock, LockInv, LockHeld
  <2>5. LockHeld' /\ WriterExcludes'
    BY <1>10, <2>4 DEF ReplayLock, LockInv, TypeOK, LockHeld, WriterExcludes, IdleRep
  <2> QED BY <2>3, <2>5 DEF LockInv
<1>11. ASSUME NEW r \in Replayers, ReplayReject(r) \/ ReplayDone(r) \/ ReplayCancel(r)
       PROVE  LockInv'
  <2>1. rep' = [rep EXCEPT ![r] = IdleRep] /\ UNCHANGED <<db, disk, up, closed, writer, call, acked>>
    BY <1>11 DEF ReplayReject, ReplayDone, ReplayCancel
  <2>2. rep' \in [Replayers -> RepStates] /\ Readers' \subseteq Readers
    BY <2>1 DEF LockInv, TypeOK, RepStates, Readers, IdleRep
  <2>3. TypeOK'
    <3>1. \A q \in Readers' : q \in Readers /\ rep'[q] = rep[q]
      BY <2>1, <2>2 DEF LockInv, TypeOK, Readers, IdleRep
    <3> QED BY <2>1, <2>2, <3>1 DEF LockInv, TypeOK
  <2>4. LockHeld' /\ WriterExcludes'
    BY <2>1, <2>2 DEF LockInv, TypeOK, LockHeld, WriterExcludes
  <2> QED BY <2>3, <2>4 DEF LockInv
<1>12. ASSUME NEW r \in Replayers, ReplaySend(r) \/ ReplayReceive(r)
       PROVE  LockInv'
  <2> DEFINE Iter == [pc : {"iter"}, topic : Topics, start : Nat, sent : Seq(Events), buf : Nat]
  <2>0. rep[r].pc = "iter" /\ UNCHANGED <<db, disk, up, closed, writer, call, acked>>
    BY <1>12 DEF ReplaySend, ReplayReceive
  <2>1. rep[r] \in Iter /\ rep[r].buf <= ReplayBuf
    BY <2>0 DEF LockInv, TypeOK, RepStates, IdleRep, Readers
  <2>2. \E new \in Iter : new.buf <= ReplayBuf /\ rep' = [rep EXCEPT ![r] = new]
    <3>1. CASE ReplayReceive(r)
      <4> DEFINE new == [rep[r] EXCEPT !.buf = @ - 1]
      <4>1. new \in Iter /\ new.buf <= ReplayBuf
        BY <2>1, <3>1 DEF ReplayReceive
      <4>2. rep' = [rep EXCEPT ![r] = new]
        BY <3>1 DEF ReplayReceive
      <4> QED BY <4>1, <4>2
    <3>2. CASE ReplaySend(r)
      <4>1. PICK o \in Ahead(r) :
              rep' = [rep EXCEPT ![r].sent = Append(@, db.ev[rep[r].topic][o]), ![r].buf = @ + 1]
        BY <3>2 DEF ReplaySend
      <4> DEFINE e == db.ev[rep[r].topic][o]
                 more == Append(rep[r].sent, e)
                 mid == [rep[r] EXCEPT !.sent = more]
                 new == [mid EXCEPT !.buf = rep[r].buf + 1]
      <4>2. e \in Events
        BY <2>1 DEF Ahead, WellKeyed
      <4>3. new \in Iter /\ new.buf <= ReplayBuf
        <5>1. rep[r].buf < ReplayBuf
          BY <3>2 DEF ReplaySend
        <5> HIDE DEF e
        <5>2. more \in Seq(Events)
          BY <2>1, <4>2
        <5> HIDE DEF more
        <5>3. rep[r].buf \in Nat /\ rep[r].buf + 1 <= ReplayBuf
          BY <2>1, <5>1
        <5>4. mid \in Iter
          BY <2>1, <5>2
        <5> HIDE DEF mid
        <5> QED BY <5>3, <5>4
      <4>4. rep' = [rep EXCEPT ![r] = new]
        BY <4>1
      <4> QED BY <4>3, <4>4
    <3> QED BY <1>12, <3>1, <3>2
  <2>3. PICK new \in Iter : new.buf <= ReplayBuf /\ rep' = [rep EXCEPT ![r] = new]
    BY <2>2
  <2>4. rep' \in [Replayers -> RepStates] /\ Readers' = Readers
    BY <2>0, <2>3 DEF LockInv, TypeOK, RepStates, Readers
  <2>5. \A q \in Readers : rep'[q].buf <= ReplayBuf
    BY <2>3 DEF LockInv, TypeOK
  <2>6. TypeOK'
    BY <2>0, <2>4, <2>5 DEF LockInv, TypeOK
  <2>7. up
    BY <2>0 DEF LockInv, TypeOK, LockHeld, IdleRep
  <2>8. LockHeld' /\ WriterExcludes'
    BY <2>0, <2>4, <2>7 DEF LockInv, LockHeld, WriterExcludes
  <2> QED BY <2>6, <2>8 DEF LockInv
<1>13. CASE Crash
  <2>1. call' \in [Callers -> CallStates] /\ rep' \in [Replayers -> RepStates] /\ Readers' = {}
    BY <1>13 DEF Crash, CallStates, RepStates, IdleCall, IdleRep, Readers
  <2>2. TypeOK'
    BY <1>13, <2>1 DEF Crash, LockInv, TypeOK
  <2>3. LockHeld' /\ WriterExcludes'
    BY <1>13 DEF Crash, LockHeld, WriterExcludes, IdleCall
  <2> QED BY <2>2, <2>3 DEF LockInv
<1>14. CASE NewPebbleEventLog
  BY <1>14 DEF NewPebbleEventLog, LockInv, TypeOK, LockHeld, WriterExcludes, Readers, IdleCall
<1> QED BY <1>1, <1>2, <1>3, <1>4, <1>5, <1>7, <1>8, <1>9, <1>10, <1>11, <1>12, <1>13, <1>14
        DEF Next, WriterStep, ReplayStep

-----------------------------------------------------------------------------
(* The Pebble log: its keys *)

\* What is staged goes to the end of its topic; what is committed is there.
CallsInStep ==
  \A c \in Callers :
    /\ call[c].pc = "staged" => /\ call[c].event.offset = db.next[call[c].topic]
                                /\ call[c].event.offset <= MaxOffset
    /\ call[c].pc = "committed" =>
         /\ call[c].event.offset \in DOMAIN db.ev[call[c].topic]
         /\ db.ev[call[c].topic][call[c].event.offset] = call[c].event

\* A replay has sent a gapless run of offsets from its start.
RunsGapless ==
  \A r \in Readers : \A i \in DOMAIN rep[r].sent : rep[r].sent[i].offset = rep[r].start + i - 1

OffsetsBounded == \A t \in Topics : db.next[t] <= MaxOffset + 1

StoreInv == db = disk /\ WellKeyed(db) /\ OffsetsBounded /\ CallsInStep /\ AckedDurable

StartsBounded == \A r \in Replayers : rep[r].pc = "queued" => rep[r].start \in 0 .. MaxOffset

PebbleInv == LockInv /\ StoreInv /\ RunsGapless /\ StartsBounded

\* A committed batch keeps the keys in step, adds one key at the end of its
\* topic and leaves the events of all others as they were.
CommitsAt(t, e) ==
  /\ t \in Topics /\ e \in Events /\ disk' = db' /\ WellKeyed(db')
  /\ \A x \in Topics :
       /\ x # t => db'.ev[x] = db.ev[x]
       /\ \A o \in DOMAIN db.ev[x] : o \in DOMAIN db'.ev[x] /\ db'.ev[x][o] = db.ev[x][o]
  /\ e.offset \in DOMAIN db'.ev[t] /\ db'.ev[t][e.offset] = e
  /\ e.offset = db.next[t] /\ db'.next = [db.next EXCEPT ![t] = @ + 1]

\* The batch of an AppendCommit goes to the end of its topic: the offset stamped
\* under the lock is still the topic's end when the batch is committed.
LEMMA CommitAtEnd ==
  ASSUME LockInv, StoreInv, NEW c \in Callers, AppendCommit(c)
  PROVE  CommitsAt(call[c].topic, call[c].event)
<1>t. PICK t, e : t = call[c].topic /\ e = call[c].event
  OBVIOUS
<1>n. PICK n : n = e.offset
  OBVIOUS
<1> SUFFICES CommitsAt(t, e)
  BY <1>t
<1>a. t \in Topics /\ e \in Events
  BY <1>t DEF AppendCommit, LockInv, TypeOK, CallStates, IdleCall
<1>b. n = db.next[t] /\ db' = Apply(db, t, n, e) /\ disk' = db'
  BY <1>t, <1>n DEF AppendCommit, Staged, StoreInv, CallsInStep
<1>c. DOMAIN db.ev = Topics /\ db.next \in [Topics -> Nat] /\ WellKeyed(db)
  BY DEF LockInv, TypeOK, StoreInv
<1>0. n \in Nat
  BY <1>a, <1>n DEF Events
<1>1. DOMAIN db.ev[t] = 0 .. n - 1 /\ n \notin DOMAIN db.ev[t]
  BY <1>0, <1>a, <1>b, <1>c DEF WellKeyed
<1>2. db'.ev[t] = [o \in DOMAIN db.ev[t] \cup {n} |-> IF o = n THEN e ELSE db.ev[t][o]]
  BY <1>a, <1>b, <1>c DEF Apply, Put
<1>3. \A x \in Topics : x # t => db'.ev[x] = db.ev[x]
  BY <1>b, <1>c DEF Apply
<1>4. db'.next = [db.next EXCEPT ![t] = n + 1] /\ db'.next[t] = n + 1
  BY <1>a, <1>b, <1>c DEF Apply
<1>5. DOMAIN db'.ev[t] = 0 .. n
  BY <1>0, <1>1, <1>2
<1>7. \A x \in Topics : \A o \in DOMAIN db.ev[x] : o \in DOMAIN db'.ev[x] /\ db'.ev[x][o] = db.ev[x][o]
  <2>1. \A o \in DOMAIN db.ev[t] : o # n /\ o \in DOMAIN db'.ev[t] /\ db'.ev[t][o] = db.ev[t][o]
    BY <1>1, <1>2
  <2> QED BY <1>3, <2>1
<1>6. WellKeyed(db')
  <2> SUFFICES ASSUME NEW x \in Topics
               PROVE  /\ DOMAIN db'.ev[x] = 0 .. db'.next[x] - 1
                      /\ \A o \in DOMAIN db'.ev[x] : db'.ev[x][o] \in Events /\ db'.ev[x][o].offset = o
    BY DEF WellKeyed
  <2>1. CASE x = t
    <3>1. DOMAIN db'.ev[t] = 0 .. db'.next[t] - 1
      BY <1>0, <1>4, <1>5
    <3>2. \A o \in DOMAIN db.ev[t] : o # n /\ db'.ev[t][o] \in Events /\ db'.ev[t][o].offset = o
      <4>1. \A o \in DOMAIN db.ev[t] : db.ev[t][o] \in Events /\ db.ev[t][o].offset = o
        BY <1>a, <1>c DEF WellKeyed
      <4> QED BY <1>a, <1>1, <1>7, <4>1
    <3>3. db'.ev[t][n] = e /\ DOMAIN db'.ev[t] = DOMAIN db.ev[t] \cup {n}
      BY <1>2
    <3> QED BY <1>a, <1>n, <2>1, <3>1, <3>2, <3>3
  <2>2. CASE x # t
    BY <1>c, <1>3, <1>4, <2>2 DEF WellKeyed
  <2> QED BY <2>1, <2>2
<1> QED BY <1>n, <1>a, <1>b, <1>0, <1>2, <1>3, <1>4, <1>6, <1>7 DEF CommitsAt

\* Steps that leave the stores as they are and stage, commit or acknowledge
\* nothing new.
LEMMA StoresKept ==
  ASSUME StoreInv, UNCHANGED <<db, disk, acked>>,
         \A c \in Callers : call'[c] = call[c] \/ call'[c].pc \notin {"staged", "committed"}
  PROVE  StoreInv'
BY DEF StoreInv, CallsInStep, AckedDurable, WellKeyed, OffsetsBounded

\* Both keys of a topic move together, in the process and on disk.
LEMMA StoreStep ==
  ASSUME LockInv, StoreInv, [Next]_vars
  PROVE  StoreInv'
<1>1. CASE UNCHANGED vars
  BY <1>1, StoresKept DEF vars
<1>2. ASSUME NEW c \in Callers, AppendStage(c)
      PROVE  StoreInv'
  <2>1. call[c].topic \in Topics /\ call[c].payload \in Payloads /\ db.next[call[c].topic] \in Nat
    BY <1>2 DEF AppendStage, LockInv, TypeOK, CallStates, IdleCall
  <2>2. CallsInStep'
    BY <1>2, <2>1 DEF AppendStage, CanAppend, EndOffset, Event, LockInv, TypeOK, StoreInv, CallsInStep
  <2> QED BY <1>2, <2>2 DEF AppendStage, StoreInv, AckedDurable, WellKeyed, OffsetsBounded
<1>3. ASSUME NEW c \in Callers, AppendCommit(c)
      PROVE  StoreInv'
  <2> DEFINE t == call[c].topic
             e == call[c].event
  <2>4. CommitsAt(t, e)
    BY <1>3, CommitAtEnd
  <2>5. CallsInStep'
    <3>1. call' = [call EXCEPT ![c].pc = "committed"]
      BY <1>3 DEF AppendCommit
    <3>2. \A d \in Callers : d # c => call[d].pc \notin {"staged", "committed"} /\ call'[d] = call[d]
      BY <1>3, <3>1 DEF AppendCommit, LockInv, LockHeld, TypeOK
    <3>3. call'[c].pc = "committed" /\ call'[c].topic = t /\ call'[c].event = e
      BY <1>3, <3>1 DEF AppendCommit, LockInv, TypeOK, CallStates, IdleCall
    <3> QED BY <2>4, <3>2, <3>3 DEF CommitsAt, CallsInStep
  <2>6. AckedDurable'
    <3>1. acked' = acked /\ \A a \in acked : a.topic \in Topics
      BY <1>3 DEF AppendCommit, LockInv, TypeOK
    <3>2. \A a \in acked : /\ a.event.offset \in DOMAIN db.ev[a.topic]
                          /\ db.ev[a.topic][a.event.offset] = a.event
      BY DEF StoreInv, AckedDurable
    <3> QED BY <2>4, <3>1, <3>2 DEF CommitsAt, AckedDurable
  <2>7. OffsetsBounded'
    <3>1. e.offset <= MaxOffset /\ e.offset \in Nat
      BY <1>3, <2>4 DEF AppendCommit, StoreInv, CallsInStep, CommitsAt, Events
    <3>2. db.next \in [Topics -> Nat]
      BY DEF LockInv, TypeOK
    <3> HIDE DEF t, e
    <3> QED BY <2>4, <3>1, <3>2, MaxOffsetAssumption DEF CommitsAt, StoreInv, OffsetsBounded
  <2> QED BY <2>4, <2>5, <2>6, <2>7 DEF CommitsAt, StoreInv, WellKeyed
<1>4. ASSUME NEW c \in Callers, AppendReturn(c)
      PROVE  StoreInv'
  <2>1. call[c].event.offset \in DOMAIN db.ev[call[c].topic]
        /\ db.ev[call[c].topic][call[c].event.offset] = call[c].event
    BY <1>4 DEF AppendReturn, StoreInv, CallsInStep
  <2>2. AckedDurable'
    BY <1>4, <2>1 DEF AppendReturn, StoreInv, AckedDurable
  <2>3. CallsInStep'
    BY <1>4 DEF AppendReturn, Return, IdleCall, LockInv, TypeOK, StoreInv, CallsInStep
  <2> QED BY <1>4, <2>2, <2>3 DEF AppendReturn, StoreInv, WellKeyed, OffsetsBounded
<1>5. CASE Crash
  <2>1. db' = db /\ disk' = disk /\ acked' = acked
    BY <1>5 DEF Crash, StoreInv
  <2>2. \A c \in Callers : call'[c].pc \notin {"staged", "committed"}
    BY <1>5 DEF Crash, IdleCall
  <2> QED BY <2>1, <2>2, StoresKept
<1>6. ASSUME NEW c \in Callers, \/ \E t \in Topics, p \in Payloads : AppendCall(c, t, p)
                                \/ CloseCall(c) \/ Announce(c) \/ AppendReject(c)
                                \/ AppendCommitError(c) \/ CloseLocked(c)
      PROVE  StoreInv'
  <2>1. UNCHANGED <<db, disk, acked>>
    BY <1>6 DEF AppendCall, CloseCall, Announce, AppendReject, AppendCommitError, CloseLocked
  <2>2. \A d \in Callers : call'[d] = call[d] \/ call'[d].pc \notin {"staged", "committed"}
    <3>1. CASE Announce(c)
      BY <3>1 DEF Announce, LockInv, TypeOK, CallStates, IdleCall
    <3>2. CASE \E t \in Topics, p \in Payloads : AppendCall(c, t, p)
      BY <3>2 DEF AppendCall, LockInv, TypeOK
    <3>3. CASE CloseCall(c)
      BY <3>3 DEF CloseCall, LockInv, TypeOK
    <3>4. CASE AppendReject(c) \/ AppendCommitError(c) \/ CloseLocked(c)
      BY <3>4 DEF AppendReject, AppendCommitError, CloseLocked, Return, IdleCall, LockInv, TypeOK
    <3> QED BY <1>6, <3>1, <3>2, <3>3, <3>4
  <2> QED BY <2>1, <2>2, StoresKept
<1>7. ASSUME NEW r \in Replayers, \/ \E t \in Topics, s \in 0 .. MaxOffset : ReplayCall(r, t, s)
                                  \/ ReplayStep(r) \/ ReplayReceive(r) \/ ReplayCancel(r)
      PROVE  StoreInv'
  BY <1>7, StoresKept DEF ReplayCall, ReplayStep, ReplayLock, ReplayReject, ReplaySend, ReplayDone,
                          ReplayReceive, ReplayCancel
<1>8. CASE NewPebbleEventLog
  BY <1>8, StoresKept DEF NewPebbleEventLog
<1> QED BY <1>1, <1>2, <1>3, <1>4, <1>5, <1>6, <1>7, <1>8 DEF Next, WriterStep

\* A replay sends its topic's next key, which is the one after the last it sent.
LEMMA SendsNext ==
  ASSUME LockInv, WellKeyed(db), RunsGapless, NEW r \in Replayers, ReplaySend(r)
  PROVE  LET t == rep[r].topic
             o == rep[r].start + Len(rep[r].sent)
         IN  /\ t \in Topics /\ o \in Nat /\ o < db.next[t] /\ db.ev[t][o].offset = o
             /\ rep' = [rep EXCEPT ![r].sent = Append(@, db.ev[t][o]), ![r].buf = @ + 1]
<1>1. PICK t, o, n : t = rep[r].topic /\ n = Len(rep[r].sent) /\ o = rep[r].start + n
  OBVIOUS
<1>2. t \in Topics /\ rep[r].start \in Nat /\ rep[r].sent \in Seq(Events) /\ r \in Readers
  BY <1>1 DEF ReplaySend, LockInv, TypeOK, RepStates, IdleRep, Readers
<1>3. n \in Nat /\ DOMAIN rep[r].sent = 1 .. n /\ o \in Nat
  BY <1>1, <1>2
<1>4. Ahead(r) = {x \in DOMAIN db.ev[t] : x >= o}
  <2>1. CASE rep[r].sent = <<>>
    <3>1. n = 0
      BY <1>1, <2>1
    <3>2. DOMAIN db.ev[t] \subseteq Nat
      BY <1>2 DEF WellKeyed, LockInv, TypeOK
    <3> QED BY <1>1, <1>2, <2>1, <3>1, <3>2 DEF Ahead
  <2>2. CASE rep[r].sent # <<>>
    <3>1. n > 0 /\ rep[r].sent[n].offset = rep[r].start + n - 1
      BY <1>1, <1>2, <1>3, <2>2 DEF RunsGapless
    <3>2. DOMAIN db.ev[t] \subseteq Nat
      BY <1>2 DEF WellKeyed, LockInv, TypeOK
    <3>3. rep[r].sent[Len(rep[r].sent)].offset = o - 1
      BY <1>1, <1>2, <1>3, <3>1
    <3>4. Ahead(r) = {x \in DOMAIN db.ev[t] : x > o - 1}
      BY <1>1, <2>2, <3>3 DEF Ahead
    <3> QED BY <1>3, <3>2, <3>4
  <2> QED BY <2>1, <2>2
<1>5. PICK y \in Ahead(r) :
        /\ \A x \in Ahead(r) : y <= x
        /\ rep' = [rep EXCEPT ![r].sent = Append(@, db.ev[rep[r].topic][y]), ![r].buf = @ + 1]
  BY DEF ReplaySend
<1>6. db.next[t] \in Nat /\ DOMAIN db.ev[t] = 0 .. db.next[t] - 1
  BY <1>2 DEF WellKeyed, LockInv, TypeOK
<1>7. o \in DOMAIN db.ev[t] /\ o < db.next[t]
  BY <1>3, <1>4, <1>5, <1>6
<1>8. y = o
  BY <1>3, <1>4, <1>5, <1>6, <1>7
<1>9. db.ev[t][o].offset = o
  BY <1>2, <1>7 DEF WellKeyed
<1> QED BY <1>1, <1>2, <1>3, <1>5, <1>7, <1>8, <1>9

\* What a replay has sent is a gapless run from its start offset.
LEMMA RunsStep ==
  ASSUME LockInv, StoreInv, RunsGapless, [Next]_vars
  PROVE  RunsGapless'
<1>1. ASSUME \A r \in Readers' : r \in Readers /\ rep'[r].sent = rep[r].sent /\ rep'[r].start = rep[r].start
      PROVE  RunsGapless'
  BY <1>1 DEF RunsGapless
<1>2. ASSUME NEW r \in Replayers, ReplaySend(r)
      PROVE  RunsGapless'
  <2> DEFINE t == rep[r].topic
             n == Len(rep[r].sent)
             o == rep[r].start + n
             e == db.ev[t][o]
  <2>1. e.offset = o /\ rep' = [rep EXCEPT ![r].sent = Append(@, e), ![r].buf = @ + 1]
    BY <1>2, SendsNext DEF StoreInv
  <2>2. rep[r].start \in Nat /\ rep[r].sent \in Seq(Events) /\ r \in Readers
    BY <1>2 DEF ReplaySend, LockInv, TypeOK, RepStates, IdleRep, Readers
  <2>3. rep'[r].sent = Append(rep[r].sent, e) /\ rep'[r].start = rep[r].start
    BY <2>1, <2>2 DEF LockInv, TypeOK
  <2>4. \A q \in Replayers : q # r => rep'[q] = rep[q]
    BY <2>1 DEF LockInv, TypeOK
  <2>5. \A i \in DOMAIN rep'[r].sent : rep'[r].sent[i].offset = rep'[r].start + i - 1
    <3>1. \A i \in DOMAIN rep[r].sent : rep[r].sent[i].offset = rep[r].start + i - 1
      BY <2>2 DEF RunsGapless
    <3> SUFFICES ASSUME NEW i \in DOMAIN rep'[r].sent
                 PROVE  rep'[r].sent[i].offset = rep'[r].start + i - 1
      OBVIOUS
    <3> HIDE DEF e
    <3>2. n \in Nat /\ DOMAIN rep[r].sent = 1 .. n /\ i \in 1 .. n + 1
      BY <2>2, <2>3
    <3>3. rep'[r].sent[i] = IF i = n + 1 THEN e ELSE rep[r].sent[i]
      BY <2>2, <2>3, <3>2
    <3>4. CASE i = n + 1
      BY <2>1, <2>2, <2>3, <3>2, <3>3, <3>4
    <3>5. CASE i # n + 1
      BY <2>3, <3>1, <3>2, <3>3, <3>5
    <3> QED BY <3>4, <3>5
  <2> QED BY <2>4, <2>5 DEF RunsGapless, Readers
<1>3. ASSUME NEW r \in Replayers,
             \/ \E t \in Topics, s \in 0 .. MaxOffset : ReplayCall(r, t, s)
             \/ ReplayLock(r) \/ ReplayReject(r) \/ ReplayDone(r) \/ ReplayReceive(r) \/ ReplayCancel(r)
      PROVE  RunsGapless'
  <2>1. CASE ReplayLock(r)
    BY <2>1 DEF ReplayLock, RunsGapless, Readers, LockInv, TypeOK
  <2>2. CASE ReplayReceive(r)
    <3>1. rep[r].pc = "iter" /\ rep' = [rep EXCEPT ![r].buf = @ - 1]
      BY <2>2 DEF ReplayReceive
    <3>2. rep[r] \in [pc : {"iter"}, topic : Topics, start : Nat, sent : Seq(Events), buf : Nat]
      BY <3>1 DEF LockInv, TypeOK, RepStates, IdleRep
    <3> QED BY <1>1, <3>1, <3>2 DEF LockInv, TypeOK, Readers
  <2>3. CASE \E t \in Topics, s \in 0 .. MaxOffset : ReplayCall(r, t, s)
    BY <1>1, <2>3 DEF ReplayCall, LockInv, TypeOK, Readers
  <2>4. CASE ReplayReject(r) \/ ReplayDone(r) \/ ReplayCancel(r)
    <3>1. rep' = [rep EXCEPT ![r] = IdleRep]
      BY <2>4 DEF ReplayReject, ReplayDone, ReplayCancel
    <3> QED BY <1>1, <3>1 DEF LockInv, TypeOK, Readers, IdleRep
  <2> QED BY <1>3, <2>1, <2>2, <2>3, <2>4
<1>4. CASE Crash
  BY <1>4 DEF Crash, RunsGapless, Readers, IdleRep
<1>5. CASE UNCHANGED rep
  BY <1>1, <1>5 DEF Readers
<1>6. ASSUME NEW c \in Callers, \/ \E t \in Topics, p \in Payloads : AppendCall(c, t, p)
                                \/ CloseCall(c) \/ WriterStep(c)
      PROVE  UNCHANGED rep
  BY <1>6 DEF AppendCall, CloseCall, WriterStep, Announce, AppendStage, AppendReject, AppendCommit,
              AppendReturn, AppendCommitError, CloseLocked
<1> QED BY <1>2, <1>3, <1>4, <1>5, <1>6 DEF Next, ReplayStep, NewPebbleEventLog, vars

\* No replay starts beyond the largest offset.
LEMMA StartsStep ==
  ASSUME LockInv, StartsBounded, [Next]_vars
  PROVE  StartsBounded'
<1>1. ASSUME \A r \in Replayers : rep'[r] = rep[r] \/ rep'[r].pc # "queued"
      PROVE  StartsBounded'
  BY <1>1 DEF StartsBounded
<1>2. ASSUME NEW r \in Replayers, NEW t \in Topics, NEW s \in 0 .. MaxOffset, ReplayCall(r, t, s)
      PROVE  StartsBounded'
  BY <1>2 DEF ReplayCall, StartsBounded, LockInv, TypeOK
<1>3. ASSUME NEW r \in Replayers, ReplayStep(r) \/ ReplayReceive(r) \/ ReplayCancel(r)
      PROVE  StartsBounded'
  <2>1. CASE ReplayReject(r) \/ ReplayDone(r) \/ ReplayCancel(r)
    <3>1. rep' = [rep EXCEPT ![r] = IdleRep]
      BY <2>1 DEF ReplayReject, ReplayDone, ReplayCancel
    <3> QED BY <1>1, <3>1 DEF LockInv, TypeOK, IdleRep
  <2>2. CASE ReplayLock(r)
    BY <1>1, <2>2 DEF ReplayLock, LockInv, TypeOK
  <2>3. CASE ReplaySend(r) \/ ReplayReceive(r)
    <3>1. rep[r].pc = "iter"
      BY <2>3 DEF ReplaySend, ReplayReceive
    <3>2. rep[r] \in [pc : {"iter"}, topic : Topics, start : Nat, sent : Seq(Events), buf : Nat]
      BY <3>1 DEF LockInv, TypeOK, RepStates, IdleRep
    <3>3. rep'[r].pc = "iter" /\ \A x \in Replayers : x # r => rep'[x] = rep[x]
      <4>1. CASE ReplayReceive(r)
        BY <3>2, <4>1 DEF ReplayReceive, LockInv, TypeOK
      <4>2. CASE ReplaySend(r)
        <5>1. PICK o : rep' = [rep EXCEPT ![r].sent = Append(@, db.ev[rep[r].topic][o]), ![r].buf = @ + 1]
          BY <4>2 DEF ReplaySend
        <5> QED BY <3>2, <5>1 DEF LockInv, TypeOK
      <4> QED BY <2>3, <4>1, <4>2
    <3> QED BY <1>1, <3>3
  <2> QED BY <1>3, <2>1, <2>2, <2>3 DEF ReplayStep
<1>4. CASE Crash
  BY <1>4 DEF Crash, StartsBounded, IdleRep
<1>5. ASSUME NEW c \in Callers, \/ \E t \in Topics, p \in Payloads : AppendCall(c, t, p)
                                \/ CloseCall(c) \/ WriterStep(c)
      PROVE  UNCHANGED rep
  BY <1>5 DEF AppendCall, CloseCall, WriterStep, Announce, AppendStage, AppendReject, AppendCommit,
              AppendReturn, AppendCommitError, CloseLocked
<1> QED BY <1>1, <1>2, <1>3, <1>4, <1>5 DEF Next, NewPebbleEventLog, vars

\* The inductive invariant of the Pebble log holds throughout.
LEMMA PebbleInvAlways == Spec => []PebbleInv
<1>1. Init => PebbleInv
  <2> SUFFICES ASSUME Init PROVE PebbleInv
    OBVIOUS
  <2>1. db = disk /\ \A t \in Topics : db.ev[t] = [o \in {} |-> 0] /\ db.next[t] = 0
    BY DEF Init, EmptyStore
  <2>2. WellKeyed(db) /\ OffsetsBounded
    BY <2>1, MaxOffsetAssumption DEF WellKeyed, OffsetsBounded
  <2>3. CallsInStep /\ AckedDurable /\ RunsGapless /\ StartsBounded
    BY DEF Init, CallsInStep, AckedDurable, RunsGapless, StartsBounded, Readers, IdleCall, IdleRep
  <2> QED BY <2>1, <2>2, <2>3, LockInit DEF PebbleInv, StoreInv
<1>2. PebbleInv /\ [Next]_vars => PebbleInv'
  BY LockStep, StoreStep, RunsStep, StartsStep DEF PebbleInv, StoreInv
<1> QED BY <1>1, <1>2, PTL DEF Spec

-----------------------------------------------------------------------------
(* Reading *)

\* How many events from s on a read of at most n gets.
RunLength(t, s, n) ==
  IF s + n < db.next[t] THEN n ELSE IF s < db.next[t] THEN db.next[t] - s ELSE 0

\* readEventsLocked: what the seek and the count come to when the keys are in step.
LEMMA ReadIsRun ==
  ASSUME PebbleInv, NEW t \in Topics, NEW s \in Nat, NEW n \in Nat
  PROVE  /\ ReadEvents(db, t, s, n) = [i \in 1 .. RunLength(t, s, n) |-> db.ev[t][s + i - 1]]
         /\ RunLength(t, s, n) \in Nat
<1>0. PICK size : /\ size = RunLength(t, s, n)
                  /\ size = IF s + n < db.next[t] THEN n
                            ELSE IF s < db.next[t] THEN db.next[t] - s ELSE 0
  BY DEF RunLength
<1> DEFINE keys == {o \in DOMAIN db.ev[t] : o >= s}
           below(o) == {x \in keys : x < o}
           nth(i) == CHOOSE o \in keys : Cardinality(below(o)) = i - 1
           m == db.next[t]
           count == IF Cardinality(keys) < n THEN Cardinality(keys) ELSE n
<1>1. m \in Nat /\ DOMAIN db.ev[t] = 0 .. m - 1
  BY DEF PebbleInv, LockInv, TypeOK, StoreInv, WellKeyed
<1>2. keys = s .. m - 1
  BY <1>1
<1>3. Cardinality(keys) = IF s < m THEN m - s ELSE 0
  <2>1. Cardinality(s .. m - 1) = IF s > m - 1 THEN 0 ELSE (m - 1) - s + 1
    <3>1. m - 1 \in Int /\ s \in Int
      BY <1>1
    <3> HIDE DEF m
    <3> QED BY <3>1, FS_Interval
  <2> HIDE DEF keys, m
  <2> QED BY <1>1, <1>2, <2>1
<1>4. \A o \in keys : Cardinality(below(o)) = o - s
  <2> SUFFICES ASSUME NEW o \in keys PROVE Cardinality(below(o)) = o - s
    OBVIOUS
  <2>1. o \in Nat /\ o >= s /\ o < m
    BY <1>1, <1>2
  <2>2. below(o) = s .. o - 1
    BY <1>1, <1>2, <2>1
  <2>3. Cardinality(s .. o - 1) = IF s > o - 1 THEN 0 ELSE (o - 1) - s + 1
    BY <2>1, FS_Interval
  <2> HIDE DEF keys, below, m
  <2> QED BY <2>1, <2>2, <2>3
<1>5. count = size /\ size \in Nat
  BY <1>0, <1>1, <1>3
<1>a. size > 0 => s + size <= m
  BY <1>0, <1>1
<1>6. \A i \in 1 .. size : nth(i) = s + i - 1
  <2> SUFFICES ASSUME NEW i \in 1 .. size PROVE nth(i) = s + i - 1
    OBVIOUS
  <2>1. s + i - 1 \in keys
    BY <1>1, <1>2, <1>5, <1>a
  <2>2. \A o \in keys : Cardinality(below(o)) = i - 1 <=> o = s + i - 1
    <3> SUFFICES ASSUME NEW o \in keys PROVE Cardinality(below(o)) = i - 1 <=> o = s + i - 1
      OBVIOUS
    <3>1. Cardinality(below(o)) = o - s /\ o \in Nat
      BY <1>1, <1>2, <1>4
    <3> QED BY <1>5, <3>1
  <2> HIDE DEF keys, below
  <2> QED BY <2>1, <2>2
<1>7. ReadEvents(db, t, s, n) = [i \in 1 .. count |-> db.ev[t][nth(i)]]
  BY DEF ReadEvents
<1> HIDE DEF nth, count
<1>8. ReadEvents(db, t, s, n) = [i \in 1 .. size |-> db.ev[t][s + i - 1]]
  BY <1>5, <1>6, <1>7
<1> QED BY <1>0, <1>5, <1>8

\* While the keys are in step, a bounded scan returns the run that was asked for.
LEMMA InvRuns == PebbleInv => RunsAgree
<1> SUFFICES ASSUME PebbleInv, NEW t \in Topics, NEW s \in 0 .. MaxOffset + 1, NEW n \in 0 .. MaxOffset + 2
             PROVE  ReadEvents(db, t, s, n) =
                      SubSeq(LogOf(db, t), s + 1, IF s + n < db.next[t] THEN s + n ELSE db.next[t])
  BY DEF RunsAgree
<1>1. s \in Nat /\ n \in Nat /\ MaxOffset + 2 \in Nat
  BY MaxOffsetAssumption
<1>2. PICK m, L : m = db.next[t] /\ L = LogOf(db, t)
  OBVIOUS
<1>3. m \in Nat /\ m <= MaxOffset + 1 /\ DOMAIN db.ev[t] = 0 .. m - 1
      /\ \A o \in 0 .. m - 1 : db.ev[t][o] \in Events
  BY <1>2 DEF PebbleInv, LockInv, TypeOK, StoreInv, WellKeyed, OffsetsBounded
<1>4. L = [i \in 1 .. m |-> db.ev[t][i - 1]]
  BY <1>2 DEF LogOf
<1>5. ReadEvents(db, t, s, n) = SubSeq(L, s + 1, IF s + n < m THEN s + n ELSE m)
  <2>1. PICK size, end : /\ size = IF s + n < m THEN n ELSE IF s < m THEN m - s ELSE 0
                         /\ end = IF s + n < m THEN s + n ELSE m
    OBVIOUS
  <2>2. ReadEvents(db, t, s, n) = [i \in 1 .. size |-> db.ev[t][s + i - 1]] /\ size \in Nat
    <3>1. size = RunLength(t, s, n)
      BY <1>2, <2>1 DEF RunLength
    <3> QED BY <1>1, <3>1, ReadIsRun
  <2>3. /\ SubSeq(L, s + 1, end) \in Seq(Events)
        /\ Len(SubSeq(L, s + 1, end)) = IF s + 1 <= end THEN end - (s + 1) + 1 ELSE 0
        /\ \A i \in 1 .. end - (s + 1) + 1 : SubSeq(L, s + 1, end)[i] = L[(s + 1) + i - 1]
    <3>1. s + 1 \in Int /\ end \in Int
      BY <1>1, <1>3, <2>1
    <3>2. \A i \in s + 1 .. end : L[i] \in Events
      BY <1>1, <1>3, <1>4, <2>1
    <3> QED BY <3>1, <3>2, SubSeqProperties
  <2>4. PICK q : q = SubSeq(L, s + 1, end)
    OBVIOUS
  <2>5. q \in Seq(Events) /\ Len(q) = size
    BY <1>1, <1>3, <2>1, <2>3, <2>4
  <2>6. \A i \in 1 .. size : q[i] = db.ev[t][s + i - 1]
    <3> SUFFICES ASSUME NEW i \in 1 .. size PROVE q[i] = db.ev[t][s + i - 1]
      OBVIOUS
    <3>1. i \in 1 .. end - (s + 1) + 1 /\ s + i \in 1 .. m
      BY <1>1, <1>3, <2>1
    <3>2. q[i] = L[(s + 1) + i - 1] /\ (s + 1) + i - 1 = s + i
      BY <1>1, <2>3, <2>4, <3>1
    <3> QED BY <1>4, <3>1, <3>2
  <2>7. q = [i \in 1 .. size |-> db.ev[t][s + i - 1]]
    BY <2>5, <2>6
  <2> QED BY <2>1, <2>2, <2>4, <2>7
<1> QED BY <1>2, <1>5

\* All of a topic is within reach of one read, and as long as its offset key says.
LEMMA ReadableLength ==
  ASSUME PebbleInv, NEW t \in Topics
  PROVE  /\ Len(Readable(t)) = db.next[t]
         /\ Readable(t) = <<>> <=> db.next[t] = 0
         /\ db.next[t] \in Nat /\ db.next[t] <= MaxOffset + 1
<1>2. PICK m : m = db.next[t]
  OBVIOUS
<1>3. m \in Nat /\ m <= MaxOffset + 1
  BY <1>2 DEF PebbleInv, LockInv, TypeOK, StoreInv, OffsetsBounded
<1>4. PICK z, k : z = 0 /\ k = MaxOffset + 2
  OBVIOUS
<1>5. z \in Nat /\ k \in Nat
  BY <1>4, MaxOffsetAssumption
<1>6. RunLength(t, z, k) = m
  BY <1>2, <1>3, <1>4, MaxOffsetAssumption DEF RunLength
<1>7. ReadEvents(db, t, z, k) = [i \in 1 .. RunLength(t, z, k) |-> db.ev[t][z + i - 1]]
  BY <1>5, ReadIsRun
<1>8. Readable(t) = [i \in 1 .. m |-> db.ev[t][z + i - 1]]
  BY <1>4, <1>6, <1>7 DEF Readable
<1>9. Len(Readable(t)) = m
  BY <1>3, <1>8
<1>10. Readable(t) = <<>> <=> m = 0
  BY <1>3, <1>8
<1> QED BY <1>2, <1>3, <1>9, <1>10

\* The statistics fail on a full topic and otherwise count what can be read.
LEMMA InvStatistics == PebbleInv => StatisticsAgree
<1> SUFFICES ASSUME PebbleInv PROVE StatisticsAgree
  OBVIOUS
<1>1. \A t \in Topics : /\ Len(Readable(t)) = db.next[t]
                        /\ Readable(t) = <<>> <=> db.next[t] = 0
                        /\ db.next[t] \in Nat /\ db.next[t] <= MaxOffset + 1
  BY ReadableLength
<1>2. \A t \in Topics : Overflows(db, t) <=> Len(Readable(t)) = MaxOffset + 1
  BY <1>1, MaxOffsetAssumption DEF Overflows, EndOffset
<1>3. CASE \E t \in Topics : Len(Readable(t)) = MaxOffset + 1
  <2>1. GetStatistics(db) = StatisticsError
    BY <1>2, <1>3 DEF GetStatistics
  <2> QED BY <1>3, <2>1 DEF StatisticsAgree, StatisticsError
<1>4. CASE ~ \E t \in Topics : Len(Readable(t)) = MaxOffset + 1
  <2>1. PICK S : S = {u \in Topics : db.next[u] > 0}
    OBVIOUS
  <2>2. GetStatistics(db) = [ok |-> TRUE, counts |-> [t \in S |-> db.next[t]]]
    BY <1>2, <1>4, <2>1 DEF GetStatistics, EndOffset
  <2>3. S = {t \in Topics : Readable(t) # <<>>}
    BY <1>1, <2>1
  <2>4. GetStatistics(db).ok /\ GetStatistics(db).counts = [t \in S |-> db.next[t]]
    BY <2>2
  <2>5. DOMAIN GetStatistics(db).counts = S /\ \A t \in S : GetStatistics(db).counts[t] = Len(Readable(t))
    BY <1>1, <2>1, <2>4
  <2> QED BY <1>4, <2>3, <2>4, <2>5 DEF StatisticsAgree
<1> QED BY <1>3, <1>4

-----------------------------------------------------------------------------
(* The Pebble log implements EventLog *)

\* A committed batch appends to the log the store stands for.
LEMMA CommitExtends ==
  ASSUME PebbleInv, NEW c \in Callers, AppendCommit(c)
  PROVE  \E t \in Topics, p \in Payloads : Abs!AbsAppend(t, p)
<1>1. PICK t, e : t = call[c].topic /\ e = call[c].event
  OBVIOUS
<1>2. CommitsAt(t, e)
  BY <1>1, CommitAtEnd DEF PebbleInv
<1>3. e \in Events /\ e = Event(e.offset, e.payload) /\ e.payload \in Payloads /\ t \in Topics
  BY <1>2 DEF CommitsAt, Event, Events
<1>4. PICK m : m = db.next[t]
  OBVIOUS
<1>5. m \in Nat /\ e.offset = m /\ m <= MaxOffset /\ db.next \in [Topics -> Nat]
  BY <1>1, <1>2, <1>4 DEF CommitsAt, AppendCommit, PebbleInv, LockInv, TypeOK, StoreInv, CallsInStep
<1>6. WellKeyed(db) /\ WellKeyed(db')
  BY <1>2 DEF CommitsAt, PebbleInv, StoreInv
<1>7. \A x \in Topics : x # t => LogOf(db, x)' = LogOf(db, x)
  BY <1>2, <1>5 DEF CommitsAt, LogOf
<1>8. LogOf(db, t) = [i \in 1 .. m |-> db.ev[t][i - 1]]
  BY <1>4 DEF LogOf
<1>9. LogOf(db, t)' = [i \in 1 .. m + 1 |-> db'.ev[t][i - 1]]
  BY <1>2, <1>3, <1>4, <1>5 DEF CommitsAt, LogOf
<1>10. LogOf(db, t) \in Seq(Events) /\ Len(LogOf(db, t)) = m
  <2>1. \A i \in 1 .. m : db.ev[t][i - 1] \in Events
    BY <1>3, <1>4, <1>5, <1>6 DEF WellKeyed
  <2> QED BY <1>5, <1>8, <2>1
<1>11. LogOf(db, t)' = Append(LogOf(db, t), e)
  <2>1. \A i \in 1 .. m : db'.ev[t][i - 1] = db.ev[t][i - 1]
    BY <1>2, <1>3, <1>4, <1>5, <1>6 DEF WellKeyed, CommitsAt
  <2>2. db'.ev[t][m] = e
    BY <1>2, <1>5 DEF CommitsAt
  <2> QED BY <1>3, <1>5, <1>8, <1>9, <1>10, <2>1, <2>2
<1>12. up /\ ~closed /\ Readers = {} /\ UNCHANGED <<up, closed, rep>>
  BY DEF AppendCommit, PebbleInv, LockInv, WriterExcludes
<1>13. \A r \in Replayers : rep[r].pc # "iter"
  BY <1>12 DEF Readers
<1>14. Abs!AbsAppend(t, e.payload)
  BY <1>3, <1>5, <1>7, <1>10, <1>11, <1>12, <1>13 DEF Abs!AbsAppend, Abs!Event, Event
<1> QED BY <1>3, <1>14

\* A replay that another step did not touch, or only its channel's fill.
SameRun(r) ==
  rep[r].pc = "iter" /\ rep'[r].topic = rep[r].topic /\ rep'[r].start = rep[r].start
    /\ rep'[r].sent = rep[r].sent

\* Steps that leave the store alone and give replays up, or change none.
LEMMA StopsReplays ==
  ASSUME UNCHANGED db, \A r \in Replayers : rep'[r].pc # "iter" \/ SameRun(r)
  PROVE  Abs!AbsNext
<1>1. PICK T : T = {r \in Replayers : rep'[r].pc # "iter"}
  OBVIOUS
<1>2. T \in SUBSET Replayers
  BY <1>1
<1>3. Abs!AbsReplayStop(T)
  BY <1>1 DEF Abs!AbsReplayStop, Abs!NoReplay, LogOf, SameRun
<1>4. \E X \in SUBSET Replayers : Abs!AbsReplayStop(X)
  BY ONLY <1>2, <1>3
<1> QED BY <1>4 DEF Abs!AbsNext

\* The iterator is created: the abstract replay starts.
LEMMA LockStarts ==
  ASSUME PebbleInv, NEW r \in Replayers, ReplayLock(r)
  PROVE  Abs!AbsNext
<1>1. PICK t, s : t = rep[r].topic /\ s = rep[r].start
  OBVIOUS
<1>2. t \in Topics /\ s \in 0 .. MaxOffset /\ up
  BY <1>1 DEF ReplayLock, PebbleInv, LockInv, LockHeld, TypeOK, RepStates, StartsBounded, IdleRep
<1>3. ~closed /\ rep[r].pc = "queued" /\ UNCHANGED <<db, up, closed>>
      /\ rep' = [rep EXCEPT ![r] = [pc |-> "iter", topic |-> t, start |-> s, sent |-> <<>>, buf |-> 0]]
  BY <1>1 DEF ReplayLock
<1>4. Len(LogOf(db, t)) = db.next[t]
  BY <1>2 DEF LogOf, PebbleInv, LockInv, TypeOK
<1>5. Abs!AbsReplayStart(r, t, s)
  BY <1>2, <1>3, <1>4 DEF Abs!AbsReplayStart, Abs!NoReplay, Abs!Replay, LogOf, PebbleInv, LockInv, TypeOK
<1> QED BY <1>2, <1>5 DEF Abs!AbsNext, Abs!Offsets

\* The iterator's next event is the abstract replay's.
LEMMA SendSends ==
  ASSUME PebbleInv, NEW r \in Replayers, ReplaySend(r)
  PROVE  Abs!AbsNext
<1>1. PICK t, q, o, e : t = rep[r].topic /\ q = rep[r].sent /\ o = rep[r].start + Len(q) /\ e = db.ev[t][o]
  OBVIOUS
<1>2. /\ t \in Topics /\ o \in Nat /\ o < db.next[t]
      /\ rep' = [rep EXCEPT ![r].sent = Append(@, e), ![r].buf = @ + 1]
  BY <1>1, SendsNext DEF PebbleInv, StoreInv
<1>3. rep[r].pc = "iter" /\ UNCHANGED <<db, up, closed>>
  BY DEF ReplaySend
<1>4. rep[r] \in [pc : {"iter"}, topic : Topics, start : Nat, sent : Seq(Events), buf : Nat]
  BY <1>3 DEF PebbleInv, LockInv, TypeOK, RepStates, IdleRep
<1>5. LogOf(db, t)[o + 1] = e /\ db.next[t] \in Nat
  BY <1>1, <1>2 DEF LogOf, PebbleInv, LockInv, TypeOK
<1>6. rep'[r].pc = "iter" /\ rep'[r].topic = t /\ rep'[r].start = rep[r].start /\ rep'[r].sent = Append(q, e)
      /\ \A x \in Replayers : x # r => rep'[x] = rep[x]
  BY <1>1, <1>2, <1>4 DEF PebbleInv, LockInv, TypeOK
<1>7. Abs!AbsReplaySend(r)
  <2> DEFINE Run(x) == IF rep[x].pc = "iter"
                       THEN [on |-> TRUE, topic |-> rep[x].topic, start |-> rep[x].start,
                             end |-> db.next[rep[x].topic], sent |-> rep[x].sent]
                       ELSE [on |-> FALSE]
  <2>1. Run(r) = [on |-> TRUE, topic |-> t, start |-> rep[r].start, end |-> db.next[t], sent |-> q]
    BY <1>1, <1>3
  <2>2. Run(r)' = [on |-> TRUE, topic |-> t, start |-> rep[r].start, end |-> db.next[t], sent |-> Append(q, e)]
    BY <1>3, <1>6
  <2>3. \A x \in Replayers : x # r => Run(x)' = Run(x)
    BY <1>3, <1>6
  <2>4. PICK f, g, L : /\ f = [x \in Replayers |-> Run(x)] /\ g = [x \in Replayers |-> Run(x)]'
                       /\ L = [x \in Topics |-> LogOf(db, x)]
    OBVIOUS
  <2>5. /\ f[r] = [on |-> TRUE, topic |-> t, start |-> rep[r].start, end |-> db.next[t], sent |-> q]
        /\ g[r] = [on |-> TRUE, topic |-> t, start |-> rep[r].start, end |-> db.next[t],
                   sent |-> Append(q, e)]
        /\ \A x \in Replayers : x # r => g[x] = f[x]
        /\ DOMAIN f = Replayers /\ DOMAIN g = Replayers
    BY <2>1, <2>2, <2>3, <2>4
  <2>6. e = L[f[r].topic][f[r].start + Len(q) + 1] /\ L' = L
    BY <1>1, <1>2, <1>4, <1>5, <2>4, <2>5
  <2>7. g = [f EXCEPT ![r].sent = Append(@, L[f[r].topic][f[r].start + Len(@) + 1])]
    <3>1. [f[r] EXCEPT !.sent = Append(q, e)] = g[r]
      <4>1. PICK st, en : st = rep[r].start /\ en = db.next[t]
        OBVIOUS
      <4>2. f[r] \in [on : {TRUE}, topic : {t}, start : {st}, end : {en}, sent : {q}]
        BY <2>5, <4>1
      <4>3. [f[r] EXCEPT !.sent = Append(q, e)]
              \in [on : {TRUE}, topic : {t}, start : {st}, end : {en}, sent : {Append(q, e)}]
        BY <4>2
      <4>4. PICK y, z : z = Append(q, e) /\ y = [f[r] EXCEPT !.sent = Append(q, e)]
        OBVIOUS
      <4>5. y \in [on : {TRUE}, topic : {t}, start : {st}, end : {en}, sent : {z}]
        BY <4>3, <4>4
      <4>6. y = [on |-> TRUE, topic |-> t, start |-> st, end |-> en, sent |-> z]
        BY ONLY <4>5
      <4> QED BY <2>5, <4>1, <4>4, <4>6
    <3>2. f = [x \in Replayers |-> f[x]] /\ g = [x \in Replayers |-> g[x]]
      BY <2>4
    <3>3. g = [f EXCEPT ![r] = [f[r] EXCEPT !.sent = Append(q, e)]]
      BY <2>5, <3>1, <3>2
    <3> QED BY <2>5, <2>6, <3>3
  <2>8. f[r].on /\ f[r].start + Len(f[r].sent) < f[r].end
    BY <1>1, <1>2, <2>5
  <2>9. UNCHANGED <<[x \in Topics |-> LogOf(db, x)], up /\ ~closed>>
    BY <1>3 DEF LogOf
  <2> QED BY <2>4, <2>7, <2>8, <2>9 DEF Abs!AbsReplaySend
<1> QED BY <1>7 DEF Abs!AbsNext

\* Every step of the Pebble log is a step of the contract or leaves its state
\* alone: a commit is the append, a replay's sends are its sends.
LEMMA PebbleStepImplements ==
  ASSUME PebbleInv, [Next]_vars
  PROVE  [Abs!AbsNext]_Abs!absVars
<1>1. CASE UNCHANGED vars
  BY <1>1 DEF vars, Abs!absVars, LogOf
<1>2. ASSUME UNCHANGED <<db, rep>> PROVE Abs!AbsNext
  BY <1>2, StopsReplays DEF SameRun
<1>3. ASSUME NEW c \in Callers, \/ \E t \in Topics, p \in Payloads : AppendCall(c, t, p)
                                \/ CloseCall(c) \/ WriterStep(c)
      PROVE  Abs!AbsNext
  <2>1. CASE AppendCommit(c)
    BY <2>1, CommitExtends DEF Abs!AbsNext
  <2> QED BY <1>2, <1>3, <2>1 DEF AppendCall, CloseCall, WriterStep, Announce, AppendStage, AppendReject,
                                  AppendReturn, AppendCommitError, CloseLocked
<1>4. ASSUME NEW r \in Replayers, NEW t \in Topics, NEW s \in 0 .. MaxOffset, ReplayCall(r, t, s)
      PROVE  Abs!AbsNext
  BY <1>4, StopsReplays DEF ReplayCall, SameRun, PebbleInv, LockInv, TypeOK
<1>5. ASSUME NEW r \in Replayers, ReplayReject(r) \/ ReplayDone(r) \/ ReplayCancel(r)
      PROVE  Abs!AbsNext
  <2>1. rep' = [rep EXCEPT ![r] = IdleRep] /\ UNCHANGED db
    BY <1>5 DEF ReplayReject, ReplayDone, ReplayCancel
  <2> QED BY <2>1, StopsReplays DEF SameRun, IdleRep, PebbleInv, LockInv, TypeOK
<1>6. ASSUME NEW r \in Replayers, ReplayReceive(r)
      PROVE  Abs!AbsNext
  <2>1. rep[r].pc = "iter" /\ rep' = [rep EXCEPT ![r].buf = @ - 1] /\ UNCHANGED db
    BY <1>6 DEF ReplayReceive
  <2>2. rep[r] \in [pc : {"iter"}, topic : Topics, start : Nat, sent : Seq(Events), buf : Nat]
    BY <2>1 DEF PebbleInv, LockInv, TypeOK, RepStates, IdleRep
  <2> QED BY <2>1, <2>2, StopsReplays DEF SameRun, PebbleInv, LockInv, TypeOK
<1>7. CASE Crash
  BY <1>7, StopsReplays DEF Crash, IdleRep, PebbleInv, StoreInv
<1>8. CASE NewPebbleEventLog
  BY <1>2, <1>8 DEF NewPebbleEventLog
<1> QED BY <1>1, <1>3, <1>4, <1>5, <1>6, <1>7, <1>8, LockStarts, SendSends DEF Next, ReplayStep

-----------------------------------------------------------------------------
(* Theorems about the Pebble log *)

\* pebble.go: the store's maps, calls and replays keep their shape, and a
\* replay's channel never holds more than its capacity.
THEOREM PebbleTypes == Spec => []TypeOK
<1>1. PebbleInv => TypeOK
  BY DEF PebbleInv, LockInv
<1> QED BY <1>1, PebbleInvAlways, PTL

\* AppendEvent's batch: a topic has exactly the event keys below its offset
\* key, each with the event stamped with that offset, through every
\* interleaving of callers and replays, and after every crash.
THEOREM PebbleKeys == Spec => []KeysInStep
<1>1. PebbleInv => KeysInStep
  BY DEF PebbleInv, StoreInv, KeysInStep
<1> QED BY <1>1, PebbleInvAlways, PTL

\* An event AppendEvent has returned is in the store, at its offset, for ever.
THEOREM PebbleDurable == Spec => []AckedDurable
<1>1. PebbleInv => AckedDurable
  BY DEF PebbleInv, StoreInv
<1> QED BY <1>1, PebbleInvAlways, PTL

\* From stamping an event to returning it a caller has the lock to itself.
THEOREM PebbleExclusive == Spec => []WriterExcludes
<1>1. PebbleInv => WriterExcludes
  BY DEF PebbleInv, LockInv
<1> QED BY <1>1, PebbleInvAlways, PTL

\* ReadEvents returns the run of the topic that was asked for, and GetStatistics
\* fails exactly when a topic is full and otherwise counts what can be read.
THEOREM PebbleReads == Spec => []ReadAgrees
<1>1. PebbleInv => ReadAgrees
  BY InvRuns, InvStatistics DEF ReadAgrees
<1> QED BY <1>1, PebbleInvAlways, PTL

\* The Pebble log implements the contract of pkg/eventlog.
THEOREM PebbleRefines == Spec => RefinesEventLog
<1>1. Init => Abs!AbsInit
  BY DEF Init, Abs!AbsInit, Abs!NoReplay, EmptyStore, LogOf, IdleRep
<1>2. PebbleInv /\ [Next]_vars => [Abs!AbsNext]_Abs!absVars
  BY PebbleStepImplements
<1> QED BY <1>1, <1>2, PebbleInvAlways, PTL DEF Spec, RefinesEventLog, Abs!AbsSpec
-----------------------------------------------------------------------------
(* The in-memory log: the counter of a topic is the length of its slice, and *)
(* a replay's copy is a prefix of the slice it was taken from, which is what *)
(* keeps a run sent from the copy a run of the topic.                        *)

MemRepStates ==
  {Mem!IdleRep}
    \cup [pc : {"called"}, topic : MemTopics, start : 0 .. MaxOffset]
    \cup [pc : {"sending"}, topic : MemTopics, start : 0 .. MaxOffset, copy : Seq(Events),
          i : Nat, sent : Seq(Events), buf : Nat]

MemTypes ==
  /\ memEvents \in [MemTopics -> Seq(Events)]
  /\ memNextOffset \in [MemTopics -> Nat]
  /\ memClosed \in BOOLEAN
  /\ memRep \in [Replayers -> MemRepStates]

\* Both maps of a topic describe one log.
MapsAgree ==
  \A t \in MemTopics :
    /\ memNextOffset[t] = Len(memEvents[t])
    /\ \A k \in 1 .. Len(memEvents[t]) : memEvents[t][k].offset = k - 1

\* The copy r sends from is what the topic's slice was, and still begins with.
CopyHolds(r) ==
  LET m == memRep[r]
  IN  /\ m.i = m.start + Len(m.sent)
      /\ Len(m.copy) <= Len(memEvents[m.topic])
      /\ \A k \in 1 .. Len(m.copy) : m.copy[k] = memEvents[m.topic][k]

CopiesArePrefixes == \A r \in Replayers : memRep[r].pc = "sending" => CopyHolds(r)

MemInv == MemTypes /\ MapsAgree /\ CopiesArePrefixes

\* An append extends the one topic; copies under replay stay prefixes of it.
LEMMA MemAppendKeeps ==
  ASSUME MemInv, NEW t \in MemTopics, NEW p \in Payloads, Mem!AppendEvent(t, p)
  PROVE  MemInv'
<1> USE DEF MemInv
<1>1. PICK q, e : q = memEvents[t] /\ e = Event(Len(q), p)
  OBVIOUS
<1>2. q \in Seq(Events) /\ Len(q) \in Nat /\ e \in Events /\ e.offset = Len(q)
  <2>1. q \in Seq(Events) /\ Len(q) \in Nat
    BY <1>1 DEF MemTypes
  <2> QED BY <1>1, <2>1 DEF Event, Events
<1>3. /\ memEvents' = [memEvents EXCEPT ![t] = Append(q, e)]
      /\ memNextOffset' = [memNextOffset EXCEPT ![t] = Len(q) + 1]
      /\ UNCHANGED <<memClosed, memRep>>
  BY <1>1 DEF Mem!AppendEvent, Mem!Event, Event, MemTypes, MapsAgree
<1>4. MemTypes'
  BY <1>2, <1>3 DEF MemTypes
<1>5. /\ Len(Append(q, e)) = Len(q) + 1
      /\ \A k \in 1 .. Len(q) : Append(q, e)[k] = q[k]
      /\ Append(q, e)[Len(q) + 1] = e
  BY <1>2
<1>6. MapsAgree'
  BY <1>1, <1>2, <1>3, <1>5 DEF MapsAgree, MemTypes
<1>7. ASSUME NEW r \in Replayers, memRep'[r].pc = "sending"
      PROVE  CopyHolds(r)'
  <2>1. memRep[r].pc = "sending" /\ CopyHolds(r)
    BY <1>3, <1>7 DEF CopiesArePrefixes
  <2>2. memRep[r].topic \in MemTopics /\ memRep[r].copy \in Seq(Events)
    BY <2>1 DEF MemTypes, MemRepStates, Mem!IdleRep
  <2> QED BY <1>1, <1>2, <1>3, <1>5, <2>1, <2>2 DEF CopyHolds, MemTypes
<1> QED BY <1>4, <1>6, <1>7 DEF CopiesArePrefixes

\* A step of a replay: the slices stay, and what r has become still holds.
LEMMA MemReplayKeeps ==
  ASSUME MemInv, NEW r \in Replayers, UNCHANGED <<memEvents, memNextOffset, memClosed>>,
         NEW m \in MemRepStates, memRep' = [memRep EXCEPT ![r] = m],
         m.pc = "sending" => CopyHolds(r)'
  PROVE  MemInv'
BY DEF MemInv, MemTypes, MapsAgree, CopiesArePrefixes, CopyHolds

\* What a send leaves of the replay.
MemSends(r) ==
  \E m \in [pc : {"sending"}, topic : MemTopics, start : 0 .. MaxOffset, copy : Seq(Events),
            i : Nat, sent : Seq(Events), buf : Nat] :
    LET e == memRep[r].copy[memRep[r].i + 1]
    IN  /\ memRep' = [memRep EXCEPT ![r] = m]
        /\ m.topic = memRep[r].topic /\ m.start = memRep[r].start /\ m.copy = memRep[r].copy
        /\ m.sent = Append(memRep[r].sent, e) /\ m.i = memRep[r].i + 1

\* What a replay's send does to its record.
LEMMA MemSendLeaves ==
  ASSUME MemInv, NEW r \in Replayers, Mem!ReplaySend(r)
  PROVE  MemSends(r)
<1> DEFINE Sending == [pc : {"sending"}, topic : MemTopics, start : 0 .. MaxOffset,
                       copy : Seq(Events), i : Nat, sent : Seq(Events), buf : Nat]
<1>1. PICK m, e : m = memRep[r] /\ e = m.copy[m.i + 1]
  OBVIOUS
<1>2. m \in Sending
  BY <1>1 DEF MemInv, MemTypes, MemRepStates, Mem!IdleRep, Mem!ReplaySend
<1>3. e \in Events
  BY <1>1, <1>2 DEF Mem!ReplaySend
<1>4. PICK q, m1 : q = Append(m.sent, e) /\ m1 = [m EXCEPT !.sent = q]
  OBVIOUS
<1>5. m1 \in Sending /\ m1.topic = m.topic /\ m1.start = m.start /\ m1.copy = m.copy /\ m1.i = m.i
      /\ m1.sent = Append(m.sent, e) /\ m1.buf = m.buf
  <2>1. q \in Seq(Events)
    BY <1>2, <1>3, <1>4
  <2> QED BY <1>2, <1>4, <2>1
<1>6. PICK m2 : m2 = [m1 EXCEPT !.i = @ + 1]
  OBVIOUS
<1>7. m2 \in Sending /\ m2.topic = m.topic /\ m2.start = m.start /\ m2.copy = m.copy
      /\ m2.sent = Append(m.sent, e) /\ m2.i = m.i + 1 /\ m2.buf = m.buf
  BY <1>5, <1>6
<1>8. PICK m3 : m3 = [m2 EXCEPT !.buf = @ + 1]
  OBVIOUS
<1>9. m3 \in Sending /\ m3.topic = m.topic /\ m3.start = m.start /\ m3.copy = m.copy
      /\ m3.sent = Append(m.sent, e) /\ m3.i = m.i + 1
  BY <1>7, <1>8
<1>10. memRep' = [memRep EXCEPT ![r] = m3]
  BY <1>1, <1>4, <1>6, <1>8 DEF Mem!ReplaySend
<1> QED BY <1>1, <1>9, <1>10 DEF MemSends

\* MemInv is inductive.
LEMMA MemStep ==
  ASSUME MemInv, [Mem!Next]_(Mem!vars)
  PROVE  MemInv'
<1>1. CASE UNCHANGED Mem!vars
  BY <1>1 DEF Mem!vars, MemInv, MemTypes, MapsAgree, CopiesArePrefixes, CopyHolds
<1>2. CASE Mem!Close
  BY <1>2 DEF Mem!Close, MemInv, MemTypes, MapsAgree, CopiesArePrefixes, CopyHolds
<1>3. ASSUME NEW r \in Replayers, NEW t \in MemTopics, NEW s \in 0 .. MaxOffset,
             Mem!ReplayCall(r, t, s)
      PROVE  MemInv'
  <2>1. PICK m : m = [pc |-> "called", topic |-> t, start |-> s]
    OBVIOUS
  <2>2. m \in MemRepStates /\ m.pc # "sending"
    BY <2>1 DEF MemRepStates
  <2> QED BY <1>3, <2>1, <2>2, MemReplayKeeps DEF Mem!ReplayCall
<1>4. ASSUME NEW r \in Replayers, Mem!ReplayCopy(r)
      PROVE  MemInv'
  <2>1. PICK t, s, q : t = memRep[r].topic /\ s = memRep[r].start /\ q = memEvents[t]
    OBVIOUS
  <2>2. t \in MemTopics /\ s \in 0 .. MaxOffset /\ q \in Seq(Events)
    BY <1>4, <2>1 DEF Mem!ReplayCopy, MemInv, MemTypes, MemRepStates, Mem!IdleRep
  <2>3. PICK m : m = [pc |-> "sending", topic |-> t, start |-> s, copy |-> q, i |-> s, sent |-> <<>>,
                      buf |-> 0]
    OBVIOUS
  <2>4. m \in MemRepStates
    BY <2>2, <2>3, MaxOffsetAssumption DEF MemRepStates
  <2>5. memRep' = [memRep EXCEPT ![r] = m] /\ UNCHANGED <<memEvents, memNextOffset, memClosed>>
    BY <1>4, <2>1, <2>3 DEF Mem!ReplayCopy
  <2>6. memRep'[r] = m
    BY <2>5 DEF MemInv, MemTypes
  <2>7. CopyHolds(r)'
    BY <2>1, <2>2, <2>3, <2>5, <2>6 DEF CopyHolds
  <2> QED BY <2>4, <2>5, <2>7, MemReplayKeeps
<1>5. ASSUME NEW r \in Replayers, Mem!ReplayReject(r) \/ Mem!ReplayDone(r)
      PROVE  MemInv'
  <2>1. PICK m : m = Mem!IdleRep
    OBVIOUS
  <2>2. m \in MemRepStates /\ m.pc # "sending"
    BY <2>1 DEF MemRepStates, Mem!IdleRep
  <2> QED BY <1>5, <2>1, <2>2, MemReplayKeeps DEF Mem!ReplayReject, Mem!ReplayDone
<1>6. ASSUME NEW r \in Replayers, Mem!ReplaySend(r)
      PROVE  MemInv'
  <2>1. PICK m \in [pc : {"sending"}, topic : MemTopics, start : 0 .. MaxOffset, copy : Seq(Events),
                    i : Nat, sent : Seq(Events), buf : Nat] :
          /\ memRep' = [memRep EXCEPT ![r] = m]
          /\ m.topic = memRep[r].topic /\ m.start = memRep[r].start /\ m.copy = memRep[r].copy
          /\ m.sent = Append(memRep[r].sent, memRep[r].copy[memRep[r].i + 1])
          /\ m.i = memRep[r].i + 1
    BY <1>6, MemSendLeaves DEF MemSends
  <2>2. memRep'[r] = m /\ m \in MemRepStates
    BY <2>1 DEF MemInv, MemTypes, MemRepStates
  <2>3. memRep[r].pc = "sending" /\ CopyHolds(r) /\ UNCHANGED <<memEvents, memNextOffset, memClosed>>
    BY <1>6 DEF Mem!ReplaySend, MemInv, CopiesArePrefixes
  <2>4. memRep[r].sent \in Seq(Events) /\ memRep[r].start \in Nat
    BY <2>3, MaxOffsetAssumption DEF MemInv, MemTypes, MemRepStates, Mem!IdleRep
  <2>5. PICK e : e = memRep[r].copy[memRep[r].i + 1]
    OBVIOUS
  <2>6. Len(Append(memRep[r].sent, e)) = Len(memRep[r].sent) + 1
    BY <2>4
  <2>7. /\ memRep[r].i = memRep[r].start + Len(memRep[r].sent)
        /\ Len(m.copy) <= Len(memEvents[m.topic])
        /\ \A k \in 1 .. Len(m.copy) : m.copy[k] = memEvents[m.topic][k]
    BY <2>1, <2>3 DEF CopyHolds
  <2>8. CopyHolds(r)'
    <3>1. m.i = m.start + Len(m.sent)
      <4>1. m.sent = Append(memRep[r].sent, e) /\ m.i = memRep[r].i + 1 /\ m.start = memRep[r].start
        BY <2>1, <2>5
      <4>2. Len(memRep[r].sent) \in Nat
        BY <2>4
      <4>3. PICK a, b, c : a = Len(memRep[r].sent) /\ b = memRep[r].start /\ c = memRep[r].i
        OBVIOUS
      <4>4. a \in Nat /\ b \in Nat /\ c = b + a
        BY <2>4, <2>7, <4>2, <4>3
      <4>5. Len(m.sent) = a + 1 /\ m.i = c + 1 /\ m.start = b
        BY <2>6, <4>1, <4>3
      <4> QED BY <4>4, <4>5
    <3> QED BY <2>2, <2>3, <2>7, <3>1 DEF CopyHolds
  <2> QED BY <2>1, <2>2, <2>3, <2>8, MemReplayKeeps
<1>7. ASSUME NEW r \in Replayers, Mem!ReplayReceive(r)
      PROVE  MemInv'
  <2>1. PICK m, n : m = memRep[r] /\ n = [m EXCEPT !.buf = @ - 1]
    OBVIOUS
  <2>2. m \in [pc : {"sending"}, topic : MemTopics, start : 0 .. MaxOffset, copy : Seq(Events),
               i : Nat, sent : Seq(Events), buf : Nat] /\ m.buf > 0
    BY <1>7, <2>1 DEF Mem!ReplayReceive, MemInv, MemTypes, MemRepStates, Mem!IdleRep
  <2>3. /\ n \in [pc : {"sending"}, topic : MemTopics, start : 0 .. MaxOffset, copy : Seq(Events),
                  i : Nat, sent : Seq(Events), buf : Nat]
        /\ n.topic = m.topic /\ n.start = m.start /\ n.copy = m.copy /\ n.i = m.i /\ n.sent = m.sent
    BY <2>1, <2>2
  <2>4. n \in MemRepStates
    BY <2>3 DEF MemRepStates
  <2>5. memRep' = [memRep EXCEPT ![r] = n] /\ UNCHANGED <<memEvents, memNextOffset, memClosed>>
    BY <1>7, <2>1 DEF Mem!ReplayReceive
  <2>6. memRep'[r] = n /\ CopyHolds(r)
    BY <1>7, <2>5 DEF Mem!ReplayReceive, MemInv, MemTypes, CopiesArePrefixes
  <2>7. CopyHolds(r)'
    BY <2>1, <2>3, <2>5, <2>6 DEF CopyHolds
  <2> QED BY <2>4, <2>5, <2>7, MemReplayKeeps
<1> QED BY <1>1, <1>2, <1>3, <1>4, <1>5, <1>6, <1>7, MemAppendKeeps DEF Mem!Next

\* The inductive invariant of the in-memory log holds throughout.
LEMMA MemInvAlways == Mem!Spec => []MemInv
<1>1. ASSUME Mem!Init PROVE MemInv
  <2>1. \A t \in MemTopics : memEvents[t] = <<>> /\ memNextOffset[t] = 0
    BY <1>1 DEF Mem!Init
  <2>2. MapsAgree
    BY <2>1 DEF MapsAgree
  <2>3. MemTypes
    <3>1. <<>> \in Seq(Events)
      OBVIOUS
    <3>2. Mem!IdleRep \in MemRepStates
      BY DEF MemRepStates
    <3> QED BY <1>1, <3>1, <3>2 DEF Mem!Init, MemTypes
  <2> QED BY <1>1, <2>2, <2>3 DEF Mem!Init, Mem!IdleRep, MemInv, CopiesArePrefixes
<1> QED BY <1>1, MemStep, PTL DEF Mem!Spec

\* Pages follow from the shape of the slices alone.
LEMMA InvPages ==
  ASSUME MemInv
  PROVE  MemPagesAgree
<1> SUFFICES ASSUME NEW t \in MemTopics, NEW s \in 0 .. MaxOffset + 2, NEW n \in 0 .. MaxOffset + 2
             PROVE  LET page == Mem!ReadEvents(t, s, n) IN
                    /\ \A k \in DOMAIN page : page[k].offset = s + k - 1
                    /\ s < memNextOffset[t] /\ n > 0 => page # <<>>
                    /\ s + Len(page) < memNextOffset[t] => Len(page) = n
  BY DEF MemPagesAgree, Mem!PagesAgree
<1>0. PICK page : page = Mem!ReadEvents(t, s, n)
  OBVIOUS
<1>1. PICK q, len : q = memEvents[t] /\ len = Len(q)
  OBVIOUS
<1>2. q \in Seq(Events) /\ len \in Nat /\ memNextOffset[t] = len
      /\ \A k \in 1 .. len : q[k].offset = k - 1
  BY <1>1 DEF MemInv, MemTypes, MapsAgree
<1>3. s \in Nat /\ n \in Nat
  BY MaxOffsetAssumption
<1>4. PICK w : w = (IF s + n > len THEN len ELSE s + n) - s
  OBVIOUS
<1>5. CASE s >= len
  <2>1. page = <<>>
    BY <1>0, <1>1, <1>5 DEF Mem!ReadEvents
  <2> QED BY <1>0, <1>2, <1>3, <1>5, <2>1
<1>6. CASE s < len
  <2>1. page = [k \in 1 .. w |-> q[s + k]]
    BY <1>0, <1>1, <1>2, <1>3, <1>4, <1>6 DEF Mem!ReadEvents
  <2>2. w \in Nat /\ s + w <= len /\ (n > 0 => w > 0) /\ (s + w < len => w = n)
    BY <1>2, <1>3, <1>4, <1>6
  <2>3. Len(page) = w /\ DOMAIN page = 1 .. w
    BY <1>2, <1>3, <2>1, <2>2
  <2>4. \A k \in 1 .. w : page[k].offset = s + k - 1
    BY <1>2, <1>3, <2>1, <2>2
  <2> QED BY <1>0, <1>2, <2>2, <2>3, <2>4
<1> QED BY <1>2, <1>3, <1>5, <1>6
\* A replay another step leaves alone, or whose channel only is drained.
SameMemRun(r) ==
  memRep[r].pc = "sending" /\ memRep'[r].topic = memRep[r].topic
    /\ memRep'[r].start = memRep[r].start /\ memRep'[r].sent = memRep[r].sent
    /\ memRep'[r].copy = memRep[r].copy

\* Ending a replay is a step of the contract.
LEMMA MemStops ==
  ASSUME UNCHANGED memEvents, \A r \in Replayers : memRep'[r].pc # "sending" \/ SameMemRun(r)
  PROVE  Mem!Abs!AbsNext
<1>1. PICK T : T = {r \in Replayers : memRep'[r].pc # "sending"}
  OBVIOUS
<1>2. T \in SUBSET Replayers
  BY <1>1
<1>3. Mem!Abs!AbsReplayStop(T)
  BY <1>1 DEF Mem!Abs!AbsReplayStop, Mem!Abs!NoReplay, SameMemRun
<1>4. \E X \in SUBSET Replayers : Mem!Abs!AbsReplayStop(X)
  BY ONLY <1>2, <1>3
<1> QED BY <1>4 DEF Mem!Abs!AbsNext

\* The copy's next event is the topic's next one.
LEMMA MemSendSends ==
  ASSUME MemInv, NEW r \in Replayers, Mem!ReplaySend(r)
  PROVE  Mem!Abs!AbsNext
<1> DEFINE Run(x) == IF memRep[x].pc = "sending"
                     THEN [on |-> TRUE, topic |-> memRep[x].topic, start |-> memRep[x].start,
                           end |-> Len(memRep[x].copy), sent |-> memRep[x].sent]
                     ELSE [on |-> FALSE]
<1>1. PICK t, s, q, c, e, n : /\ t = memRep[r].topic /\ s = memRep[r].start /\ q = memRep[r].sent
                              /\ c = memRep[r].copy /\ e = c[memRep[r].i + 1] /\ n = Len(c)
  OBVIOUS
<1>2. memRep[r].pc = "sending" /\ memRep[r].i < n /\ UNCHANGED <<memEvents, memClosed>>
  BY <1>1 DEF Mem!ReplaySend
<1>3. memRep[r] \in [pc : {"sending"}, topic : MemTopics, start : 0 .. MaxOffset, copy : Seq(Events),
                     i : Nat, sent : Seq(Events), buf : Nat]
  BY <1>2 DEF MemInv, MemTypes, MemRepStates, Mem!IdleRep
<1>4. t \in MemTopics /\ s \in Nat /\ n \in Nat /\ Len(q) \in Nat
  BY <1>1, <1>3, MaxOffsetAssumption
<1>5. CopyHolds(r)
  BY <1>2 DEF MemInv, CopiesArePrefixes
<1>6. memRep[r].i = s + Len(q) /\ e = memEvents[t][s + Len(q) + 1]
  <2>1. /\ memRep[r].i = s + Len(q)
        /\ n <= Len(memEvents[t]) /\ \A k \in 1 .. n : c[k] = memEvents[t][k]
    BY <1>1, <1>5 DEF CopyHolds
  <2>2. PICK j : j = s + Len(q)
    OBVIOUS
  <2>3. j + 1 \in 1 .. n
    BY <1>2, <1>4, <2>1, <2>2
  <2> QED BY <1>1, <2>1, <2>2, <2>3
<1>7. PICK m : /\ memRep' = [memRep EXCEPT ![r] = m] /\ m.pc = "sending"
               /\ m.topic = t /\ m.start = s /\ m.copy = c /\ m.sent = Append(q, e)
  BY <1>1, MemSendLeaves DEF MemSends
<1>8. memRep'[r] = m /\ \A x \in Replayers : x # r => memRep'[x] = memRep[x]
  BY <1>7 DEF MemInv, MemTypes
<1>9. PICK f, g : f = [x \in Replayers |-> Run(x)] /\ g = [x \in Replayers |-> Run(x)]'
  OBVIOUS
<1>10. PICK z : z = Append(q, e)
  OBVIOUS
<1>11. /\ f[r] = [on |-> TRUE, topic |-> t, start |-> s, end |-> n, sent |-> q]
       /\ g[r] = [on |-> TRUE, topic |-> t, start |-> s, end |-> n, sent |-> z]
  BY <1>1, <1>2, <1>7, <1>8, <1>9, <1>10
<1>12. \A x \in Replayers : x # r => g[x] = f[x]
  BY <1>8, <1>9
<1>13. [f[r] EXCEPT !.sent = z] = g[r]
  <2>1. f[r] \in [on : {TRUE}, topic : {t}, start : {s}, end : {n}, sent : {q}]
    BY <1>11
  <2>2. PICK y : y = [f[r] EXCEPT !.sent = z]
    OBVIOUS
  <2>3. y \in [on : {TRUE}, topic : {t}, start : {s}, end : {n}, sent : {z}]
    BY <2>1, <2>2
  <2>4. y = [on |-> TRUE, topic |-> t, start |-> s, end |-> n, sent |-> z]
    BY ONLY <2>3
  <2> QED BY <1>11, <2>2, <2>4
<1>14. g = [f EXCEPT ![r].sent = Append(@, memEvents[f[r].topic][f[r].start + Len(@) + 1])]
  <2>1. f = [x \in Replayers |-> f[x]] /\ g = [x \in Replayers |-> g[x]]
    BY <1>9
  <2>2. g = [f EXCEPT ![r] = [f[r] EXCEPT !.sent = z]]
    BY <1>12, <1>13, <2>1
  <2> QED BY <1>6, <1>10, <1>11, <2>2
<1>15. f[r].on /\ f[r].start + Len(f[r].sent) < f[r].end
  BY <1>2, <1>6, <1>11
<1>16. Mem!Abs!AbsReplaySend(r)
  BY <1>2, <1>9, <1>14, <1>15 DEF Mem!Abs!AbsReplaySend
<1> QED BY <1>16 DEF Mem!Abs!AbsNext

\* Every step of the in-memory log is a step of the contract or leaves its
\* state alone.
LEMMA MemStepImplements ==
  ASSUME MemInv, [Mem!Next]_(Mem!vars)
  PROVE  [Mem!Abs!AbsNext]_(Mem!Abs!absVars)
<1>1. CASE UNCHANGED Mem!vars
  BY <1>1 DEF Mem!vars, Mem!Abs!absVars
<1>2. CASE Mem!Close
  BY <1>2, MemStops DEF Mem!Close, SameMemRun
<1>3. ASSUME NEW t \in MemTopics, NEW p \in Payloads, Mem!AppendEvent(t, p)
      PROVE  Mem!Abs!AbsNext
  <2>1. memNextOffset[t] = Len(memEvents[t])
    BY DEF MemInv, MapsAgree
  <2>2. Mem!Abs!AbsAppend(t, p)
    BY <1>3, <2>1 DEF Mem!AppendEvent, Mem!Event, Mem!Abs!AbsAppend, Mem!Abs!Event
  <2> QED BY <2>2 DEF Mem!Abs!AbsNext
<1>4. ASSUME NEW r \in Replayers, NEW t \in MemTopics, NEW s \in 0 .. MaxOffset,
             Mem!ReplayCall(r, t, s)
      PROVE  Mem!Abs!AbsNext
  BY <1>4, MemStops DEF Mem!ReplayCall, SameMemRun, MemInv, MemTypes
<1>5. ASSUME NEW r \in Replayers, Mem!ReplayReject(r) \/ Mem!ReplayDone(r)
      PROVE  Mem!Abs!AbsNext
  <2>1. memRep' = [memRep EXCEPT ![r] = Mem!IdleRep] /\ UNCHANGED memEvents
    BY <1>5 DEF Mem!ReplayReject, Mem!ReplayDone
  <2> QED BY <2>1, MemStops DEF Mem!IdleRep, SameMemRun, MemInv, MemTypes
<1>6. ASSUME NEW r \in Replayers, Mem!ReplayReceive(r)
      PROVE  Mem!Abs!AbsNext
  <2>1. memRep[r].pc = "sending" /\ memRep' = [memRep EXCEPT ![r].buf = @ - 1] /\ UNCHANGED memEvents
    BY <1>6 DEF Mem!ReplayReceive
  <2>2. memRep[r] \in [pc : {"sending"}, topic : MemTopics, start : 0 .. MaxOffset, copy : Seq(Events),
                       i : Nat, sent : Seq(Events), buf : Nat]
    BY <2>1 DEF MemInv, MemTypes, MemRepStates, Mem!IdleRep
  <2> QED BY <2>1, <2>2, MemStops DEF SameMemRun, MemInv, MemTypes
<1>7. ASSUME NEW r \in Replayers, Mem!ReplayCopy(r)
      PROVE  Mem!Abs!AbsNext
  <2>1. PICK t, s : t = memRep[r].topic /\ s = memRep[r].start
    OBVIOUS
  <2>2. t \in MemTopics /\ s \in 0 .. MaxOffset
    BY <1>7, <2>1 DEF Mem!ReplayCopy, MemInv, MemTypes, MemRepStates, Mem!IdleRep
  <2>3. /\ memRep' = [memRep EXCEPT ![r] =
             [pc |-> "sending", topic |-> t, start |-> s, copy |-> memEvents[t], i |-> s,
              sent |-> <<>>, buf |-> 0]]
        /\ memRep[r].pc = "called" /\ ~memClosed /\ UNCHANGED <<memEvents, memClosed>>
    BY <1>7, <2>1 DEF Mem!ReplayCopy
  <2>4. Mem!Abs!AbsReplayStart(r, t, s)
    BY <2>2, <2>3 DEF Mem!Abs!AbsReplayStart, Mem!Abs!NoReplay, Mem!Abs!Replay, MemInv, MemTypes
  <2> QED BY <2>2, <2>4 DEF Mem!Abs!AbsNext, Mem!Abs!Offsets
<1> QED BY <1>1, <1>2, <1>3, <1>4, <1>5, <1>6, <1>7, MemSendSends DEF Mem!Next

-----------------------------------------------------------------------------
(* Theorems about the in-memory log, and about the log a node has *)

\* inmemory.go ReadEvents: pages of any size, each starting where the last one
\* ended, visit every offset below GetTopicEndOffset once.
THEOREM MemPages == Mem!Spec => []MemPagesAgree
BY InvPages, MemInvAlways, PTL

\* The in-memory log implements the contract of pkg/eventlog, although a replay
\* sends from a copy while appends and Close go on.
THEOREM MemRefines == Mem!Spec => MemRefinesEventLog
<1>1. Mem!Init => Mem!Abs!AbsInit
  BY DEF Mem!Init, Mem!Abs!AbsInit, Mem!Abs!NoReplay, Mem!IdleRep
<1>2. MemInv /\ [Mem!Next]_(Mem!vars) => [Mem!Abs!AbsNext]_(Mem!Abs!absVars)
  BY MemStepImplements
<1> QED BY <1>1, <1>2, MemInvAlways, PTL DEF Mem!Spec, MemRefinesEventLog, Mem!RefinesEventLog,
                                           Mem!Abs!AbsSpec

\* Whichever log --eventlog-backend chose, the node's log behaves as the two
\* specifications the theorems above are about.
THEOREM BackendIsEither == BackendSpec => Spec /\ Mem!Spec
<1>1. BackendInit => Init /\ Mem!Init
  BY DEF BackendInit
<1>2. [UsePebble \/ UseMemory]_allVars => [Next]_vars
  BY DEF UsePebble, UseMemory, allVars
<1>3. [UsePebble \/ UseMemory]_allVars => [Mem!Next]_(Mem!vars)
  BY DEF UsePebble, UseMemory, allVars, memVars, Mem!vars
<1> QED BY <1>1, <1>2, <1>3, PTL DEF BackendSpec, Spec, Mem!Spec
=============================================================================
