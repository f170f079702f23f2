-------------------------- MODULE EventLogBackend --------------------------
(***************************************************************************)
(* The event log of a node: what --eventlog-backend chooses when the       *)
(* process starts (applyEventLogConfig, NewGRPCMeshNode), the in-memory    *)
(* log by default or the Pebble log.  The other one is never made; here it *)
(* stays in its initial state.                                             *)
(***************************************************************************)
EXTENDS PebbleEventLog

CONSTANT MemTopics  \* topics of the in-memory log

VARIABLES
  backend,          \* "memory" or "pebble"
  memEvents, memNextOffset, memClosed, memRep

memVars == <<memEvents, memNextOffset, memClosed, memRep>>
allVars == <<vars, memVars, backend>>

Mem == INSTANCE InMemoryEventLog WITH
  Topics <- MemTopics, eventsByTopic <- memEvents, nextOffsetByTopic <- memNextOffset,
  closed <- memClosed, rep <- memRep

BackendInit ==
  /\ backend \in {"memory", "pebble"}
  /\ Init
  /\ Mem!Init

UsePebble == backend = "pebble" /\ Next /\ UNCHANGED <<memVars, backend>>
UseMemory == backend = "memory" /\ Mem!Next /\ UNCHANGED <<vars, backend>>

BackendSpec == BackendInit /\ [][UsePebble \/ UseMemory]_allVars /\ Fairness

\* Of a node whose log is in memory: ReadEvents in pages of any size, each page starting
\* after the last event of the one before, yields what one unlimited ReadEvents would.
MemPagesAgree == Mem!PagesAgree

\* Of a node whose log is in memory: AppendEvent and ReplayEvents, with the copy a replay
\* takes under the lock, implement the contract of EventLog, appends during a replay or not.
MemRefinesEventLog == Mem!RefinesEventLog
=============================================================================
