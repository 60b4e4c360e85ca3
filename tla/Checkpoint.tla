----------------------------- MODULE Checkpoint -----------------------------
(***************************************************************************)
(* Checkpoints: the coordinator (internal/checkpoint/checkpoint.go, log.go,*)
(* manifest.go) over the state backend, the sink and the committed offset  *)
(* (internal/source/offset.go).                                            *)
(*                                                                         *)
(* Pipeline.Process records an event in the store, writes it to the sink   *)
(* and folds its delta, each under a lock of its own; Manager.mu lets one  *)
(* Process run at a time.  Meanwhile goroutines run RunCheckpoint, Retry   *)
(* and Restore.  SnapshotState reads the version and takes the snapshot    *)
(* under two acquisitions of Store.mu; Commit holds Coordinator.mu, but    *)
(* the store and the sink can change between its call of the sink and its  *)
(* own updates.  Every value is one, and a goroutine's variables return to *)
(* their initial values when it is done.  A goroutine's location cpc[t]:   *)
(*   idle       outside                                                    *)
(*   version    store.Version() is next                                    *)
(*   fence      store.Snapshot() is next                                   *)
(*   commit     SnapshotState returned, Commit is next                     *)
(*   flushed    the sink is flushed, Coordinator.mu held                   *)
(*   retry      Retry released Coordinator.mu, replay(from) is next        *)
(*   replay     replay(from) is running                                    *)
(***************************************************************************)
EXTENDS StateBackend, Sink, SequencesExt

CONSTANTS
  Thread,         \* goroutines that run checkpoints
  LogCapacity,    \* capacity of the checkpoint log
  FlushEvery,     \* Pipeline.flushEvery, in distinct keys
  KeyOf,          \* KeyOf[offset], the key of an event
  MaxEvents,      \* bound on the events the source emits
  MaxCaptures,    \* bound on the snapshots taken
  MaxRestores,    \* bound on the restores
  MaxAttempts,    \* bound on the retries
  NoSnapshot      \* a goroutine holds no snapshot

ASSUME CheckpointAssumption ==
  /\ LogCapacity \in Nat \ {0}
  /\ FlushEvery \in Nat \ {0}
  /\ {MaxEvents, MaxCaptures, MaxRestores, MaxAttempts} \subseteq Nat
  /\ KeyOf \in [0..(MaxEvents - 1) -> Key]

VARIABLES
  emitted,          \* the source emitted the offsets 0 .. emitted - 1
  stage,            \* the next call of Process: record, write or fold
  work,             \* the offset Process works on
  processed,        \* offsets Process was called with
  deltas,           \* Pipeline.pendingDeltas
  cpc,              \* location of each goroutine
  before,           \* the version a goroutine read in SnapshotState
  position,         \* the offset argument of a goroutine's RunCheckpoint
  held,             \* the snapshot a goroutine's SnapshotState returned
  from,             \* the offset a goroutine's Retry replays from
  snaps,            \* committed checkpoints: a snapshot and its offset
  lastCommitted,    \* Coordinator.lastCommitted
  lastManifest,     \* offset of Coordinator.lastManifest
  committed,        \* OffsetTracker.committed
  log,              \* Log.entries
  attempts,         \* Coordinator.attempts
  restores,         \* history: number of restores
  journalCut        \* history: a restore emptied the journal since the last
                    \* snapshot

processVars == <<emitted, stage, work, processed, deltas>>
coordVars == <<lastCommitted, lastManifest, committed, log, attempts>>
runVars == <<cpc, before, position, held, from>>
historyVars == <<snaps, restores, journalCut>>
checkpointVars == <<storeVars, sinkVars, processVars, coordVars, runVars,
                    historyVars>>

CheckpointInit ==
  /\ StoreInit
  /\ SinkInit
  /\ emitted = 0
  /\ stage = "record"
  /\ work = 0
  /\ processed = {}
  /\ deltas = Zero
  /\ cpc = [t \in Thread |-> "idle"]
  /\ before = [t \in Thread |-> 0]
  /\ position = [t \in Thread |-> 0]
  /\ held = [t \in Thread |-> NoSnapshot]
  /\ from = [t \in Thread |-> 0]
  /\ snaps = {}
  /\ lastCommitted = 0
  /\ lastManifest = 0
  /\ committed = 0
  /\ log = <<>>
  /\ attempts = 0
  /\ restores = 0
  /\ journalCut = FALSE

(* Coordinator.mu is free. *)
Unlocked == \A t \in Thread : cpc[t] # "flushed"

(* OffsetTracker.Commit: a regressive commit is ignored. *)
MutCommitOffset(offset) == committed' = offset

CommitOffset(offset) ==
  committed' = IF offset > committed THEN offset ELSE committed

(* Log.Append: the oldest entries make room. *)
LogAppend(entry) ==
  LET all == Append(log, entry) IN
  log' = IF Len(all) > LogCapacity
         THEN SubSeq(all, Len(all) - LogCapacity + 1, Len(all))
         ELSE all
-----------------------------------------------------------------------------
(***************************************************************************)
(* The pipeline at work.                                                   *)
(***************************************************************************)
Emit ==
  /\ emitted < MaxEvents
  /\ emitted' = emitted + 1
  /\ UNCHANGED <<storeVars, sinkVars, stage, work, processed, deltas, coordVars,
                 runVars, historyVars>>

(* Process takes an emitted event, in any order, and records its value. *)
RecordEvent(offset) ==
  /\ stage = "record"
  /\ offset < emitted
  /\ offset \notin processed
  /\ Record
  /\ stage' = "write"
  /\ work' = offset
  /\ processed' = processed \cup {offset}
  /\ UNCHANGED <<sinkVars, emitted, deltas, coordVars, runVars, historyVars>>

(* Process: p.Sink.Write(ev.Key, ev.Value) *)
WriteEvent ==
  /\ stage = "write"
  /\ Write
  /\ stage' = "fold"
  /\ UNCHANGED <<storeVars, emitted, work, processed, deltas, coordVars,
                 runVars, historyVars>>

(* Keys with an entry in pendingDeltas. *)
PendingKeys(d) == {k \in Key : d[k] > 0}

(* maybeFlushDeltas: p.pendingDeltas[ev.Key] += ev.Value *)
MutAddDelta(k) == [deltas EXCEPT ![k] = 1]

AddDelta(k) == [deltas EXCEPT ![k] = @ + 1]

(* Pipeline.maybeFlushDeltas: a round goes to the store once it has        *)
(* FlushEvery keys.                                                        *)
FoldDelta ==
  LET all == AddDelta(KeyOf[work])
      full == Cardinality(PendingKeys(all)) >= FlushEvery IN
  /\ stage = "fold"
  /\ stage' = "record"
  /\ work' = 0
  /\ IF full THEN ApplyRound(all) ELSE UNCHANGED storeVars
  /\ deltas' = IF full THEN Zero ELSE all
  /\ UNCHANGED <<sinkVars, emitted, processed, coordVars, runVars,
                 historyVars>>
-----------------------------------------------------------------------------
(***************************************************************************)
(* Pipeline.RunCheckpoint: SnapshotState, then Commit.                     *)
(***************************************************************************)
RunCheckpoint(t) ==
  /\ cpc[t] = "idle"
  /\ captures < MaxCaptures
  /\ cpc' = [cpc EXCEPT ![t] = "version"]
  /\ position' = [position EXCEPT ![t] = emitted]
  /\ UNCHANGED <<storeVars, sinkVars, processVars, coordVars, before, held,
                 from, historyVars>>

ReadVersion(t) ==
  /\ cpc[t] = "version"
  /\ before' = [before EXCEPT ![t] = seq]
  /\ cpc' = [cpc EXCEPT ![t] = "fence"]
  /\ UNCHANGED <<storeVars, sinkVars, processVars, coordVars, position, held,
                 from, historyVars>>

(* A snapshot whose sequence moved is thrown away and taken again. *)
TakeSnapshot(t) ==
  /\ cpc[t] = "fence"
  /\ captures < MaxCaptures
  /\ Snapshot
  /\ journalCut' = FALSE
  /\ \/ /\ seq = before[t]
        /\ held' = [held EXCEPT ![t] = Capture]
        /\ cpc' = [cpc EXCEPT ![t] = "commit"]
     \/ /\ seq # before[t]
        /\ cpc' = [cpc EXCEPT ![t] = "version"]
        /\ UNCHANGED held
  /\ before' = [before EXCEPT ![t] = 0]
  /\ UNCHANGED <<sinkVars, processVars, coordVars, position, from,
                 snaps, restores>>

(* Commit: c.sink.CommitUpTo(offset) *)
FlushSink(t) ==
  /\ cpc[t] = "commit"
  /\ Unlocked
  /\ CommitUpTo(position[t])
  /\ cpc' = [cpc EXCEPT ![t] = "flushed"]
  /\ UNCHANGED <<storeVars, processVars, coordVars, before, position, held,
                 from, historyVars>>

(* Commit: position, manifest, committed offset and log entry.  Manifest   *)
(* and entry also show the version, read twice more; it is left out.       *)
PublishOffset(t) ==
  /\ cpc[t] = "flushed"
  /\ lastCommitted' = position[t]
  /\ lastManifest' = position[t]
  /\ CommitOffset(position[t])
  /\ LogAppend([offset |-> position[t], kind |-> "commit"])
  /\ snaps' = snaps \cup {[snap |-> held[t], offset |-> position[t]]}
  /\ held' = [held EXCEPT ![t] = NoSnapshot]
  /\ position' = [position EXCEPT ![t] = 0]
  /\ cpc' = [cpc EXCEPT ![t] = "idle"]
  /\ UNCHANGED <<storeVars, sinkVars, processVars, attempts, before, from,
                 restores, journalCut>>

(* Coordinator.Retry up to its unlock; the offset of the failed attempt is *)
(* not used.                                                               *)
Retry(t) ==
  /\ cpc[t] = "idle"
  /\ Unlocked
  /\ attempts < MaxAttempts
  /\ attempts' = attempts + 1
  /\ from' = [from EXCEPT ![t] = lastCommitted]
  /\ cpc' = [cpc EXCEPT ![t] = "retry"]
  /\ UNCHANGED <<storeVars, sinkVars, processVars, lastCommitted, lastManifest,
                 committed, log, before, position, held, historyVars>>

(* Retry calls replay(from). *)
BeginReplay(t) ==
  /\ cpc[t] = "retry"
  /\ cpc' = [cpc EXCEPT ![t] = "replay"]
  /\ UNCHANGED <<storeVars, sinkVars, processVars, coordVars, before, position,
                 held, from, historyVars>>

(* replay(from) returns.  The events it fed again were skipped, or are     *)
(* processed as any emitted event is.                                      *)
RetryReturns(t) ==
  /\ cpc[t] = "replay"
  /\ cpc' = [cpc EXCEPT ![t] = "idle"]
  /\ from' = [from EXCEPT ![t] = 0]
  /\ UNCHANGED <<storeVars, sinkVars, processVars, coordVars, before, position,
                 held, historyVars>>

(* Coordinator.Restore of a committed checkpoint.  Manifest.Valid holds,   *)
(* since neither the sequence nor the offset is ever negative.             *)
Restore(s) ==
  /\ Unlocked
  /\ restores < MaxRestores
  /\ restores' = restores + 1
  /\ journalCut' = TRUE
  /\ RestoreSnapshot(s.snap)
  /\ lastCommitted' = s.offset
  /\ lastManifest' = s.offset
  /\ CommitOffset(s.offset)
  /\ LogAppend([offset |-> s.offset, kind |-> "restore"])
  /\ UNCHANGED <<sinkVars, processVars, attempts, runVars, snaps>>

CheckpointNext ==
  \/ Emit
  \/ \E offset \in 0..(MaxEvents - 1) : RecordEvent(offset)
  \/ WriteEvent
  \/ FoldDelta
  \/ \E t \in Thread :
       \/ RunCheckpoint(t)
       \/ ReadVersion(t)
       \/ TakeSnapshot(t)
       \/ FlushSink(t)
       \/ PublishOffset(t)
       \/ Retry(t)
       \/ BeginReplay(t)
       \/ RetryReturns(t)
  \/ \E s \in snaps : Restore(s)

CheckpointSpec == CheckpointInit /\ [][CheckpointNext]_checkpointVars
-----------------------------------------------------------------------------
(***************************************************************************)
(* The journal bridges the newest snapshot to the present (state.go,       *)
(* Snapshot, ApplyRound, RestoreSnapshot): restoring the snapshot taken    *)
(* last, when no restore came after it, gives back exactly the current     *)
(* values, whatever was applied while the checkpoint was being written.    *)
(***************************************************************************)
JournalBridges ==
  \A s \in snaps :
    s.snap.id = captures /\ ~journalCut => Plus(s.snap.data, journal) = data

(***************************************************************************)
(* The sink neither loses, repeats nor reorders a record (sink.go, Write   *)
(* and CommitUpTo): the committed records followed by the pending ones are *)
(* all records written, in the order of their sequence numbers, for any    *)
(* order of barriers.                                                      *)
(***************************************************************************)
SinkKeepsOrder ==
  /\ Len(flushed \o unflushed) = nextSeq - 1
  /\ \A i \in 1..(nextSeq - 1) : (flushed \o unflushed)[i] = i

(***************************************************************************)
(* The coordinator's position, its manifest, the newest log entry and the  *)
(* source's committed offset agree after commits and restores in any       *)
(* order: the first three are those of the last commit or restore, and     *)
(* the committed offset is the greatest ever committed (checkpoint.go,     *)
(* Commit and Restore; offset.go, Commit; log.go, Append).                 *)
(***************************************************************************)
PositionsAgree ==
  /\ lastManifest = lastCommitted
  /\ lastCommitted <= committed
  /\ \A s \in snaps : s.offset <= committed
  /\ Len(log) <= LogCapacity
  /\ log # <<>> => Last(log).offset = lastCommitted

(* Events of key k whose delta was folded. *)
Folded(k) ==
  {o \in processed : KeyOf[o] = k /\ ~(stage # "record" /\ o = work)}

(***************************************************************************)
(* Deltas are conserved (pipeline.go, maybeFlushDeltas; state.go): until a *)
(* restore, the store and the pending deltas together hold every processed *)
(* event exactly once, through all snapshots; and less than a full round   *)
(* is pending.                                                             *)
(***************************************************************************)
DeltasConserved ==
  /\ restores = 0 =>
       \A k \in Key : data[k] + deltas[k] = Cardinality(Folded(k))
  /\ Cardinality(PendingKeys(deltas)) < FlushEvery
=============================================================================
