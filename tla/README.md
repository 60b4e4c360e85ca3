# StreamEngine in TLA+

A verification project for StreamEngine, a stream-processing engine in Go
(`src/internal`, `src/cmd/streamengine`). The TLA+ modules model its components
and their composition, TLC checks them on small instances, and TLAPS proves
theorems about them for every instance.

## 1. Inventory of the system

Events carry an event time, an offset, a key and a value. They enter the source
out of order, are released in event-time order when the watermark is advanced,
pass the topology manager (which may be paused), and are folded into windows,
sessions, the partitioned store, the state backend and the sink. A confirmed
watermark closes windows and publishes their results. Checkpoints snapshot the
state backend, flush the sink and commit the source offset.

| component | state | operations | interacts with | what makes it correct |
|---|---|---|---|---|
| watermark tracker | current, confirmed | Advance, Confirm | written by the source, read by the triggers | only a drained frontier is published |
| reorder buffer | heap of events | Add (evicts when full), PopMin | owned by the source | nothing lost but by eviction |
| source | pending, lastOff, stopped, drained, condition variable | Emit, AdvanceTo, Stop | calls the topology, then the tracker | drain before confirm, each event handed over once, AdvanceTo returns |
| tumbling windows | per window: state, values | Ingest, MaybeTrigger | reads the tracker, writes the aggregation store and the catalog | no early close, the result is the aggregate of the accepted events |
| window catalog | per window a monitoring row, under its own lock | Open, RecordEvent, RecordLate, Close | called by the windows, read by the page | never ahead of the results, and agreeing with them when it has caught up |
| aggregation store | one result per window, emitted flag | EmitResult, LateUpdate | shared by windows and sessions | a published result never changes |
| session windows | per key: start, end, last activity, values | Touch, ScanTimeout | aggregation store | a live session is not split or lost |
| topology manager | operators, pause flag, pause buffer | AddOperator, Connect, Process, ApplyNow, Pause, Resume | state backend's applied offsets, operator graph | each record applied once, none stranded, replay in offset order |
| operator graph | edges | Connect, Validate | topology manager | Validate decides acyclicity and returns |
| router, partitioned store | partition count, cache, one map per partition | Route, Add, Resize | each other | a key lives in one partition, totals survive a resize |
| state backend | data, journal, latest, applied, seq | ApplyRound, Record, Snapshot, RestoreSnapshot, MarkApplied | topology, checkpoints | snapshot + journal = present |
| sink | pending and committed records | Write, CommitUpTo | checkpoints | records neither lost nor reordered |
| checkpoint coordinator, manifest, log | last committed offset, manifest, history | SnapshotState, Commit, Retry, Restore | state backend, sink, offset tracker | position, manifest, offset and records agree |
| offset tracker | committed offset | Commit | checkpoints | monotone, below it everything is durable |
| idle detector, generator, demo feed | last event time; cursor | ShouldAdvance; Next, ReplayFrom, SkipTo | drives the engine from one goroutine | no duplicate events, quiet streams still fire |
| combiner | - | Combine | monitoring page | partial results of a window merge to the whole |
| metrics, configuration, sink throttle, HTTP server | counters, flags | readers and counters | monitoring | - |

Hard behaviours, listed one by one with their lines under `hazards` in
`PROJECT.json`:

- The source drops its lock around the ingest callback and before it advances
  and confirms the watermark, so goroutines overtake each other there.
- The window trigger acts on a watermark read before it took its lock, and
  results and catalog change one after the other under different locks.
- A paused topology acknowledges events it has only parked; the same record can
  arrive by three paths.
- Validation, snapshot and commit are each made of several critical sections of
  different locks.
- Buffers have limits, the committed position and the log can go backward, and
  a restore can meet a journal that has been cut.
- Routing a key and adding to its partition are two critical sections, with a
  resize possible in between.
- Session touches arrive in any order, and a session can be reopened under the
  identity of one already published.
- The demo rewinds its generator, pauses the topology and may be stopped at any
  of these moments.

The binary runs one feed goroutine and HTTP readers. The components themselves
are written for concurrent callers (each has its mutex, the source a condition
variable), and that is the interface the models exercise: a set `Thread` of
goroutines calling in any order.

## 2. Modules and how they correspond to the code

Each definition's source lines are in `PROJECT.json` under `map`.

- **Watermark** - `Tracker`. Both methods hold the mutex throughout and are one
  step each.
- **Events** - the constants every event-handling module shares: event time,
  offset and value as functions of an opaque event. Offsets are distinct.
- **Source** - `Source` and its `Buffer`. A goroutine inside `AdvanceTo` has a
  location `pc[t]`; one action runs from the moment it takes `Source.mu` until
  it releases it (`DrainLoop` is that stretch), and the unlocked statements are
  actions of their own. `s.drained++` is a load and a store. The heap orders
  by timestamp only, so any event with the least timestamp may be popped or
  evicted. History variables: `handed`, `overflowed`, `advances` and `arrival`,
  which records how an event stood to the watermark when `Emit` accepted it -
  *on time* (no frontier published, advanced or committed to covers it), in the
  *gap* (a goroutine past its drain is about to cover it) or *late*.
- **Results** - `WindowResult` and `agg.Store`'s operations on one result
  (`Apply`, `ApplyLate`, `EmitResult`, `LateUpdate`), and `Merge`, the step of
  `Combiner.Combine`. Pure operators, used by Windows.
- **Windows** - `window.Manager` over Results. `MaybeTrigger` is
  `ReadConfirmed`, then one `CloseWindow` for each due window, in any order,
  and `EndTrigger`. From the first close to the end the goroutine holds
  `Manager.mu` (`wpc` is "closing", and every other step that needs the lock
  waits for `MuFree`), while readers of the results see the windows published
  so far. The states triggering and closing of a window are left within the
  same stretch and are not states of the model.
- **Catalog** - the monitoring rows. Each call looks its row up and creates a
  missing one, as the code does, under the catalog's own lock; `call` is the
  call that the holder of `Manager.mu` makes next.
- **WindowLayer** - Windows and Catalog with a tracker that anybody advances and
  confirms, as the repository's window tests use it. A change of a window is
  one step, the catalog call that reports it a later one; nobody else gets
  `Manager.mu` in between, but readers of results and catalog do look.
- **Sessions** - `SessionManager` over the aggregation store. `Touch` and
  `ScanTimeout` are one step each; a scan comes with any confirmed value, since
  the goroutine that calls it read the watermark earlier. A value stands for
  its event, so the model can tell where each one is.
- **Router** - `Router` and `PartitionedStore`. `Route` and `Add` are the two
  steps of `Process`; a `Resize` may come between them. The hash is a constant
  function of key and partition count. Indexing a partition that is gone is the
  panic it would be (`crashed`).
- **Keyed** - Router and Sessions (over **Keys**, their common constant) as
  `Process` calls them: route, add, touch, each under the lock of its component,
  with a resize or a timeout scan of another goroutine anywhere in between. A
  ping only touches. A panic ends the program.
- **Dag, DagValidate** - acyclicity as a definition, and the depth-first search
  of `Validate` with its recursion as an explicit stack, started on every graph.
- **Topology** - `topology.Manager`, operator instances and the applied offsets.
  `Resume` holds `Manager.mu` but feeds components with locks of their own, so
  it is a begin, one step per record and an end; while `replaying` every other
  method of the manager waits. The pause buffer is a set: a second copy of a
  record is always skipped on replay.
- **EventTime** - the abstract specification of the event-time path: a
  watermark, the fate of each event, the published windows. A window fires
  once, after the watermark passed its end, and only an event that was tardy on
  arrival, or delayed while the engine was suspended, can become late.
- **Engine** - `Pipeline`: Source, Topology and Windows composed as
  `NewPipeline` wires them. `Deliver` is the ingest callback: Source's `Ingest`,
  Topology's `Process` and, when the record is a data event and is applied, the
  window's ingest; a ping takes the same way and stops before the window.
  `Promise` instantiates EventTime with a mapping of this state. `postponed` is
  history: the events delivered while the topology was paused.
- **StateBackend, Sink, Checkpoint** - the keyed store with its journal, the
  sink, and `RunCheckpoint`, `RetryCheckpoint` and `Restore` by several
  goroutines over both. Meanwhile `Process` runs, one event at a time, in the
  three steps that have a lock of their own: `RecordEvent` (the store's record
  and version), `WriteEvent` (the sink) and `FoldDelta`, which collects deltas
  and applies them as one round once `FlushEvery` distinct keys are pending.
  The loop of `CommitUpTo` is a fold over the pending records (`DeliverAll`).
  `Retry` reads the committed position and releases the lock (location
  "retry"); its callback starts later (`BeginReplay`) and returns later still.
  `snaps` holds the committed checkpoints, any of which may be
  restored.
- **Feed** - `runDemoFeed`, `Generator`, `IdleDetector` and the shutdown in
  `main`, driving Engine from one goroutine. The numbers are the code's: the
  timestamps with their jitter, every round condition, the windows of 5000 ms,
  the idle gap of 3000. A tick emits one event and puts the calls that are due
  on an agenda, from which they are taken in the order of the loop's body
  (`Rank`); a call is made when the previous one has returned. Its
  checkpoint is one step, since no other goroutine runs: the sink's barrier and
  the committed offset.
- **IntakeProofs** (source, topology manager), **WindowProofs**,
  **EngineProofs**, **CheckpointProofs**, **WiringProofs** (router, operator
  graph), **SessionProofs**, **FeedProofs** - for each component its inductive
  invariant, the lemmas for its steps and the theorems; **DataTheorems** - what
  the proofs need about sequences and folds.
- **MC\*** - values for the constants: events with equal timestamps, offsets in
  an order different from arrival, interchangeable goroutines.

Engine leaves catalog, sessions, router, state backend and sink out of its state:
the pipeline calls them and never reads them back on the event-time path. They
are in WindowLayer, Keyed and Checkpoint, with the calls `Process` makes on them.

## 3. What the runs check

Passing runs:

| run | shows | instance |
|---|---|---|
| source | `DrainedBeforeConfirm`, `Custody`: no confirmed watermark overtakes an on-time event; no event is lost, duplicated or in two places. `AdvanceReturns`: nobody stays in `cond.Wait` | 2 goroutines, 3 events of which 2 tie, buffer of 2 (so it overflows), 3 advances to 2 targets |
| windows | `NoEarlyClose`, `ResultMatchesOutcome` (count, sum and minimum are those of the accepted events, the maximum too if one of them is not negative), `CatalogAgrees` (what the catalog shows as closed is published with that count, and it shows everything once the last call is made), `CombineIsFold` (results of two parts merge to the result of the whole), `PublishedImmutable` | 2 goroutines, 4 events, 3 of them in one window, values and times of both signs, frontiers before, at and after the ends |
| topology | `AppliedOnce`, `Accounted` (without a cycle, no record is stranded), `ReplayInOffsetOrder`; deadlock is checked | 3 records delivered any number of times, 2 operators, any edges |
| dag_validate | `ValidateDecides`, `ValidateReturns` | all 512 graphs of 3 operators, every visiting order |
| engine | `PublishedComplete`, `ClassifiedOnce`, `ImplementsEventTime`, with any number of pauses, out-of-band completions and resumes | 2 goroutines, 2 events of one window, buffer of 1 (so it overflows), 2 advances to 2 targets |
| engine_fire | `WindowsFire`: once an Advance is under way, a window behind the watermark closes | 2 goroutines, 1 event, 2 advances to 2 targets, any number of pauses |
| checkpoint | `JournalBridges`, `DeltasConserved`: snapshot, journal and pending deltas account for every event. `SinkKeepsOrder`, `PositionsAgree` | 2 goroutines, 3 events of 2 keys, rounds of 2 keys, 2 snapshots, 1 restore, 1 retry, log of 1 entry |
| keyed | `TotalsKept`, `SplitOnlyByStaleRoute`, `RouteExists`: a resize loses nothing, and only a route older than it does harm. `SessionCustody`, `PublishedOnce`, and for keys touched in order `OrderlySessions`: a live session is not split | 5 data events and a ping of 2 keys in any order, 1 to 3 partitions, any number of resizes, timeout 2, touches exactly one gap apart, scans at 4 instants in any order |
| feed | `CursorAtOffset`, `CommittedIsDurable`, `FinishedMeansPublished`; `FeedResponds`: the loop returns to its select and shutdown completes | the demo's own script and rounds, 120 ticks, a buffer of 8, a stop at any moment |

The bounds are named constants used in guards: `MaxAdvances`, `MaxEvents`,
`MaxCaptures`, `MaxRestores`, `MaxAttempts`, `MaxAdds`. Two goroutines are what
each race needs (one in transit or past its drain, one confirming or emitting;
one between snapshot and commit or inside a retry, one committing), and the
third event or advance of the source run lets a race happen after another has
been settled. The buffer is smaller than the number of events, so eviction
happens. In the checkpoint run three events over two keys give one full round
and a remainder, and two snapshots leave a round before, between or after them.
In the keyed run the two keys share a partition under one count and not under
another. 120 ticks of the demo contain four pauses, four resume rounds, three
retries, the step back of the timestamps at event 86 and a shutdown in each of
the situations these create. The buffer of 8 (256 in the demo) is the least
`FeedNeverEvicts` allows, so a ninth waiting event would be lost. The goroutines of the engine and checkpoint runs
are interchangeable and declared symmetric (safety properties only). Runs say
`CHECK_DEADLOCK FALSE` where the bounds make the system stop; Topology has no
bound on calls and is checked for deadlock, which matters because `Resume`
excludes every other method.

Fairness. `FairSourceSpec` assumes weak fairness of the steps of a goroutine
inside `AdvanceTo`: Go schedules every runnable goroutine and the callback
returns. `FairEngineSpec` assumes strong fairness of a goroutine inside `Advance`
and of one inside `Resume`: they need a `Manager.mu`, the topology's or the
windows', which others may take again and again by pausing, resuming and
triggering, and `sync.Mutex` hands the lock to a starving waiter. `FeedSpec` assumes weak fairness of the feed's
goroutine within a tick, and strong fairness of leaving through the stop case:
when the ticker and the stop channel are both ready, `select` picks at random,
so it does not choose the ticker for ever. No fairness is assumed of emitting,
advancing, stopping, pausing, resuming, ticking or signalling. `ValidateSpec`
is a single goroutine running to its end.

Runs that show a disagreement between the code and what the repository says of
it (quotations under `findings`):

| run | what the code does |
|---|---|
| engine_late | a pause lets the watermark overtake on-time events, which are replayed late, although `watermark.go` promises that the interval's events have been ingested. Evicted events are excused and the buffer of 2 evicts none, so the trace goes through the pause buffer |
| topology_cycle | a `Resume` that finds a cycle empties the pause buffer, and the records in it are never applied, although `topology.go:17` says that none is skipped |
| feed_idle | the feed asks the idle detector with a time 4000 ms past the newest event, on every tick and right after an event; the gap is 3000, so it fires always. In the 120 ticks of the feed run 97 of 112 data events end up late |

Where a comment promises more than the code keeps, the passing runs state what
remains true and say what they except:

- `DrainedBeforeConfirm` and the refinement are about events that were on time
  in the sense of `arrival`. `watermark.go:37` says the source confirms only
  after all events up to the frontier have been handed over, but an event
  emitted between the drain and the confirmation stays in the buffer below it;
  EventTime calls such an event tardy.
- `PublishedComplete` excepts the events a paused topology parked (`postponed`),
  which EventTime allows only while it is suspended: `engine_late` shows that
  the exception is needed.
- `ResultMatchesOutcome` says nothing of Max when every accepted value is
  negative: Max starts at 0 and stays there, although `result.go:3` says that it
  describes the data events the window accepted. Min is initialised by the first
  value and needs no exception.
- `Accounted` claims that nothing is stranded as long as the graph is acyclic;
  what a failed `Resume` throws away is `topology_cycle`. The pipeline's own
  graph is acyclic and fixed (`EngineAssumption`).
- `JournalBridges` is about the newest snapshot, and about it only until a
  restore. `state.go:91` says that `RestoreSnapshot` "replays every increment
  that arrived after the snapshot was taken"; it replays only the journal since
  the newest snapshot and then drops it, so restoring an older checkpoint, or
  the same one twice, loses increments.
- `PositionsAgree` relates what commits and restores leave behind. Nothing is
  claimed of where a replay starts: `checkpoint.go:72` says always at the last
  committed offset, but `Retry` reads it and releases the lock, and a commit or a
  restore before the replay moves it on or back.
- `CommittedIsDurable` excepts `heldBack`. `offset.go:6` says everything up to
  the committed offset "has been durably persisted", but the barrier of the sink
  counts records while the argument is an offset, and events in the reorder or
  pause buffer have no record yet. In 120 ticks of the demo this concerns 11
  events.
- `OrderlySessions` is about keys touched in order. A touch behind another moves
  the last activity and the end backward, so a later scan can close a live
  session (`session.go:10` says it cannot). `SessionCustody` holds for every key,
  but names the values that `EmitResult` drops when a session is reopened with
  the start and end of a published one (`swallowed`). And two touches farther
  apart than the gap share a session when no scan came between them.
- `SplitOnlyByStaleRoute` and `RouteExists` except a route older than the last
  resize: it puts a value into the wrong partition until the next resize, although
  `repartition.go:50` says that no key is ever split, or panics when the
  partition is gone. `Process` and `Resize` run on one goroutine in the demo, so
  it meets neither.
- `CombineIsFold` is about a nonempty second part: merging an empty result
  brings in its zero Min (`combiner.go:39`). The pipeline lists each window once
  and never merges two.

Also met while modelling, and without a run because only the monitoring page
reads the values: `s.drained++` is not locked, so concurrent advances can be
counted once although `DrainedCount` "returns how many watermark advances
completed"; operators paused a second time are shown as resumed; the manifest
takes its sequence at commit, so it can be that of no snapshot; `Recent` sorts
the log by offset and calls it chronological. And the demo has five keys while
a round needs eight, so its deltas never reach the state backend.

## 4. What is proved

Each theorem holds for every value of the constants that satisfies the named
assumptions; the runs check the same definitions on small instances.

| module | theorems | properties |
|---|---|---|
| IntakeProofs | `SourceTypes`, `SourceCustody`, `SourceDrains` | `SourceTypeOK`, `Custody`, `DrainedBeforeConfirm` |
| | `TopologyTypeCorrect`, `AppliedOnceHolds`, `AccountedHolds`, `ReplayInOffsetOrderHolds` | the four of the topology run |
| WindowProofs | `WindowTypeCorrect`, `NoEarlyCloseHolds`, `ResultMatchesOutcomeHolds`, `CatalogAgreesHolds`, `PublishedImmutableHolds`, `CombineIsFoldHolds` | the six properties of the windows run |
| EngineProofs | `EngineInvariant`, `EngineKeepsParts`, `PublishedCompleteHolds`, `ClassifiedOnceHolds`, `EngineImplementsEventTime` | the three of the engine run, the refinement included |
| CheckpointProofs | `PositionsAgreeHolds`, `JournalBridgesHolds`, `DeltasConservedHolds`, `SinkKeepsOrderHolds` | the four of the checkpoint run |
| WiringProofs | `TotalsKeptHolds`, `SplitOnlyByStaleRouteHolds`, `RouteExistsHolds` | the first three of the keyed run |
| | `ValidateDecidesHolds` | `ValidateDecides` |
| SessionProofs | `SessionCustodyHolds`, `PublishedOnceHolds`, `OrderlySessionsHolds` | the other three of the keyed run |
| | `KeyedKeepsParts` | the keyed side implements RouterSpec and SessionSpec, so the six hold of it too |
| FeedProofs | `FeedInvariant`, `CursorAtOffsetHolds`, `CommittedIsDurableHolds`, `FinishedMeansPublishedHolds` | the three invariants of the feed run |
| | `FeedImplementsEventTime`, `FeedNeverEvicts` | `ImplementsEventTime` under the feed; no event is lost to the buffer |
| DataTheorems | lemmas about sequences, maxima and folds | - |

Assumptions. `EventAssumption`: times, offsets and values are integers, offsets
are distinct, the goroutines are finitely many (events need not be).
`SourceAssumption`, `WindowAssumption`, `CheckpointAssumption`: bounds and
capacities are naturals, those the code divides by or fills are positive, the
sentinel is no event. `EngineAssumption`: the pipeline's edges are acyclic and
join its operators. `RouterAssumption`: the hash gives a partition below the
count. `SessionAssumption`: every event has a key and a time, the sentinel for "no
session" is no session. `KeyedAssumption`: the sentinel for "no event" is no event.
`FrontierAssumption`: watermarks are integers. `FeedAssumption`: one goroutine;
the events are numbered and have the timestamps of the generator's script
(`generator.go`), for any number `MaxEvents` of them; the source takes any
timestamp the feed advances to; the buffer has at least 8 places and a window is
at most 9400 ms long. The last two are 256 and 5000 in the demo (`config.go`);
9400 is what the final advance of 10000 ms leaves when the jitter sets the last
event back by 600, so a longer window could stay open at shutdown. Nothing is
assumed of the idle gap or of which events are pings. DagValidate needs no
assumption.

Each component has one inductive invariant; none of the properties is inductive
alone.

- **SourceInv.** `DrainedBeforeConfirm` says nothing of a frontier that a
  goroutine will publish later. Added: `PendingCounts` (`pending` is the number
  of goroutines between pop and acknowledgement, so leaving the wait loop means
  nothing is in transit), `BufferAhead` (no goroutine past its drain has a
  target that covers a buffered on-time event), `TransitAhead` (nor one past its
  wait, for one in transit; a goroutine still waiting may cover it, that is what
  it waits for) and `confirmed <= current`. The hard step is the pass through
  the drain loop, stated once for the call and for each acknowledgement
  (`DrainLoopKeeps`).
- **TopologyInv.** Outside a resume nothing is left to replay, and only a paused
  topology replays; with `AppliedOnce` this makes "the offset is marked" and
  "apply saw the record" the same (`AppliedIsOutput`), which uses that offsets
  are distinct.
- **WindowInv.** `ResultMatchesOutcome` speaks of published windows only. The
  invariant says of every window that folding the values collected so far is
  the tally of the events accepted so far (`Collected`, `Tally`: count, sum,
  least, greatest), that an unpublished result is untouched, and that a
  goroutine about to trigger acts on a watermark that was confirmed
  (`ObservedConfirmed`). For Max it says that the fold is the greatest of 0 and
  the accepted values, from which the theorem's case follows.
  `CombineIsFold` follows from how `Merge` commutes with
  one more `Apply` (`MergeApply`, `MergeFirst`), by induction on the length.
- **CatalogInv.** `CatalogAgrees` compares two stores that change one after the
  other, so the invariant says of every window what its row shows for each call
  that may still be pending (`RowOK`, in terms of `Shows`): with none, state and
  counts of the window (`Settled`); before "open" no row, before "event" or
  "late" one event less, before "close" an open row of a published window. That
  no other change of the window comes in between is the lock `Manager.mu`.
- **EngineInv.** The three invariants above, whose step lemmas are reused as
  they stand, and three ties: `Handover` (what was handed over was applied or is
  parked, what is parked was postponed, only emitted events are applied),
  `Classified` (the windows classified exactly the data events that were
  applied) and `LateExcused` (an on-time event is late only if it was evicted
  or postponed). An event lies before the end of its window (`WindowCovers`,
  also for negative times), so a closed window is behind the confirmed
  watermark, and `DrainedBeforeConfirm` then says where its events are:
  `PublishedComplete` holds in every state that satisfies the invariant, and
  that is also why the next event found late is excused.
- **The refinement.** `EngineImplementsEventTime` is `EngineSpec =>
  Promise!AbsSpec`: initial states map to initial states, and under `EngineInv`
  every step of the engine is one abstract step or none, one lemma per abstract
  action (`ArriveStep`, `SettleStep`, `DelayStep`, `SuspendStep`, `RaiseStep`,
  `FireStep`). `Raise` needs that a waiting event is ahead of the *tentative*
  watermark (`WaitingIsAhead`); `Fire` that only windows with an accepted event
  are open; `Arrive` that the evicted event is still in the engine's hands.
- **CheckpointInv.** `PositionInv` for the offsets; `JournalInv`: the bridge
  holds not only for committed snapshots but for one a goroutine holds between
  the fence and the end of `Commit`, and a snapshot's number never exceeds the
  newest; `DeltaInv`: the offset in work is among the processed and a pending
  round has finitely many keys; `SinkRecordsOK`: the two lists of the sink are
  consecutive numbers, which the loop of `CommitUpTo` keeps for any barrier.
- **RouterInv.** A cached route, and one taken since the last resize, is the
  hash under the current count (`RoutesAreHashes`).
- **SessionInv.** `Placed` says where each data event is; `EndsScanned` that
  published sessions end before the latest scan; and for a key touched in order
  and ahead of the scans, that its open session starts after every published
  one and that each published one reaches a timeout past its last value.

- **DagInv.** `ValidateDecides` speaks of the end of the search only. The stack
  is a path without repetitions, made of exactly the operators marked 1
  (`StackIsMarked`, `StackIsPath`), so meeting one of them again closes a cycle;
  an edge out of a finished operator ends in a finished one (`FinishedClosed`),
  and the finished ones contain no cycle (`FinishedAcyclic`), since the operator
  that finishes has no edge to itself or to one on the stack. `RootsReached`
  says that an operator left unvisited at the end has no edge.
- **FeedInv.** `EngineInv` and what the loop adds. `Cursor`: rounds, offset and
  emitted events are the same number, and the generator stands before the offset
  only while the skip that undoes the rewind is still on the agenda. `Clock`:
  `lastTS` is the newest event's time or 300 past it. `BufferNear`: the advance
  of every third round leaves at most the five newest events, because the
  jitter moves an event by less than 600 (`ScriptTimes`); so at most eight wait
  and none is evicted, whatever the idle detector does. `CallStands`: what the
  call under way has drained. `Closing`: a stopped feed has only the final call
  left, and how far that call has come (`LastCall`); each open window has an
  accepted event, which the final target passes together with the window's end
  (`FinalPasses`). `CommittedIsDurable` is kept because outputs only grow
  (`OutputsGrow`), and a barrier equal to the offset flushes all records, as
  there are never more outputs than emitted events (`OutputsBelowOffset`). Every
  step of the feed is a step of the engine (`FeedStepRefines`), so
  `FeedImplementsEventTime` follows from the engine's refinement.

Induction over data. The provers cannot instantiate an induction theorem that
takes the claim as a parameter. DataTheorems states induction as the absence of
a least counterexample in a *set* of numbers or subsets (`AllNumbers`,
`AllSubsets`), shows that a fold over a finite set exists, is typed and is
unique (`FoldExists`, `FoldType`, `FoldsAgree`), and from that what the folds of
the community modules compute: `SumFunctionOnSet` over one element more or less
(`SumAdd`, `SumRemove`), and `FoldLeft` over one value more (`FoldLast`). The
results' `ApplyAll`, the router's `Total` and the sink's `DeliverAll` are those
folds, so that the loops of `EmitResult`, `Repartition` and `CommitUpTo` are
proved for lists of any length.

EngineProofs extends WindowProofs for its lemmas and so also sees the constant
`Frontier` of WindowLayer and the variables of Catalog, which none of its
statements mentions; the same holds of FeedProofs.

TLC checked `SourceInv`, `CatalogInv` (47 888 states), `SessionInv`,
`EngineInv`, `DagInv` (all graphs of three operators) and `FeedInv` (the feed
run's instance) as invariants before they were proved.

Only model-checked: the liveness properties `AdvanceReturns`, `WindowsFire`,
`ValidateReturns` and `FeedResponds`, since fairness and `ENABLED` are outside
the prover's reach. Every invariant and every action property of the passing
runs, and the refinement, is stated by a theorem.

## 5. Not modelled

- The sink's throttle is a threshold test that no writer consults.
- Metrics are independent counters that nothing reads back.
- Configuration fills in defaults and checks ranges; its values are the
  constants of the modules.
- The HTTP handlers and the monitoring page print what readers of the other
  components return. Of `main`, the signal and the wait for the feed are in
  Feed.
- xxhash is third-party; Router takes it as any function of key and count.

Within the modelled parts: opening times in the catalog, the latest-value map
of the state backend (its version bump is kept), the `Buffered` field of an
operator and the sequence numbers of manifest and log are shown and never read
back. Integers are unbounded: event times, offsets and sums are 64-bit in the
code and stay far from overflow in any realistic run.

## 6. Plan

Done, in this order: Source with its proof, Windows, Topology and DagValidate,
Engine with the EventTime refinement, StateBackend, Sink and Checkpoint, then
Results with the combiner, Router, Sessions, retry and delta rounds in
Checkpoint, pings in Engine, and Feed; then the proofs of every safety property,
those of DagValidate and Feed last; then the catalog as a module with steps of
its own, and Keyed.

What could come next: an engine that also carries the checkpoint path, so that
`CommittedIsDurable` is stated for concurrent callers and not for the demo's one
goroutine only; and a bound on the snapshot fence under a limited rate of
mutations, from which its termination could be checked.
