-------------------------------- MODULE Feed --------------------------------
(***************************************************************************)
(* The demo runtime: the feed loop of cmd/streamengine/demo.go, with the   *)
(* event generator (internal/source/generator.go) and the idle detector    *)
(* (internal/watermark/idle.go), driving the engine from one goroutine.    *)
(*                                                                         *)
(* The generator's event with index i is i itself, so an event is its own  *)
(* offset.  A tick emits one event and then makes the calls that are due   *)
(* in its round, one after the other: they are the agenda.  A call is made *)
(* once the previous one has returned.  The resize of the router touches   *)
(* nothing of this path (see Router).                                      *)
(*                                                                         *)
(* The numbers are those of the source, in milliseconds and rounds.        *)
(***************************************************************************)
EXTENDS Engine

CONSTANTS
  feed,        \* the goroutine of runDemoFeed
  IdleGap,     \* EngineConfig.IdleTimeoutMS
  MaxEvents    \* bound on the ticks: the generator stops after as many events

(* Generator.Next with the demo's script: timestamp, kind and value. *)
GeneratedTs(i) == 1000 + 60 * i + ((7 * i) % 600)

IsPing(i) == i % 17 = 0

GeneratedValue(i) == (i % 97) + 1

(* The script's timestamps; a source that takes every timestamp the feed   *)
(* advances to; a buffer for the eight events that can wait in it when no  *)
(* idle advance comes, and windows the last advance of 10000 passes (256   *)
(* and 5000 in the demo).                                                  *)
ASSUME FeedAssumption ==
  /\ Thread = {feed}
  /\ MaxEvents \in Nat \ {0}
  /\ Event = 0..(MaxEvents - 1)
  /\ IdleGap \in Nat
  /\ \A i \in Event : Ts[i] = GeneratedTs(i)
  /\ 0..(60 * MaxEvents + 12000) \subseteq Target
  /\ MaxSize >= 8
  /\ WindowSize <= 9400

VARIABLES
  round,        \* round
  agenda,       \* the calls this tick still makes
  next,         \* Generator.next
  offset,       \* offset
  lastTS,       \* lastTS
  fired,        \* IdleDetector.fired
  committed,    \* the last committed checkpoint offset
  flushed,      \* number of records the sink has committed
  signalled,    \* main closed the stop channel
  finished,     \* runDemoFeed returned and closed done
  heldBack      \* history: events not yet processed at a checkpoint

cursorVars == <<round, next, offset>>
commitVars == <<committed, flushed, heldBack>>
endVars == <<signalled, finished>>
feedVars == <<engineVars, agenda, cursorVars, lastTS, fired, commitVars,
              endVars>>

FeedInit ==
  /\ EngineInit
  /\ round = 0
  /\ agenda = {}
  /\ next = 0
  /\ offset = 0
  /\ lastTS = 0
  /\ fired = 0
  /\ committed = 0
  /\ flushed = 0
  /\ signalled = FALSE
  /\ finished = FALSE
  /\ heldBack = {}
-----------------------------------------------------------------------------
(* The calls of the loop, in the order of its body. *)
Rank == [advance |-> 1, checkpoint |-> 2, pause |-> 3, applyNow |-> 4,
         resume |-> 5, retry |-> 6, skip |-> 7, idle |-> 8, final |-> 9]

(* The conditions of the loop body. *)
Due(call, r) ==
  \/ call = "advance" /\ r % 3 = 0
  \/ call = "checkpoint" /\ r % 17 = 0
  \/ call \in {"pause", "applyNow"} /\ r % 29 = 0
  \/ call = "resume" /\ r % 29 = 7
  \/ call \in {"retry", "skip"} /\ r % 37 = 0
  \/ call = "idle"

AgendaOf(r) == {call \in DOMAIN Rank : Due(call, r)}

(* The feed is between two calls. *)
Between == pc[feed] = "idle" /\ wpc[feed] = "idle" /\ ~replaying

(* The loop is at its select, or past it for good. *)
AtSelect == Between /\ agenda = {}

(* The event of this tick. *)
ThisEvent == offset - 1

(* case <-tick.C, up to the first condition. *)
Tick ==
  /\ AtSelect
  /\ ~stopped
  /\ next < MaxEvents
  /\ round' = round + 1
  /\ EmitEvent(next)
  /\ next' = next + 1
  /\ offset' = next + 1
  /\ lastTS' = Ts[next]
  /\ agenda' = AgendaOf(round + 1)
  /\ UNCHANGED <<fired, commitVars, endVars>>

(* The next call of the tick is c. *)
Make(c) ==
  /\ Between
  /\ c \in agenda
  /\ \A d \in agenda : Rank[c] <= Rank[d]
  /\ agenda' = agenda \ {c}

(* pipeline.Advance(advanceTo) *)
CallAdvance ==
  /\ Make("advance")
  /\ PipelineAdvance(feed, Ts[ThisEvent] + 300)
  /\ lastTS' = Ts[ThisEvent] + 300
  /\ UNCHANGED <<cursorVars, fired, commitVars, endVars>>

(* Records the sink was given by the first n events processed: one for     *)
(* each data event, numbered from 1.                                       *)
Records(n) == Cardinality({k \in 1..n : outputs[k] \notin Ping})

Written == Records(Len(outputs))

(* Sink.CommitUpTo: records with a sequence number up to the barrier. *)
MutCommitUpTo(barrier) ==
  LET upTo == IF committed < Written THEN committed ELSE Written IN
  IF upTo > flushed THEN upTo ELSE flushed

CommitUpTo(barrier) ==
  LET upTo == IF barrier < Written THEN barrier ELSE Written IN
  IF upTo > flushed THEN upTo ELSE flushed

(* pipeline.RunCheckpoint(offset): the sink is flushed, then the offset    *)
(* committed.  The emitted events that were not processed stay behind.     *)
CallCheckpoint ==
  /\ Make("checkpoint")
  /\ flushed' = CommitUpTo(offset)
  /\ committed' = offset
  /\ heldBack' = heldBack \cup ((0..(offset - 1)) \ Range(outputs))
  /\ UNCHANGED <<engineVars, cursorVars, lastTS, fired, endVars>>

CallPause ==
  /\ Make("pause")
  /\ PauseTopology
  /\ UNCHANGED <<cursorVars, lastTS, fired, commitVars, endVars>>

(* pipeline.Topology.ApplyNow(ev) *)
CallApplyNow ==
  /\ Make("applyNow")
  /\ CompleteElsewhere(ThisEvent)
  /\ UNCHANGED <<cursorVars, lastTS, fired, commitVars, endVars>>

(* pipeline.Topology.Resume(), which does nothing unless paused. *)
CallResume ==
  /\ Make("resume")
  /\ IF paused THEN ResumeTopology ELSE UNCHANGED engineVars
  /\ UNCHANGED <<cursorVars, lastTS, fired, commitVars, endVars>>

(* Generator.ReplayFrom *)
ReplayFrom(position) == IF position >= 0 THEN position ELSE next

(* RetryCheckpoint calls back with the last committed offset. *)
CallRetry ==
  /\ Make("retry")
  /\ next' = ReplayFrom(committed)
  /\ UNCHANGED <<engineVars, round, offset, lastTS, fired, commitVars, endVars>>

(* Generator.SkipTo *)
MutSkipTo(position) == next

SkipTo(position) == IF position > next THEN position ELSE next

CallSkip ==
  /\ Make("skip")
  /\ next' = SkipTo(offset)
  /\ UNCHANGED <<engineVars, round, offset, lastTS, fired, commitVars, endVars>>

(* IdleDetector.lastEvent: NoteEvent sets it for every event processed. *)
LastEvent == IF outputs = <<>> THEN 0 ELSE Ts[Last(outputs)]

(* IdleDetector.ShouldAdvance *)
ShouldAdvance(now) == now - LastEvent >= IdleGap

CallIdle ==
  /\ Make("idle")
  /\ IF ShouldAdvance(lastTS + 4000)
     THEN fired' = fired + 1 /\ PipelineAdvance(feed, lastTS + 4000)
     ELSE UNCHANGED <<fired, engineVars>>
  /\ UNCHANGED <<cursorVars, lastTS, commitVars, endVars>>

(* main: a signal closes the stop channel, at any moment. *)
Signal ==
  /\ ~signalled
  /\ signalled' = TRUE
  /\ UNCHANGED <<engineVars, agenda, cursorVars, lastTS, fired, commitVars,
                 finished>>

(* case <-stop: the source is stopped ... *)
StopFeed ==
  /\ AtSelect
  /\ signalled
  /\ StopSource
  /\ agenda' = {"final"}
  /\ UNCHANGED <<cursorVars, lastTS, fired, commitVars, endVars>>

(* ... one last Advance passes every window ... *)
MutFinalTarget == lastTS + 300

FinalTarget == lastTS + 10000

CallFinal ==
  /\ Make("final")
  /\ PipelineAdvance(feed, FinalTarget)
  /\ UNCHANGED <<cursorVars, lastTS, fired, commitVars, endVars>>

(* ... and runDemoFeed returns. *)
Return ==
  /\ AtSelect
  /\ stopped
  /\ ~finished
  /\ finished' = TRUE
  /\ UNCHANGED <<engineVars, agenda, cursorVars, lastTS, fired, commitVars,
                 signalled>>

(* The engine works on the call under way. *)
EngineWorks ==
  /\ AdvanceStep(feed) \/ ResumeStep
  /\ UNCHANGED <<agenda, cursorVars, lastTS, fired, commitVars, endVars>>

FeedStep ==
  \/ CallAdvance
  \/ CallCheckpoint
  \/ CallPause
  \/ CallApplyNow
  \/ CallResume
  \/ CallRetry
  \/ CallSkip
  \/ CallIdle
  \/ CallFinal
  \/ Return
  \/ EngineWorks

FeedNext == Tick \/ Signal \/ StopFeed \/ FeedStep

(* The goroutine keeps running.  A select with the ticker and the stop     *)
(* channel both ready picks one of them at random, so it does not choose   *)
(* the ticker for ever.  Nobody is obliged to tick or to send a signal.    *)
FeedSpec ==
  /\ FeedInit
  /\ [][FeedNext]_feedVars
  /\ WF_feedVars(FeedStep)
  /\ SF_feedVars(StopFeed)
-----------------------------------------------------------------------------
(***************************************************************************)
(* The rewind is undone (demo.go, round 37; generator.go, ReplayFrom and   *)
(* SkipTo): whenever the loop waits for the next tick the generator stands *)
(* at the feed's offset, so no event is emitted a second time and none is  *)
(* skipped, whatever checkpoint the retry rewound to.                      *)
(***************************************************************************)
CursorAtOffset == agenda = {} => next = offset

(* The data events whose sink record is committed. *)
Durable ==
  {outputs[k] : k \in {j \in DOMAIN outputs :
                        outputs[j] \notin Ping /\ Records(j) <= flushed}}

(***************************************************************************)
(* What a committed offset is worth (checkpoint.go, Commit; sink.go,       *)
(* CommitUpTo; demo.go, round 17): every data event below it is committed  *)
(* by the sink, except those that sat in the reorder buffer or the pause   *)
(* buffer when a checkpoint ran, although the sink's barrier counts        *)
(* records and the offset counts events, pings included.                   *)
(***************************************************************************)
CommittedIsDurable ==
  (0..(committed - 1)) \ Ping \subseteq Durable \cup heldBack

(***************************************************************************)
(* Shutdown loses nothing the topology has not parked (demo.go, the stop   *)
(* case): when the feed has returned, the reorder buffer is empty, no      *)
(* window is open, and every emitted data event was accepted or reported   *)
(* late, except those a paused topology still holds.                       *)
(***************************************************************************)
FinishedMeansPublished ==
  finished =>
    /\ buffer = {}
    /\ \A w \in Window : wstate[w] # "open"
    /\ (0..(offset - 1)) \ Ping =
         accepted \cup late \cup {e \in parked \ Ping : ~IsApplied(e)}
    /\ ~paused => parked = {}

(***************************************************************************)
(* The feed stays responsive (demo.go, the select; source.go, AdvanceTo):  *)
(* every call returns, so the loop keeps coming back to its select; and    *)
(* once main has closed the stop channel the feed returns, paused or not,  *)
(* and main, which waits for it, goes on.                                  *)
(***************************************************************************)
FeedResponds ==
  /\ []<>AtSelect
  /\ signalled ~> finished

(***************************************************************************)
(* What idle.go says of the detector: it advances the watermark during     *)
(* quiet periods, when no events arrive for the idle gap.  When it fires,  *)
(* the newest event is then at least the gap behind the feed's clock.      *)
(***************************************************************************)
IdleOnlyWhenQuiet ==
  [][fired' > fired => lastTS - Ts[ThisEvent] >= IdleGap]_feedVars
=============================================================================
