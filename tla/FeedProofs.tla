----------------------------- MODULE FeedProofs -----------------------------
(***************************************************************************)
(* The demo feed, for any number of ticks: it is a run of the engine, so   *)
(* all that is proved of the engine holds under it; the generator is never *)
(* left rewound; a committed offset is durable but for what was held back; *)
(* and a shutdown leaves nothing behind that the topology has not parked.  *)
(***************************************************************************)
EXTENDS Feed, EngineProofs

FeedTypeOK ==
  /\ round \in Nat /\ next \in Nat /\ offset \in Nat
  /\ committed \in Nat /\ flushed \in Nat
  /\ agenda \subseteq DOMAIN Rank
  /\ lastTS \in Int
  /\ signalled \in BOOLEAN /\ finished \in BOOLEAN

(* The feed's offset counts its rounds and the events emitted; only        *)
(* between a retry and its skip does the generator stand before it.        *)
Cursor ==
  /\ round = offset /\ offset <= MaxEvents /\ committed <= offset
  /\ next <= offset
  /\ next # offset => "skip" \in agenda
  /\ "retry" \in agenda => "skip" \in agenda
  /\ "advance" \in agenda => offset % 3 = 0
  /\ agenda \subseteq {"final"} \/ offset > 0
  /\ \A e \in Event : arrival[e] # "none" <=> e < offset

(* The feed's clock is the last event's timestamp or 300 past it. *)
Clock ==
  IF offset = 0 THEN lastTS = 0
  ELSE lastTS = Ts[offset - 1] \/ lastTS = Ts[offset - 1] + 300

Draining == pc[feed] \in {"ingest", "ack"}

(* Only recent events wait in the buffer: an advance, due every third      *)
(* round, leaves at most those the jitter put ahead of it.  So the buffer  *)
(* never evicts.                                                           *)
BufferNear ==
  /\ \A e \in buffer : offset <= e + 8
  /\ "advance" \notin agenda /\ ~(Draining /\ offset % 3 = 0) =>
       \A e \in buffer : offset <= e + 5 + (offset % 3)
  /\ Draining /\ offset > 0 => Ts[offset - 1] + 300 <= target[feed]
  /\ overflowed = {}

(* Where the call under way stands: it has drained what its target covers, *)
(* and the notification follows the return of AdvanceTo.                   *)
CallStands ==
  /\ pc[feed] \notin {"idle", "ingest", "ack"} =>
       \A e \in buffer : target[feed] < Ts[e]
  /\ wpc[feed] # "idle" => pc[feed] = "idle"

(* The last call passes everything that was emitted. *)
LastCall ==
  /\ target[feed] = FinalTarget
  /\ ~Draining => buffer = {}
  /\ pc[feed] = "confirm" => target[feed] <= current
  /\ pc[feed] \in {"count", "store", "idle"} => target[feed] <= confirmed
  /\ wpc[feed] \in {"trigger", "closing"} => target[feed] <= observed[feed]
  /\ pc[feed] = "idle" /\ wpc[feed] = "idle" =>
       \A w \in Window : wstate[w] # "open"

Closing ==
  /\ ~stopped => "final" \notin agenda /\ ~finished
  /\ stopped => agenda \subseteq {"final"} /\ ~replaying
  /\ stopped /\ agenda # {} => pc[feed] = "idle" /\ wpc[feed] = "idle"
  /\ stopped /\ agenda = {} => LastCall
  /\ finished => AtSelect /\ stopped

FeedInv ==
  /\ EngineInv
  /\ FeedTypeOK
  /\ Cursor
  /\ Clock
  /\ BufferNear
  /\ CallStands
  /\ Closing
  /\ CommittedIsDurable
-----------------------------------------------------------------------------
(***************************************************************************)
(* What the script and the invariant say of the numbers.                   *)
(***************************************************************************)
LEMMA FeedFacts ==
  /\ Thread = {feed} /\ feed \in Thread
  /\ MaxEvents \in Nat /\ Event = 0..(MaxEvents - 1) /\ Event \subseteq Nat
  /\ MaxSize \in Nat /\ MaxSize >= 8
  /\ WindowSize \in Nat \ {0} /\ WindowSize <= 9400
BY FeedAssumption, SourceAssumption, WindowAssumption

(* The jitter sets an event back by less than 600, so a target 300 past an *)
(* event leaves at most the four events before it.                         *)
LEMMA ScriptTimes ==
  /\ \A i \in Event : Ts[i] \in Nat /\ 1000 <= Ts[i] /\ Ts[i] <= 60 * MaxEvents + 1600
  /\ \A i, j \in Event : i <= j => Ts[i] <= Ts[j] + 600
  /\ \A i, j \in Event : i <= j /\ Ts[j] + 300 < Ts[i] => j <= i + 4
<1>1. \A i \in Event : i \in Nat /\ i <= MaxEvents - 1 /\ MaxEvents \in Nat
  BY FeedFacts
<1>2. \A i \in Event : /\ (7 * i) % 600 \in 0..599
                       /\ Ts[i] = 1000 + 60 * i + ((7 * i) % 600)
  BY <1>1, FeedAssumption DEF GeneratedTs
<1> QED BY <1>1, <1>2

LEMMA FeedTypes ==
  ASSUME EngineInv
  PROVE  /\ pc \in [Thread -> Location] /\ pc[feed] \in Location
         /\ target \in [Thread -> Int] /\ target[feed] \in Int
         /\ wpc \in [Thread -> {"idle", "notify", "trigger", "closing"}]
         /\ wpc[feed] \in {"idle", "notify", "trigger", "closing"}
         /\ observed \in [Thread -> Int] /\ observed[feed] \in Int
         /\ current \in Int /\ confirmed \in Int /\ confirmed <= current
         /\ buffer \subseteq Event /\ overflowed \subseteq Event
         /\ arrival \in [Event -> {"none", "ontime", "gap", "late"}]
         /\ outputs \in Seq(Event)
BY FeedFacts DEF EngineInv, SourceInv, SourceTypeOK, WindowInv, WindowTypeOK,
                 TopologyInv, TopologyTypeOK

(* The event of a tick and the clock after it. *)
LEMMA TickFacts ==
  ASSUME FeedInv, offset > 0
  PROVE  /\ ThisEvent \in Event /\ ThisEvent = offset - 1
         /\ Ts[ThisEvent] \in Nat
         /\ lastTS \in Nat /\ Ts[ThisEvent] <= lastTS /\ lastTS <= Ts[ThisEvent] + 300
<1>1. offset \in Nat /\ offset <= MaxEvents /\ MaxEvents \in Nat
  BY FeedFacts DEF FeedInv, FeedTypeOK, Cursor
<1>2. ThisEvent \in Event /\ ThisEvent = offset - 1
  BY <1>1, FeedFacts DEF ThisEvent
<1>3. Ts[ThisEvent] \in Nat
  BY <1>2, ScriptTimes
<1>4. lastTS = Ts[ThisEvent] \/ lastTS = Ts[ThisEvent] + 300
  BY <1>1, <1>2 DEF FeedInv, Clock
<1> QED BY <1>2, <1>3, <1>4

(* Every timestamp the feed advances to is one the source takes. *)
LEMMA ClockFacts ==
  ASSUME FeedInv
  PROVE  /\ lastTS \in Nat
         /\ lastTS + 4000 \in Target /\ FinalTarget \in Target
         /\ offset > 0 => Ts[ThisEvent] + 300 \in Target
         /\ \A e \in Event : e < offset => Ts[e] <= lastTS + 600
<1>1. offset \in Nat /\ MaxEvents \in Nat /\ 0..(60 * MaxEvents + 12000) \subseteq Target
  BY FeedAssumption DEF FeedInv, FeedTypeOK
<1>2. CASE offset = 0
  <2>1. lastTS = 0
    BY <1>2 DEF FeedInv, Clock
  <2>2. \A e \in Event : ~(e < 0)
    BY FeedFacts
  <2> QED BY <1>1, <1>2, <2>1, <2>2 DEF FinalTarget
<1>3. CASE offset > 0
  <2>1. /\ ThisEvent \in Event /\ ThisEvent = offset - 1 /\ Ts[ThisEvent] \in Nat
        /\ lastTS \in Nat /\ Ts[ThisEvent] <= lastTS
        /\ lastTS <= Ts[ThisEvent] + 300
    BY <1>3, TickFacts
  <2>2. Ts[ThisEvent] <= 60 * MaxEvents + 1600
    BY <2>1, ScriptTimes
  <2>3. Ts[ThisEvent] + 300 \in Target
    BY <1>1, <2>1, <2>2
  <2>4. lastTS + 4000 \in Target /\ FinalTarget \in Target
    BY <1>1, <2>1, <2>2 DEF FinalTarget
  <2>5. ASSUME NEW e \in Event, e < offset PROVE Ts[e] <= lastTS + 600
    <3>1. e \in Nat /\ e <= ThisEvent
      BY <1>1, <2>1, <2>5, FeedFacts
    <3>2. Ts[e] <= Ts[ThisEvent] + 600 /\ Ts[e] \in Nat
      BY <2>1, <3>1, ScriptTimes
    <3> QED BY <2>1, <3>2
  <2> QED BY <2>1, <2>3, <2>4, <2>5
<1> QED BY <1>1, <1>2, <1>3
-----------------------------------------------------------------------------
(***************************************************************************)
(* The feed drives the engine: each of its steps is one of the engine's,   *)
(* or leaves the engine alone.                                             *)
(***************************************************************************)
LEMMA FeedStepRefines ==
  ASSUME FeedInv, [FeedNext]_feedVars
  PROVE  [EngineNext]_engineVars
<1>1. /\ feed \in Thread /\ Event = 0..(MaxEvents - 1) /\ MaxEvents \in Nat
      /\ next \in Nat /\ offset \in Nat
  BY FeedFacts DEF FeedInv, FeedTypeOK
<1>2. CASE Tick
  <2>1. next \in Event /\ EmitEvent(next)
    BY <1>1, <1>2 DEF Tick
  <2>2. PICK e \in Event : e = next
    BY <2>1
  <2>3. EmitEvent(e)
    BY <2>1, <2>2
  <2> QED BY <2>3 DEF EngineNext
<1>3. ASSUME CallAdvance \/ CallIdle \/ CallFinal
      PROVE  [EngineNext]_engineVars
  <2>1. CASE CallAdvance
    <3>1. offset > 0
      BY <2>1 DEF CallAdvance, Make, FeedInv, Cursor
    <3>2. PICK ts \in Target : ts = Ts[ThisEvent] + 300
      BY <3>1, ClockFacts
    <3>3. PipelineAdvance(feed, ts)
      BY <2>1, <3>2 DEF CallAdvance
    <3> QED BY <1>1, <3>3 DEF EngineNext
  <2>2. CASE CallIdle
    <3>1. PICK ts \in Target : ts = lastTS + 4000
      BY ClockFacts
    <3>2. PipelineAdvance(feed, ts) \/ UNCHANGED engineVars
      BY <2>2, <3>1 DEF CallIdle
    <3> QED BY <1>1, <3>2 DEF EngineNext
  <2>3. CASE CallFinal
    <3>1. PICK ts \in Target : ts = FinalTarget
      BY ClockFacts
    <3>2. PipelineAdvance(feed, ts)
      BY <2>3, <3>1 DEF CallFinal
    <3> QED BY <1>1, <3>2 DEF EngineNext
  <2> QED BY <1>3, <2>1, <2>2, <2>3
<1>4. CASE CallApplyNow
  <2>1. offset > 0
    BY <1>4 DEF CallApplyNow, Make, FeedInv, Cursor
  <2>2. PICK e \in Event : e = ThisEvent
    BY <2>1, TickFacts
  <2>3. CompleteElsewhere(e)
    BY <1>4, <2>2 DEF CallApplyNow
  <2> QED BY <2>3 DEF EngineNext
<1>5. CASE CallPause \/ CallResume \/ StopFeed
  BY <1>5 DEF CallPause, CallResume, StopFeed, EngineNext
<1>6. CASE EngineWorks
  BY <1>1, <1>6 DEF EngineWorks, EngineNext
<1>7. CASE CallCheckpoint \/ CallRetry \/ CallSkip \/ Signal \/ Return
  BY <1>7 DEF CallCheckpoint, CallRetry, CallSkip, Signal, Return
<1>8. CASE UNCHANGED feedVars
  BY <1>8 DEF feedVars
<1> QED BY <1>2, <1>3, <1>4, <1>5, <1>6, <1>7, <1>8 DEF FeedNext, FeedStep

LEMMA FeedKeepsEngine ==
  ASSUME FeedInv, [FeedNext]_feedVars
  PROVE  EngineInv'
<1>1. EngineInv
  BY DEF FeedInv
<1> QED BY <1>1, FeedStepRefines, EngineStepInv
-----------------------------------------------------------------------------
(***************************************************************************)
(* The steps of a call as the feed sees them.                              *)
(***************************************************************************)
(* The drain loop pops an event, or ends with nothing left that is due. *)
Drained(ts) ==
  /\ buffer' \subseteq buffer
  /\ \/ pc'[feed] = "ingest"
     \/ /\ pc'[feed] \in {"waiting", "advance"}
        /\ \A e \in buffer' : ts < Ts[e]

SameTracker == current' = current /\ confirmed' = confirmed

SameTrigger == wpc'[feed] = wpc[feed] /\ observed'[feed] = observed[feed]

LEMMA LoopDrains ==
  ASSUME EngineInv, NEW ts \in Int, NEW p,
         NEW locs \in [Thread -> Location], DrainLoop(feed, ts, p, locs)
  PROVE  Drained(ts)
<1>1. feed \in Thread /\ buffer \subseteq Event /\ \A e \in Event : Ts[e] \in Int
  BY FeedFacts, FeedTypes, EventAssumption
<1>2. CASE SomethingDue(ts)
  BY <1>1, <1>2 DEF DrainLoop, PopMin, Drained
<1>3. CASE ~SomethingDue(ts)
  <2>1. buffer' = buffer /\ pc'[feed] \in {"waiting", "advance"}
    BY <1>1, <1>3 DEF DrainLoop
  <2>2. \A e \in buffer : ts < Ts[e]
    BY <1>1, <1>3 DEF SomethingDue
  <2> QED BY <2>1, <2>2 DEF Drained
<1> QED BY <1>2, <1>3

(* Pipeline.Advance is called. *)
LEMMA AdvanceMoves ==
  ASSUME EngineInv, NEW ts \in Int, PipelineAdvance(feed, ts)
  PROVE  /\ Drained(ts) /\ target'[feed] = ts
         /\ pc[feed] = "idle" /\ wpc[feed] = "idle"
         /\ SameTracker /\ SameTrigger
         /\ UNCHANGED <<arrival, overflowed, stopped, topologyVars, windowVars>>
<1>1. AdvanceTo(feed, ts) /\ wpc[feed] = "idle" /\ UNCHANGED <<topologyVars, windowVars>>
  BY DEF PipelineAdvance
<1>2. pc \in [Thread -> Location] /\ target \in [Thread -> Int] /\ feed \in Thread
  BY FeedTypes, FeedFacts
<1>3. /\ pc[feed] = "idle" /\ target' = [target EXCEPT ![feed] = ts]
      /\ DrainLoop(feed, ts, pending, pc)
      /\ UNCHANGED <<arrival, overflowed, stopped, trackerVars>>
  BY <1>1 DEF AdvanceTo
<1>4. PICK p : p = pending
  OBVIOUS
<1>5. PICK locs \in [Thread -> Location] : locs = pc
  BY <1>2
<1>6. DrainLoop(feed, ts, p, locs)
  BY <1>3, <1>4, <1>5
<1>7. Drained(ts)
  BY <1>6, LoopDrains
<1> QED BY <1>1, <1>2, <1>3, <1>7 DEF SameTracker, SameTrigger, trackerVars, windowVars

(* ingest(ev) runs. *)
LEMMA DeliverMoves ==
  ASSUME EngineInv, Deliver(feed)
  PROVE  /\ pc[feed] = "ingest" /\ pc'[feed] = "ack"
         /\ SameTracker /\ SameTrigger
         /\ UNCHANGED <<buffer, target, arrival, overflowed, stopped, replaying>>
         /\ ~replaying
<1>1. Ingest(feed) /\ ~replaying /\ replaying' = replaying
  BY DEF Deliver, Process, resumeVars
<1>2. wpc' = wpc /\ observed' = observed
  <2>1. UNCHANGED windowVars \/ ApplyToWindows(inflight[feed])
    BY DEF Deliver
  <2> QED BY <2>1 DEF ApplyToWindows, IngestWindow, windowVars
<1>3. pc \in [Thread -> Location] /\ feed \in Thread
  BY FeedTypes, FeedFacts
<1> QED BY <1>1, <1>2, <1>3 DEF Ingest, SameTracker, SameTrigger, trackerVars

(* The acknowledgement, with the next turn of the drain loop. *)
LEMMA AckMoves ==
  ASSUME EngineInv, Ack(feed)
  PROVE  /\ pc[feed] = "ack" /\ Drained(target[feed]) /\ SameTracker
         /\ UNCHANGED <<target, arrival, overflowed, stopped>>
<1>1. pc \in [Thread -> Location] /\ target[feed] \in Int
  BY FeedTypes
<1>2. Broadcast \in [Thread -> Location]
  BY <1>1 DEF Broadcast, Location
<1>3. PICK locs \in [Thread -> Location] : locs = Broadcast
  BY <1>2
<1>4. PICK p : p = pending - 1
  OBVIOUS
<1>5. PICK ts \in Int : ts = target[feed]
  BY <1>1
<1>6. DrainLoop(feed, ts, p, locs)
  BY <1>3, <1>4, <1>5 DEF Ack
<1>7. Drained(target[feed])
  BY <1>5, <1>6, LoopDrains
<1> QED BY <1>7 DEF Ack, SameTracker, historyVars, trackerVars

(* The steps after the drain, up to the return of AdvanceTo. *)
LEMMA ConfirmMoves ==
  ASSUME EngineInv,
         \/ Wake(feed) \/ AdvanceTracker(feed) \/ ConfirmTracker(feed)
         \/ CountLoad(feed) \/ CountStore(feed)
  PROVE  /\ UNCHANGED <<buffer, target, arrival, overflowed, stopped>>
         /\ \/ /\ pc[feed] = "woken" /\ pc'[feed] \in {"waiting", "advance"}
               /\ SameTracker
            \/ /\ pc[feed] = "advance" /\ pc'[feed] = "confirm"
               /\ target[feed] <= current' /\ confirmed' = confirmed
            \/ /\ pc[feed] = "confirm" /\ pc'[feed] = "count"
               /\ current <= confirmed' /\ current' = current
            \/ /\ pc[feed] = "count" /\ pc'[feed] = "store" /\ SameTracker
            \/ /\ pc[feed] = "store" /\ pc'[feed] = "idle" /\ SameTracker
<1>1. /\ pc \in [Thread -> Location] /\ feed \in Thread /\ target[feed] \in Int
      /\ current \in Int /\ confirmed \in Int
  BY FeedTypes, FeedFacts
<1>2. UNCHANGED <<buffer, target, arrival, overflowed, stopped>>
  BY DEF Wake, AdvanceTracker, ConfirmTracker, CountLoad, CountStore, historyVars
<1>3. CASE Wake(feed)
  BY <1>1, <1>2, <1>3 DEF Wake, SameTracker, trackerVars
<1>4. CASE AdvanceTracker(feed)
  <2>1. current' = Larger(target[feed], current) /\ confirmed' = confirmed
    BY <1>4 DEF AdvanceTracker, Advance
  <2>2. target[feed] <= current'
    BY <1>1, <2>1 DEF Larger
  <2> QED BY <1>1, <1>2, <1>4, <2>1, <2>2 DEF AdvanceTracker
<1>5. CASE ConfirmTracker(feed)
  <2>1. confirmed' = Larger(current, confirmed) /\ current' = current
    BY <1>5 DEF ConfirmTracker, Confirm
  <2>2. current <= confirmed'
    BY <1>1, <2>1 DEF Larger
  <2> QED BY <1>1, <1>2, <1>5, <2>1, <2>2 DEF ConfirmTracker
<1>6. CASE CountLoad(feed)
  BY <1>1, <1>2, <1>6 DEF CountLoad, SameTracker, trackerVars
<1>7. CASE CountStore(feed)
  BY <1>1, <1>2, <1>7 DEF CountStore, SameTracker, trackerVars
<1> QED BY <1>3, <1>4, <1>5, <1>6, <1>7

(* A step on the call under way, seen from the feed. *)
Works ==
  \/ /\ pc[feed] = "ingest" /\ pc'[feed] = "ack" /\ buffer' = buffer
     /\ SameTracker /\ SameTrigger /\ replaying' = replaying
  \/ /\ pc[feed] = "ack" /\ Drained(target[feed])
     /\ SameTracker /\ SameTrigger /\ replaying' = replaying
  \/ /\ pc[feed] = "woken" /\ pc'[feed] \in {"waiting", "advance"}
     /\ buffer' = buffer
     /\ SameTracker /\ SameTrigger /\ replaying' = replaying
  \/ /\ pc[feed] = "advance" /\ pc'[feed] = "confirm" /\ buffer' = buffer
     /\ target[feed] <= current' /\ confirmed' = confirmed
     /\ SameTrigger /\ replaying' = replaying
  \/ /\ pc[feed] = "confirm" /\ pc'[feed] = "count" /\ buffer' = buffer
     /\ current <= confirmed' /\ current' = current
     /\ SameTrigger /\ replaying' = replaying
  \/ /\ pc[feed] = "count" /\ pc'[feed] = "store" /\ buffer' = buffer
     /\ SameTracker /\ SameTrigger /\ replaying' = replaying
  \/ /\ pc[feed] = "store" /\ pc'[feed] = "idle" /\ buffer' = buffer
     /\ wpc'[feed] = "notify" /\ SameTracker /\ replaying' = replaying
  \/ /\ wpc[feed] = "notify" /\ wpc'[feed] = "trigger" /\ buffer' = buffer
     /\ pc' = pc /\ observed'[feed] = confirmed
     /\ SameTracker /\ replaying' = replaying
  \/ /\ wpc[feed] \in {"trigger", "closing"} /\ wpc'[feed] = "closing"
     /\ observed' = observed /\ buffer' = buffer
     /\ pc' = pc /\ SameTracker /\ replaying' = replaying
  \/ /\ wpc[feed] \in {"trigger", "closing"} /\ wpc'[feed] = "idle"
     /\ buffer' = buffer
     /\ pc' = pc /\ SameTracker /\ replaying' = replaying
     /\ \A w \in Window : wstate'[w] = "open" =>
                            wstate[w] = "open" /\ ~(End(w) <= observed[feed])
  \/ /\ replaying /\ pc' = pc /\ buffer' = buffer
     /\ SameTracker /\ SameTrigger

LEMMA WorkMoves ==
  ASSUME EngineInv, EngineWorks
  PROVE  UNCHANGED <<target, arrival, overflowed, stopped>> /\ Works
<1>1. /\ feed \in Thread
      /\ wpc \in [Thread -> {"idle", "notify", "trigger", "closing"}]
      /\ observed \in [Thread -> Int]
  BY FeedTypes, FeedFacts
<1>2. CASE Deliver(feed)
  BY <1>2, DeliverMoves DEF Works
<1>3. CASE SourceStep(feed)
  <2>1. SameTrigger /\ replaying' = replaying
    BY <1>3 DEF SourceStep, SameTrigger, windowVars, topologyVars, resumeVars
  <2>2. CASE Ack(feed)
    BY <2>1, <2>2, AckMoves DEF Works
  <2>3. CASE Wake(feed) \/ AdvanceTracker(feed) \/ ConfirmTracker(feed) \/ CountLoad(feed)
    <3>1. pc[feed] # "store"
      BY <2>3 DEF Wake, AdvanceTracker, ConfirmTracker, CountLoad
    <3> QED BY <2>1, <2>3, <3>1, ConfirmMoves DEF Works
  <2> QED BY <1>3, <2>2, <2>3 DEF SourceStep
<1>4. CASE AdvanceToReturns(feed)
  <2>1. CountStore(feed) /\ wpc'[feed] = "notify" /\ replaying' = replaying
    BY <1>1, <1>4 DEF AdvanceToReturns, topologyVars, resumeVars
  <2>2. pc[feed] = "store"
    BY <2>1 DEF CountStore
  <2> QED BY <2>1, <2>2, ConfirmMoves DEF Works
<1>5. CASE Notify(feed) \/ FireWindows(feed) \/ ResumeStep
  <2>1. UNCHANGED <<sourceVars>>
    BY <1>5 DEF Notify, FireWindows, ResumeStep
  <2>2. /\ UNCHANGED <<target, arrival, overflowed, stopped>>
        /\ pc' = pc /\ buffer' = buffer /\ SameTracker
    BY <2>1 DEF sourceVars, threadVars, historyVars, trackerVars, SameTracker
  <2>3. CASE Notify(feed)
    <3>1. wpc[feed] = "notify" /\ wpc'[feed] = "trigger" /\ observed'[feed] = confirmed
      BY <1>1, <2>3 DEF Notify, ReadConfirmed
    <3>2. replaying' = replaying
      BY <2>3 DEF Notify, topologyVars, resumeVars
    <3> QED BY <2>2, <3>1, <3>2 DEF Works
  <2>4. CASE FireWindows(feed)
    <3>1. replaying' = replaying
      BY <2>4 DEF FireWindows, topologyVars, resumeVars
    <3>2. ASSUME NEW w \in Window, CloseWindow(feed, w) PROVE Works
      <4>1. /\ wpc[feed] \in {"trigger", "closing"} /\ wpc'[feed] = "closing"
            /\ observed' = observed
        BY <1>1, <3>2 DEF CloseWindow, InLoop
      <4> QED BY <2>2, <3>1, <4>1 DEF Works
    <3>3. CASE EndTrigger(feed)
      <4>1. wpc[feed] \in {"trigger", "closing"} /\ wpc'[feed] = "idle"
        BY <1>1, <3>3 DEF EndTrigger, InLoop
      <4>2. \A w \in Window : wstate'[w] = "open" =>
                                wstate[w] = "open" /\ ~(End(w) <= observed[feed])
        BY <3>3 DEF EndTrigger, DueFor, CanClose
      <4> QED BY <2>2, <3>1, <4>1, <4>2 DEF Works
    <3> QED BY <2>2, <2>4, <3>2, <3>3 DEF FireWindows
  <2>5. CASE ResumeStep
    <3>1. replaying
      BY <2>5 DEF ResumeStep, ReplayNext, ResumeEnd
    <3>2. wpc' = wpc /\ observed' = observed
      BY <2>5 DEF ResumeStep, ApplyToWindows, IngestWindow, windowVars
    <3> QED BY <2>2, <3>1, <3>2 DEF Works, SameTrigger
  <2> QED BY <1>5, <2>3, <2>4, <2>5
<1> QED BY <1>2, <1>3, <1>4, <1>5 DEF EngineWorks, AdvanceStep

(* The calls that make no advance leave source, tracker and trigger alone. *)
QuietCall ==
  \/ CallCheckpoint \/ CallPause \/ CallApplyNow \/ CallResume
  \/ CallRetry \/ CallSkip \/ Signal \/ Return
  \/ CallIdle /\ UNCHANGED engineVars
  \/ UNCHANGED feedVars

LEMMA QuietMoves ==
  ASSUME QuietCall
  PROVE  /\ UNCHANGED <<buffer, pc, target, arrival, overflowed, stopped>>
         /\ SameTracker /\ SameTrigger
<1>1. CASE UNCHANGED engineVars
  BY <1>1 DEF engineVars, sourceVars, threadVars, historyVars, trackerVars,
              windowVars, SameTracker, SameTrigger
<1>2. CASE PauseTopology \/ ResumeTopology \/ CompleteElsewhere(ThisEvent)
  <2>1. UNCHANGED sourceVars
    BY <1>2 DEF PauseTopology, ResumeTopology, CompleteElsewhere
  <2>2. wpc' = wpc /\ observed' = observed
    BY <1>2 DEF PauseTopology, ResumeTopology, CompleteElsewhere, ApplyToWindows,
                IngestWindow, windowVars
  <2> QED BY <2>1, <2>2 DEF sourceVars, threadVars, historyVars, trackerVars,
                            SameTracker, SameTrigger
<1>3. UNCHANGED feedVars => UNCHANGED engineVars
  BY DEF feedVars
<1> QED BY <1>1, <1>2, <1>3 DEF QuietCall, CallCheckpoint, CallPause, CallApplyNow,
           CallResume, CallRetry, CallSkip, Signal, Return

(* The calls that make one, with its target. *)
AdvanceCall(ts) ==
  /\ PipelineAdvance(feed, ts)
  /\ \/ CallAdvance /\ ts = Ts[ThisEvent] + 300
     \/ CallIdle /\ ts = lastTS + 4000
     \/ CallFinal /\ ts = FinalTarget

(* A tick emits the event at the offset. *)
LEMMA TickMoves ==
  ASSUME FeedInv, Tick
  PROVE  /\ next = offset /\ next \in Event /\ offset' = offset + 1
         /\ round' = offset + 1 /\ next' = offset + 1
         /\ agenda = {} /\ agenda' = AgendaOf(offset + 1)
         /\ lastTS' = Ts[offset]
         /\ Add(offset)
         /\ \A e \in Event : arrival'[e] # "none" <=> (arrival[e] # "none" \/ e = offset)
         /\ UNCHANGED <<pc, target, stopped, committed, flushed, heldBack,
                        signalled, finished, topologyVars, windowVars>>
         /\ ~stopped /\ pc[feed] = "idle" /\ wpc[feed] = "idle"
<1>1. /\ agenda = {} /\ Emit(next) /\ next < MaxEvents /\ ~stopped
      /\ UNCHANGED <<topologyVars, windowVars>>
      /\ pc[feed] = "idle" /\ wpc[feed] = "idle"
  BY DEF Tick, AtSelect, Between, EmitEvent
<1>2. next = offset /\ next \in Nat /\ round = offset
  BY <1>1 DEF FeedInv, Cursor, FeedTypeOK
<1>3. next \in Event
  BY <1>1, <1>2, FeedFacts
<1>4. PICK n \in Event : n = next
  BY <1>3
<1>5. Emit(n) /\ SourceInv
  BY <1>1, <1>4 DEF FeedInv, EngineInv
<1>6. \A e \in Event : arrival'[e] # "none" <=> (arrival[e] # "none" \/ e = n)
  <2>1. /\ arrival' = [arrival EXCEPT ![n] = arrival'[n]]
        /\ arrival'[n] \in {"ontime", "gap", "late"}
    BY <1>5, EmitFacts
  <2>2. arrival \in [Event -> {"none", "ontime", "gap", "late"}]
    BY <1>5 DEF SourceInv, SourceTypeOK
  <2> QED BY <2>1, <2>2
<1>7. Add(offset) /\ UNCHANGED <<pc, target, stopped>>
  BY <1>1, <1>2 DEF Emit, threadVars
<1> QED BY <1>1, <1>2, <1>3, <1>4, <1>6, <1>7 DEF Tick, commitVars, endVars

(* Every step of the feed is one of these. *)
LEMMA FeedCases ==
  ASSUME FeedInv, [FeedNext]_feedVars
  PROVE  \/ Tick
         \/ QuietCall
         \/ \E ts \in Int : AdvanceCall(ts)
         \/ StopFeed
         \/ EngineWorks
<1>1. Target \subseteq Int
  BY SourceAssumption
<1>2. CASE CallAdvance
  <2>1. offset > 0
    BY <1>2 DEF CallAdvance, Make, FeedInv, Cursor
  <2>2. PICK ts \in Int : ts = Ts[ThisEvent] + 300
    <3>1. Ts[ThisEvent] \in Int
      BY <2>1, TickFacts
    <3> QED BY <3>1
  <2>3. PipelineAdvance(feed, ts)
    BY <1>2, <2>2 DEF CallAdvance
  <2> QED BY <1>2, <2>2, <2>3 DEF AdvanceCall
<1>3. CASE CallIdle
  <2>1. PICK ts \in Int : ts = lastTS + 4000
    BY <1>1, ClockFacts
  <2>2. PipelineAdvance(feed, ts) \/ UNCHANGED engineVars
    BY <1>3, <2>1 DEF CallIdle
  <2> QED BY <1>3, <2>1, <2>2 DEF AdvanceCall, QuietCall
<1>4. CASE CallFinal
  <2>1. PICK ts \in Int : ts = FinalTarget
    <3>1. lastTS \in Int
      BY ClockFacts
    <3> QED BY <3>1 DEF FinalTarget
  <2>2. PipelineAdvance(feed, ts)
    BY <1>4, <2>1 DEF CallFinal
  <2> QED BY <1>4, <2>1, <2>2 DEF AdvanceCall
<1> QED BY <1>2, <1>3, <1>4 DEF FeedNext, FeedStep, QuietCall
-----------------------------------------------------------------------------
(***************************************************************************)
(* The cursor and the clock.                                               *)
(***************************************************************************)
LEMMA AgendaFacts ==
  ASSUME NEW r \in Nat
  PROVE  /\ AgendaOf(r) \subseteq DOMAIN Rank
         /\ "final" \notin AgendaOf(r)
         /\ "retry" \in AgendaOf(r) => "skip" \in AgendaOf(r)
         /\ "advance" \in AgendaOf(r) <=> r % 3 = 0
BY DEF AgendaOf, Due, Rank

(* A call takes its entry off the agenda; the retry precedes the skip. *)
LEMMA MakeFacts ==
  ASSUME NEW c, Make(c)
  PROVE  /\ c \in agenda /\ agenda' = agenda \ {c}
         /\ pc[feed] = "idle" /\ wpc[feed] = "idle" /\ ~replaying
         /\ c = "skip" => "retry" \notin agenda
BY DEF Make, Between, Rank

LEMMA CursorKeeps ==
  ASSUME FeedInv, [FeedNext]_feedVars
  PROVE  FeedTypeOK' /\ Cursor' /\ Clock'
<1>1. /\ round \in Nat /\ next \in Nat /\ offset \in Nat /\ committed \in Nat
      /\ flushed \in Nat /\ agenda \subseteq DOMAIN Rank /\ lastTS \in Int
      /\ signalled \in BOOLEAN /\ finished \in BOOLEAN
  BY DEF FeedInv, FeedTypeOK
<1>2. Cursor /\ Clock /\ MaxEvents \in Nat
  BY FeedFacts DEF FeedInv
<1>3. CASE Tick
  <2> DEFINE A == AgendaOf(offset + 1)
  <2>1. /\ next = offset /\ next \in Event /\ offset' = offset + 1
        /\ round' = offset + 1 /\ next' = offset + 1
        /\ agenda' = A /\ lastTS' = Ts[offset]
        /\ \A e \in Event : arrival'[e] # "none" <=> (arrival[e] # "none" \/ e = offset)
        /\ UNCHANGED <<committed, flushed, heldBack, signalled, finished>>
    BY <1>3, TickMoves
  <2>2. /\ A \subseteq DOMAIN Rank /\ "final" \notin A
        /\ "retry" \in A => "skip" \in A
        /\ "advance" \in A <=> (offset + 1) % 3 = 0
    BY <1>1, AgendaFacts
  <2> HIDE DEF A
  <2>3. Ts[offset] \in Int /\ offset <= MaxEvents - 1
    BY <2>1, FeedFacts, ScriptTimes
  <2>4. FeedTypeOK'
    BY <1>1, <2>1, <2>2, <2>3 DEF FeedTypeOK
  <2>5. Clock'
    BY <1>1, <2>1 DEF Clock
  <2>6. \A e \in Event : arrival'[e] # "none" <=> e < offset'
    <3>1. \A e \in Event : e \in Nat
      BY FeedFacts
    <3> QED BY <1>1, <1>2, <2>1, <3>1 DEF Cursor
  <2>7. Cursor'
    BY <1>1, <1>2, <2>1, <2>2, <2>3, <2>6 DEF Cursor
  <2> QED BY <2>4, <2>5, <2>7
<1>4. CASE arrival' = arrival /\ ~Tick
  <2>1. CASE CallAdvance
    <3>1. /\ agenda' = agenda \ {"advance"} /\ offset > 0
          /\ UNCHANGED <<round, next, offset, committed, flushed, heldBack,
                         signalled, finished>>
          /\ lastTS' = Ts[ThisEvent] + 300
      BY <1>2, <2>1, MakeFacts
         DEF CallAdvance, cursorVars, commitVars, endVars, Cursor
    <3>2. ThisEvent = offset - 1 /\ Ts[ThisEvent] \in Int
      BY <3>1, TickFacts
    <3>3. FeedTypeOK' /\ Clock'
      BY <1>1, <3>1, <3>2 DEF FeedTypeOK, Clock
    <3>4. Cursor'
      BY <1>1, <1>2, <1>4, <3>1 DEF Cursor
    <3> QED BY <3>3, <3>4
  <2>2. CASE CallCheckpoint
    <3>1. /\ agenda' = agenda \ {"checkpoint"} /\ committed' = offset
          /\ UNCHANGED <<round, next, offset, lastTS, signalled, finished>>
          /\ flushed' = CommitUpTo(offset)
      BY <2>2, MakeFacts DEF CallCheckpoint, cursorVars, endVars
    <3>2. CommitUpTo(offset) \in Nat
      <4>1. Written \in Nat
        <5>1. Len(outputs) \in Nat
          BY FeedTypes DEF FeedInv
        <5>2. IsFiniteSet(1..Len(outputs))
          BY <5>1, FS_Interval
        <5>3. {k \in 1..Len(outputs) : outputs[k] \notin Ping} \in SUBSET (1..Len(outputs))
          OBVIOUS
        <5>4. IsFiniteSet({k \in 1..Len(outputs) : outputs[k] \notin Ping})
          BY <5>2, <5>3, FS_Subset
        <5> QED BY <5>4, FS_CardinalityType DEF Written, Records
      <4> QED BY <1>1, <4>1 DEF CommitUpTo
    <3>3. FeedTypeOK' /\ Clock'
      BY <1>1, <1>2, <3>1, <3>2 DEF FeedTypeOK, Clock
    <3>4. Cursor'
      BY <1>1, <1>2, <1>4, <3>1 DEF Cursor
    <3> QED BY <3>3, <3>4
  <2>3. CASE CallRetry
    <3>1. /\ agenda' = agenda \ {"retry"} /\ "retry" \in agenda
          /\ next' = committed
          /\ UNCHANGED <<round, offset, committed, flushed, lastTS, signalled, finished>>
      BY <1>1, <2>3, MakeFacts DEF CallRetry, ReplayFrom, commitVars, endVars
    <3>2. FeedTypeOK' /\ Clock'
      BY <1>1, <1>2, <3>1 DEF FeedTypeOK, Clock
    <3>3. Cursor'
      BY <1>1, <1>2, <1>4, <3>1 DEF Cursor
    <3> QED BY <3>2, <3>3
  <2>4. CASE CallSkip
    <3>1. /\ agenda' = agenda \ {"skip"} /\ "retry" \notin agenda
          /\ next' = SkipTo(offset)
          /\ UNCHANGED <<round, offset, committed, flushed, lastTS, signalled, finished>>
      BY <1>1, <2>4, MakeFacts DEF CallSkip, commitVars, endVars
    <3>2. next' = offset
      BY <1>1, <1>2, <3>1 DEF SkipTo, Cursor
    <3>3. FeedTypeOK' /\ Clock'
      BY <1>1, <1>2, <3>1, <3>2 DEF FeedTypeOK, Clock
    <3>4. Cursor'
      BY <1>1, <1>2, <1>4, <3>1, <3>2 DEF Cursor
    <3> QED BY <3>3, <3>4
  <2>5. CASE StopFeed
    <3>1. /\ agenda = {} /\ agenda' = {"final"}
          /\ UNCHANGED <<round, next, offset, committed, flushed, lastTS, signalled,
                         finished>>
      BY <2>5 DEF StopFeed, AtSelect, cursorVars, commitVars, endVars
    <3>2. FeedTypeOK' /\ Clock'
      BY <1>1, <1>2, <3>1 DEF FeedTypeOK, Clock, Rank
    <3>3. Cursor'
      BY <1>1, <1>2, <1>4, <3>1 DEF Cursor
    <3> QED BY <3>2, <3>3
  <2>6. ASSUME NEW c \in {"pause", "applyNow", "resume", "idle", "final"},
               agenda' = agenda \/ agenda' = agenda \ {c},
               UNCHANGED <<round, next, offset, committed, flushed, lastTS>>,
               signalled' \in BOOLEAN, finished' \in BOOLEAN
        PROVE  FeedTypeOK' /\ Cursor' /\ Clock'
    <3>1. FeedTypeOK' /\ Clock'
      BY <1>1, <1>2, <2>6 DEF FeedTypeOK, Clock
    <3>2. Cursor'
      BY <1>1, <1>2, <1>4, <2>6 DEF Cursor
    <3> QED BY <3>1, <3>2
  <2>7. CASE CallPause \/ CallApplyNow \/ CallResume \/ CallIdle \/ CallFinal
    <3>1. /\ UNCHANGED <<round, next, offset, committed, flushed, lastTS>>
          /\ signalled' \in BOOLEAN /\ finished' \in BOOLEAN
      BY <1>1, <2>7 DEF CallPause, CallApplyNow, CallResume, CallIdle, CallFinal,
                        cursorVars, commitVars, endVars
    <3>2. \E c \in {"pause", "applyNow", "resume", "idle", "final"} :
             agenda' = agenda \ {c}
      BY <2>7, MakeFacts DEF CallPause, CallApplyNow, CallResume, CallIdle, CallFinal
    <3> QED BY <2>6, <3>1, <3>2
  <2>8. CASE Signal \/ Return \/ EngineWorks \/ UNCHANGED feedVars
    <3>1. /\ UNCHANGED <<round, next, offset, committed, flushed, lastTS, agenda>>
          /\ signalled' \in BOOLEAN /\ finished' \in BOOLEAN
      BY <1>1, <2>8 DEF Signal, Return, EngineWorks, feedVars, cursorVars, commitVars,
                        endVars
    <3> QED BY <2>6, <3>1
  <2> QED BY <1>4, <2>1, <2>2, <2>3, <2>4, <2>5, <2>7, <2>8 DEF FeedNext, FeedStep
<1>5. Tick \/ arrival' = arrival
  <2>1. CASE QuietCall
    BY <2>1, QuietMoves
  <2>2. CASE \E ts \in Int : AdvanceCall(ts)
    BY <2>2, AdvanceMoves DEF FeedInv, AdvanceCall
  <2>3. CASE StopFeed
    BY <2>3 DEF StopFeed, StopSource, Stop, historyVars
  <2>4. CASE EngineWorks
    BY <2>4, WorkMoves DEF FeedInv
  <2> QED BY <2>1, <2>2, <2>3, <2>4, FeedCases
<1> QED BY <1>3, <1>4, <1>5
-----------------------------------------------------------------------------
(***************************************************************************)
(* The buffer.                                                             *)
(***************************************************************************)
(* What BufferNear says of a buffer b that is not being drained by an      *)
(* advance of this round.                                                  *)
Near(b, n) == \A e \in b : n <= e + 5 + (n % 3)

LEMMA SmallBuffer ==
  ASSUME NEW n \in Nat, NEW b \in SUBSET Nat, \A e \in b : e <= n /\ n <= e + 7
  PROVE  Cardinality(b) <= 8
<1> DEFINE low == IF n >= 7 THEN n - 7 ELSE 0
<1>1. low \in Int /\ low <= n /\ n - low + 1 <= 8
  OBVIOUS
<1>2. b \subseteq low..n
  OBVIOUS
<1> HIDE DEF low
<1>3. IsFiniteSet(low..n) /\ Cardinality(low..n) = n - low + 1
  BY <1>1, FS_Interval
<1>4. Cardinality(b) <= Cardinality(low..n) /\ IsFiniteSet(b)
  BY <1>2, <1>3, FS_Subset
<1>5. Cardinality(b) \in Nat
  BY <1>4, FS_CardinalityType
<1> QED BY <1>1, <1>3, <1>4, <1>5

(* A tick adds its event to at most seven. *)
LEMMA TickBuffer ==
  ASSUME FeedInv, Tick
  PROVE  BufferNear'
<1>1. /\ next = offset /\ next \in Event /\ offset' = offset + 1
      /\ agenda = {} /\ agenda' = AgendaOf(offset + 1)
      /\ Add(offset) /\ pc' = pc /\ target' = target /\ pc[feed] = "idle"
  BY TickMoves
<1>2. offset \in Nat /\ buffer \subseteq Event /\ Event \subseteq Nat /\ MaxSize \in Nat /\ MaxSize >= 8
  BY FeedFacts, FeedTypes DEF FeedInv, FeedTypeOK
<1>3. overflowed = {} /\ Near(buffer, offset)
  BY <1>1 DEF FeedInv, BufferNear, Draining, Near
<1>4. \A e \in buffer : e < offset
  BY <1>2 DEF FeedInv, Cursor, EngineInv, SourceInv, Custody
<1>5. PICK b \in SUBSET Nat : b = buffer \cup {offset}
  BY <1>2
<1>6. Cardinality(b) <= 8 /\ Cardinality(b) \in Nat
  <2>1. \A e \in b : e \in Nat /\ e <= offset /\ offset <= e + 7
    BY <1>2, <1>3, <1>4, <1>5 DEF Near
  <2>2. IsFiniteSet(b)
    <3>1. b \subseteq 0..offset
      BY <1>2, <2>1
    <3>2. IsFiniteSet(0..offset)
      BY <1>2, FS_Interval
    <3> QED BY <3>1, <3>2, FS_Subset
  <2> QED BY <1>2, <2>1, <2>2, SmallBuffer, FS_CardinalityType
<1>7. buffer' = b /\ overflowed' = {}
  <2>1. ~(Cardinality(b) > MaxSize)
    BY <1>2, <1>6
  <2> QED BY <1>1, <1>3, <1>5, <2>1 DEF Add
<1>8. \A e \in b : offset + 1 <= e + 8
  BY <1>2, <1>3, <1>5 DEF Near
<1>9. (offset + 1) % 3 # 0 => Near(b, offset + 1)
  BY <1>2, <1>3, <1>5 DEF Near
<1>10. "advance" \notin agenda' => Near(buffer', offset')
  BY <1>1, <1>2, <1>7, <1>9, AgendaFacts
<1>11. ~Draining'
  BY <1>1 DEF Draining
<1> QED BY <1>1, <1>7, <1>8, <1>10, <1>11 DEF BufferNear, Near

(* An advance that reaches 300 past the newest event leaves few behind. *)
LEMMA DrainLeaves ==
  ASSUME FeedInv, NEW ts \in Int, offset > 0, Ts[offset - 1] + 300 <= ts, Drained(ts)
  PROVE  /\ \A e \in buffer' : e \in buffer
         /\ pc'[feed] = "ingest" \/ Near(buffer', offset)
<1>1. offset \in Nat /\ buffer \subseteq Event /\ Event \subseteq Nat
  BY FeedFacts, FeedTypes DEF FeedInv, FeedTypeOK
<1>2. offset - 1 \in Event /\ Ts[offset - 1] \in Nat
  BY TickFacts
<1>3. \A e \in buffer : e < offset
  BY <1>1 DEF FeedInv, Cursor, EngineInv, SourceInv, Custody
<1>4. buffer' \subseteq buffer
  BY DEF Drained
<1>5. ASSUME pc'[feed] # "ingest" PROVE Near(buffer', offset)
  <2>1. SUFFICES ASSUME NEW e \in buffer' PROVE offset <= e + 5
    BY <1>1, <1>4 DEF Near
  <2>2. e \in Event /\ e <= offset - 1 /\ e \in Nat
    BY <1>1, <1>3, <1>4
  <2>3. ts < Ts[e] /\ Ts[e] \in Nat
    BY <1>5, <2>2, ScriptTimes DEF Drained
  <2>4. PICK j \in Event : j = offset - 1
    BY <1>2
  <2>5. Ts[j] + 300 < Ts[e]
    BY <1>2, <2>3, <2>4
  <2>6. j <= e + 4
    BY <2>2, <2>4, <2>5, ScriptTimes
  <2> QED BY <1>1, <2>2, <2>4, <2>6
<1> QED BY <1>4, <1>5

(* The advances of the feed reach 300 past the newest event. *)
LEMMA AdvanceReaches ==
  ASSUME FeedInv, NEW ts \in Int, AdvanceCall(ts)
  PROVE  /\ offset' = offset
         /\ offset > 0 => Ts[offset - 1] + 300 <= ts
         /\ CallAdvance \/ "advance" \notin agenda
         /\ CallFinal \/ offset > 0
<1>1. offset' = offset
  BY DEF AdvanceCall, CallAdvance, CallIdle, CallFinal, cursorVars
<1>2. ASSUME offset > 0 PROVE Ts[offset - 1] + 300 <= ts
  <2>1. /\ ThisEvent = offset - 1 /\ Ts[ThisEvent] \in Nat
        /\ lastTS \in Nat /\ Ts[ThisEvent] <= lastTS
    BY <1>2, TickFacts
  <2> QED BY <2>1 DEF AdvanceCall, FinalTarget
<1>3. CallAdvance \/ "advance" \notin agenda
  BY DEF AdvanceCall, CallIdle, CallFinal, Make, Rank
<1>4. CASE CallAdvance \/ CallIdle
  BY <1>4, <1>1, <1>2, <1>3 DEF CallAdvance, CallIdle, Make, FeedInv, Cursor
<1>5. CASE CallFinal
  BY <1>5, <1>1, <1>2, <1>3
<1> QED BY <1>4, <1>5 DEF AdvanceCall

LEMMA BufferKeeps ==
  ASSUME FeedInv, [FeedNext]_feedVars
  PROVE  BufferNear'
<1>1. /\ offset \in Nat /\ BufferNear /\ target[feed] \in Int
      /\ \A e \in buffer : e < offset
  <2>1. buffer \subseteq Event /\ offset \in Nat /\ target[feed] \in Int
    BY FeedTypes DEF FeedInv, FeedTypeOK
  <2> QED BY <2>1 DEF FeedInv, Cursor, EngineInv, SourceInv, Custody
<1>2. CASE Tick
  BY <1>2, TickBuffer
<1>3. CASE QuietCall
  <2>1. UNCHANGED <<buffer, pc, target, overflowed>>
    BY <1>3, QuietMoves
  <2>2. offset' = offset
    BY <1>3 DEF QuietCall, CallCheckpoint, CallPause, CallApplyNow, CallResume, CallRetry,
                CallSkip, CallIdle, Signal, Return, feedVars, cursorVars
  <2>3. "advance" \in agenda' <=> "advance" \in agenda
    <3>1. CASE agenda' = agenda
      BY <3>1
    <3>2. CASE \E c \in DOMAIN Rank \ {"advance"} : agenda' = agenda \ {c}
      BY <3>2
    <3> QED BY <1>3, <3>1, <3>2 DEF QuietCall, CallCheckpoint, CallPause, CallApplyNow,
          CallResume, CallRetry, CallSkip, CallIdle, Signal, Return, feedVars, Make, Rank
  <2> QED BY <1>1, <2>1, <2>2, <2>3 DEF BufferNear, Draining
<1>4. ASSUME NEW ts \in Int, AdvanceCall(ts) PROVE BufferNear'
  <2>1. /\ Drained(ts) /\ target'[feed] = ts /\ overflowed' = overflowed
        /\ pc[feed] = "idle"
    BY <1>4, AdvanceMoves DEF AdvanceCall, FeedInv
  <2>2. /\ offset' = offset
        /\ offset > 0 => Ts[offset - 1] + 300 <= ts
        /\ CallAdvance \/ "advance" \notin agenda
    BY <1>4, AdvanceReaches
  <2>3. CASE offset = 0
    <3>1. buffer' = {}
      BY <1>1, <2>1, <2>3, FeedTypes, FeedFacts DEF FeedInv, Drained
    <3> QED BY <1>1, <2>1, <2>2, <2>3, <3>1 DEF BufferNear
  <2>4. CASE offset > 0
    <3>1. /\ \A e \in buffer' : e \in buffer
          /\ pc'[feed] = "ingest" \/ Near(buffer', offset)
      BY <1>4, <2>1, <2>2, <2>4, DrainLeaves
    <3>2. \A e \in buffer' : offset <= e + 8
      BY <1>1, <3>1 DEF BufferNear
    <3>3. CASE pc'[feed] = "ingest"
      <4>1. Draining'
        BY <3>3 DEF Draining
      <4>2. offset % 3 = 0 \/ Near(buffer', offset)
        <5>1. CASE CallAdvance
          BY <5>1 DEF CallAdvance, Make, FeedInv, Cursor
        <5>2. CASE "advance" \notin agenda
          BY <1>1, <2>1, <3>1, <5>2 DEF BufferNear, Draining, Near
        <5> QED BY <2>2, <5>1, <5>2
      <4> QED BY <1>1, <2>1, <2>2, <3>2, <4>1, <4>2 DEF BufferNear, Near
    <3>4. CASE pc'[feed] # "ingest"
      <4>1. ~Draining'
        BY <2>1, <3>4 DEF Draining, Drained
      <4> QED BY <1>1, <2>1, <2>2, <3>1, <3>2, <3>4, <4>1 DEF BufferNear, Near
    <3> QED BY <3>3, <3>4
  <2> QED BY <1>1, <2>3, <2>4
<1>5. CASE StopFeed
  <2>1. /\ offset' = offset /\ agenda = {} /\ agenda' = {"final"} /\ pc[feed] = "idle"
        /\ UNCHANGED <<buffer, target, overflowed>> /\ pc' = Broadcast
    BY <1>5 DEF StopFeed, AtSelect, Between, StopSource, Stop, cursorVars, historyVars
  <2>2. pc'[feed] = "idle"
    BY <2>1, FeedFacts DEF Broadcast
  <2> QED BY <1>1, <2>1, <2>2 DEF BufferNear, Draining
<1>6. CASE EngineWorks
  <2>1. UNCHANGED <<target, overflowed>> /\ Works
    BY <1>6, WorkMoves DEF FeedInv
  <2>2. offset' = offset /\ agenda' = agenda
    BY <1>6 DEF EngineWorks, cursorVars
  <2>3. CASE pc[feed] = "ack" /\ Drained(target[feed])
    <3>1. Draining
      BY <2>3 DEF Draining
    <3>2. CASE offset = 0
      <4>1. buffer' = {}
        BY <1>1, <2>3, <3>2, FeedTypes, FeedFacts DEF FeedInv, Drained
      <4> QED BY <1>1, <2>1, <2>2, <3>2, <4>1 DEF BufferNear
    <3>3. CASE offset > 0
      <4>1. PICK ts \in Int : ts = target[feed]
        BY <1>1
      <4>2. /\ \A e \in buffer' : e \in buffer
            /\ pc'[feed] = "ingest" \/ Near(buffer', offset)
        <5>1. Drained(ts) /\ Ts[offset - 1] + 300 <= ts
          BY <1>1, <2>3, <3>1, <3>3, <4>1 DEF BufferNear
        <5> QED BY <3>3, <5>1, DrainLeaves
      <4>3. \A e \in buffer' : offset <= e + 8
        BY <1>1, <4>2 DEF BufferNear
      <4>4. CASE pc'[feed] = "ingest"
        <5>1. Draining'
          BY <4>4 DEF Draining
        <5> QED BY <1>1, <2>1, <2>2, <3>1, <4>2, <4>3, <5>1 DEF BufferNear
      <4>5. CASE pc'[feed] # "ingest"
        <5>1. ~Draining'
          BY <2>3, <4>5 DEF Draining, Drained
        <5> QED BY <1>1, <2>1, <2>2, <4>2, <4>3, <4>5, <5>1 DEF BufferNear, Near
      <4> QED BY <4>4, <4>5
    <3> QED BY <1>1, <3>2, <3>3
  <2>4. CASE buffer' = buffer /\ (Draining' <=> Draining)
    BY <1>1, <2>1, <2>2, <2>4 DEF BufferNear
  <2> QED BY <2>1, <2>3, <2>4 DEF Works, Draining
<1> QED BY <1>2, <1>3, <1>4, <1>5, <1>6, FeedCases
-----------------------------------------------------------------------------
(***************************************************************************)
(* The call under way.                                                     *)
(***************************************************************************)
LEMMA CallKeeps ==
  ASSUME FeedInv, [FeedNext]_feedVars
  PROVE  CallStands'
<1>1. /\ CallStands /\ pc[feed] \in Location
      /\ wpc[feed] \in {"idle", "notify", "trigger", "closing"}
  BY FeedTypes DEF FeedInv
<1>2. CASE Tick
  BY <1>2, TickMoves DEF CallStands, windowVars
<1>3. CASE QuietCall
  BY <1>1, <1>3, QuietMoves DEF CallStands, SameTrigger
<1>4. ASSUME NEW ts \in Int, AdvanceCall(ts) PROVE CallStands'
  <2>1. Drained(ts) /\ target'[feed] = ts /\ SameTrigger /\ wpc[feed] = "idle"
    BY <1>4, AdvanceMoves DEF AdvanceCall, FeedInv
  <2> QED BY <2>1 DEF CallStands, Drained, SameTrigger
<1>5. CASE StopFeed
  <2>1. pc[feed] = "idle" /\ wpc[feed] = "idle" /\ wpc' = wpc /\ pc' = Broadcast
    BY <1>5 DEF StopFeed, AtSelect, Between, StopSource, Stop, windowVars
  <2>2. pc'[feed] = "idle"
    BY <2>1, FeedFacts DEF Broadcast
  <2> QED BY <2>1, <2>2 DEF CallStands
<1>6. CASE EngineWorks
  <2>1. target' = target /\ Works
    BY <1>6, WorkMoves DEF FeedInv
  <2> QED BY <1>1, <2>1 DEF CallStands, Works, Drained, SameTrigger
<1> QED BY <1>2, <1>3, <1>4, <1>5, <1>6, FeedCases
-----------------------------------------------------------------------------
(***************************************************************************)
(* The shutdown.                                                           *)
(***************************************************************************)
(* A stopped feed makes no call but the last. *)
LEMMA StoppedQuiet ==
  ASSUME FeedInv, stopped, QuietCall
  PROVE  UNCHANGED <<agenda, lastTS, engineVars>>
<1>1. agenda \subseteq {"final"}
  BY DEF FeedInv, Closing
<1>2. \A c \in {"checkpoint", "pause", "applyNow", "resume", "retry", "skip", "idle"} :
         ~Make(c)
  BY <1>1 DEF Make
<1>3. Signal \/ Return \/ UNCHANGED feedVars
  BY <1>2 DEF QuietCall, CallCheckpoint, CallPause, CallApplyNow, CallResume, CallRetry,
              CallSkip, CallIdle
<1> QED BY <1>3 DEF Signal, Return, feedVars

(* The final target passes what was emitted and its windows. *)
LEMMA FinalPasses ==
  ASSUME FeedInv
  PROVE  /\ FinalTarget \in Int
         /\ \A e \in Event : e < offset => Ts[e] < FinalTarget
         /\ \A w \in Window : wstate[w] = "open" => End(w) \in Int /\ End(w) <= FinalTarget
<1>1. lastTS \in Nat /\ \A e \in Event : e < offset => Ts[e] <= lastTS + 600
  BY ClockFacts
<1>2. \A e \in Event : Ts[e] \in Nat
  BY ScriptTimes
<1>3. ASSUME NEW w \in Window, wstate[w] = "open"
      PROVE  End(w) \in Int /\ End(w) <= FinalTarget
  <2>1. Members(w, accepted) # {}
    BY <1>3 DEF FeedInv, EngineInv, WindowInv, WindowOK
  <2>2. PICK e \in accepted : WindowFor(Ts[e]) = w
    BY <2>1 DEF Members
  <2>3. e \in Range(outputs) /\ e \in Event
    BY <2>2 DEF FeedInv, EngineInv, Classified, WindowInv, WindowTypeOK
  <2>4. e < offset
    BY <2>3 DEF FeedInv, EngineInv, Handover, Cursor
  <2>5. Ts[e] \in Nat /\ Ts[e] <= lastTS + 600
    BY <1>1, <1>2, <2>3, <2>4
  <2>6. WindowSize \in Nat \ {0} /\ WindowSize <= 9400
    BY FeedFacts
  <2>7. w \in Int /\ w <= Ts[e]
    <3>1. WindowFor(Ts[e]) \in Int /\ WindowFor(Ts[e]) <= Ts[e]
      BY <2>5, <2>6 DEF WindowFor
    <3> QED BY <2>2, <3>1
  <2> QED BY <1>1, <2>5, <2>6, <2>7 DEF End, FinalTarget
<1> QED BY <1>1, <1>2, <1>3 DEF FinalTarget

(* The last call drains everything. *)
LEMMA LastDrain ==
  ASSUME FeedInv, Drained(FinalTarget)
  PROVE  \/ pc'[feed] = "ingest"
         \/ pc'[feed] \in {"waiting", "advance"} /\ buffer' = {}
<1>1. \A e \in buffer : e \in Event /\ e < offset
  <2>1. buffer \subseteq Event
    BY FeedTypes DEF FeedInv
  <2> QED BY <2>1 DEF FeedInv, Cursor, EngineInv, SourceInv, Custody
<1>2. \A e \in buffer : Ts[e] < FinalTarget /\ Ts[e] \in Nat /\ FinalTarget \in Int
  BY <1>1, FinalPasses, ScriptTimes
<1>3. CASE \A e \in buffer' : FinalTarget < Ts[e]
  <2>1. \A e \in buffer' : e \in buffer
    BY DEF Drained
  <2>2. \A e \in buffer' : FALSE
    BY <1>2, <1>3, <2>1
  <2> QED BY <2>2 DEF Drained
<1>4. CASE pc'[feed] = "ingest"
  BY <1>4
<1> QED BY <1>3, <1>4 DEF Drained

LEMMA LastCallKeeps ==
  ASSUME FeedInv, stopped, agenda = {}, EngineWorks
  PROVE  LastCall'
<1>1. /\ LastCall /\ CallStands /\ ~replaying /\ target[feed] = FinalTarget
      /\ pc[feed] \in Location
      /\ wpc[feed] \in {"idle", "notify", "trigger", "closing"}
  BY FeedTypes DEF FeedInv, Closing, LastCall
<1>2. target' = target /\ Works
  BY WorkMoves DEF FeedInv
<1>3. FinalTarget' = FinalTarget
  BY DEF EngineWorks, FinalTarget
<1>4. /\ target[feed] \in Int /\ current \in Int /\ confirmed \in Int
      /\ observed[feed] \in Int
  BY FeedTypes DEF FeedInv
<1>5. Window' = Window
  BY DEF Window
<1>6. CASE pc[feed] = "ingest" /\ pc'[feed] = "ack" /\ SameTrigger
  <2>1. wpc'[feed] = "idle"
    BY <1>1, <1>6 DEF CallStands, SameTrigger
  <2> QED BY <1>1, <1>2, <1>3, <1>6, <2>1 DEF LastCall, Draining
<1>7. CASE pc[feed] = "ack" /\ Drained(target[feed]) /\ SameTrigger
  <2>1. wpc'[feed] = "idle"
    BY <1>1, <1>7 DEF CallStands, SameTrigger
  <2>2. \/ pc'[feed] = "ingest"
        \/ pc'[feed] \in {"waiting", "advance"} /\ buffer' = {}
    BY <1>1, <1>7, LastDrain
  <2> QED BY <1>1, <1>2, <1>3, <1>7, <2>1, <2>2 DEF LastCall, Draining
<1>8. CASE /\ pc[feed] = "woken" /\ pc'[feed] \in {"waiting", "advance"}
           /\ buffer' = buffer /\ SameTrigger
  <2>1. wpc'[feed] = "idle" /\ buffer = {}
    BY <1>1, <1>8 DEF CallStands, SameTrigger, LastCall, Draining
  <2> QED BY <1>1, <1>2, <1>3, <1>8, <2>1 DEF LastCall
<1>9. CASE /\ pc[feed] = "advance" /\ pc'[feed] = "confirm" /\ buffer' = buffer
           /\ target[feed] <= current' /\ SameTrigger
  <2>1. wpc'[feed] = "idle" /\ buffer = {}
    BY <1>1, <1>9 DEF CallStands, SameTrigger, LastCall, Draining
  <2> QED BY <1>1, <1>2, <1>3, <1>9, <2>1 DEF LastCall
<1>10. CASE /\ pc[feed] = "confirm" /\ pc'[feed] = "count" /\ buffer' = buffer
            /\ current <= confirmed' /\ SameTrigger
  <2>1. wpc'[feed] = "idle" /\ buffer = {} /\ target[feed] <= current
    BY <1>1, <1>10 DEF CallStands, SameTrigger, LastCall, Draining
  <2>2. confirmed' \in Int
    BY FeedKeepsEngine, FeedTypes DEF FeedNext, FeedStep, EngineInv, SourceInv, SourceTypeOK
  <2>3. target[feed] <= confirmed'
    BY <1>4, <1>10, <2>1, <2>2
  <2> QED BY <1>1, <1>2, <1>3, <1>10, <2>1, <2>3 DEF LastCall
<1>11. CASE /\ pc[feed] = "count" /\ pc'[feed] = "store" /\ buffer' = buffer
            /\ SameTracker /\ SameTrigger
  <2>1. wpc'[feed] = "idle" /\ buffer = {} /\ target[feed] <= confirmed
    BY <1>1, <1>11 DEF CallStands, SameTrigger, LastCall, Draining
  <2> QED BY <1>1, <1>2, <1>3, <1>11, <2>1 DEF LastCall, SameTracker
<1>12. CASE /\ pc[feed] = "store" /\ pc'[feed] = "idle" /\ buffer' = buffer
            /\ wpc'[feed] = "notify" /\ SameTracker
  <2>1. buffer = {} /\ target[feed] <= confirmed
    BY <1>1, <1>12 DEF LastCall, Draining
  <2> QED BY <1>1, <1>2, <1>3, <1>12, <2>1 DEF LastCall, SameTracker
<1>13. CASE /\ wpc[feed] = "notify" /\ wpc'[feed] = "trigger" /\ buffer' = buffer
            /\ pc' = pc /\ observed'[feed] = confirmed /\ SameTracker
  <2>1. pc[feed] = "idle" /\ buffer = {} /\ target[feed] <= confirmed
    BY <1>1, <1>13 DEF CallStands, LastCall, Draining
  <2> QED BY <1>1, <1>2, <1>3, <1>13, <2>1 DEF LastCall, SameTracker
<1>14. CASE /\ wpc[feed] \in {"trigger", "closing"} /\ wpc'[feed] = "closing"
            /\ observed' = observed /\ buffer' = buffer
            /\ pc' = pc /\ SameTracker
  <2>1. /\ pc[feed] = "idle" /\ buffer = {} /\ target[feed] <= confirmed
        /\ target[feed] <= observed[feed]
    BY <1>1, <1>14 DEF CallStands, LastCall, Draining
  <2> QED BY <1>1, <1>2, <1>3, <1>14, <2>1 DEF LastCall, SameTracker
<1>15. CASE /\ wpc[feed] \in {"trigger", "closing"} /\ wpc'[feed] = "idle"
            /\ buffer' = buffer
            /\ pc' = pc /\ SameTracker
            /\ \A w \in Window : wstate'[w] = "open" =>
                                   wstate[w] = "open" /\ ~(End(w) <= observed[feed])
  <2>1. /\ pc[feed] = "idle" /\ buffer = {} /\ target[feed] <= confirmed
        /\ target[feed] <= observed[feed]
    BY <1>1, <1>15 DEF CallStands, LastCall, Draining
  <2>2. \A w \in Window : wstate'[w] # "open"
    <3>1. SUFFICES ASSUME NEW w \in Window, wstate'[w] = "open" PROVE FALSE
      OBVIOUS
    <3>2. wstate[w] = "open" /\ ~(End(w) <= observed[feed])
      BY <1>15, <3>1
    <3>3. End(w) \in Int /\ End(w) <= target[feed]
      BY <1>1, <3>2, FinalPasses
    <3> QED BY <1>4, <2>1, <3>2, <3>3
  <2> QED BY <1>1, <1>2, <1>3, <1>5, <1>15, <2>1, <2>2 DEF LastCall, SameTracker
<1> QED BY <1>1, <1>2, <1>6, <1>7, <1>8, <1>9, <1>10, <1>11, <1>12, <1>13, <1>14,
           <1>15 DEF Works

LEMMA ClosingKeeps ==
  ASSUME FeedInv, [FeedNext]_feedVars
  PROVE  Closing'
<1>1. Closing /\ CallStands
  BY DEF FeedInv
<1>2. CASE Tick
  <2>1. /\ ~stopped /\ stopped' = stopped /\ agenda' = AgendaOf(offset + 1)
        /\ finished' = finished
    BY <1>2, TickMoves
  <2>2. "final" \notin agenda'
    BY <2>1, AgendaFacts DEF FeedInv, FeedTypeOK
  <2>3. ~finished'
    BY <1>1, <2>1 DEF Closing
  <2> QED BY <2>1, <2>2, <2>3 DEF Closing
<1>3. CASE QuietCall /\ ~stopped
  <2>1. stopped' = stopped
    BY <1>3, QuietMoves
  <2>2. agenda' \subseteq agenda /\ finished' = finished
    BY <1>3 DEF QuietCall, CallCheckpoint, CallPause, CallApplyNow, CallResume, CallRetry,
                CallSkip, CallIdle, Signal, Return, Make, feedVars, endVars
  <2> QED BY <1>1, <1>3, <2>1, <2>2 DEF Closing
<1>4. CASE QuietCall /\ stopped
  <2>1. UNCHANGED <<agenda, lastTS, engineVars>>
    BY <1>4, StoppedQuiet
  <2>2. UNCHANGED <<stopped, replaying, pc, target, buffer, current, confirmed, wpc,
                    observed, wstate>>
    BY <2>1 DEF engineVars, sourceVars, threadVars, trackerVars, topologyVars, resumeVars,
                windowVars
  <2>3. Window' = Window
    BY DEF Window
  <2>4. LastCall' <=> LastCall
    BY <2>1, <2>2, <2>3 DEF LastCall, Draining, FinalTarget
  <2>5. AtSelect' <=> AtSelect
    BY <2>1, <2>2 DEF AtSelect, Between
  <2>6. finished' => finished \/ AtSelect
    BY <1>4 DEF QuietCall, CallCheckpoint, CallPause, CallApplyNow, CallResume, CallRetry,
                CallSkip, CallIdle, Signal, Return, feedVars, endVars
  <2> QED BY <1>1, <1>4, <2>1, <2>2, <2>4, <2>5, <2>6 DEF Closing
<1>5. ASSUME NEW ts \in Int, AdvanceCall(ts) PROVE Closing'
  <2>1. /\ Drained(ts) /\ target'[feed] = ts /\ SameTrigger /\ wpc[feed] = "idle"
        /\ stopped' = stopped /\ replaying' = replaying
    <3>1. UNCHANGED topologyVars => replaying' = replaying
      BY DEF topologyVars, resumeVars
    <3> QED BY <1>5, <3>1, AdvanceMoves DEF AdvanceCall, FeedInv
  <2>2. agenda' \subseteq agenda /\ finished' = finished /\ agenda # {}
    BY <1>5 DEF AdvanceCall, CallAdvance, CallIdle, CallFinal, Make, endVars
  <2>3. ~finished
    BY <1>1, <2>2 DEF Closing, AtSelect
  <2>4. CASE ~stopped
    BY <1>1, <2>1, <2>2, <2>4 DEF Closing
  <2>5. CASE stopped
    <3>1. agenda \subseteq {"final"} /\ ~replaying
      BY <1>1, <2>5 DEF Closing
    <3>2. CallFinal /\ ts = FinalTarget
      BY <1>5, <3>1 DEF AdvanceCall, CallAdvance, CallIdle, Make
    <3>3. agenda' = {} /\ FinalTarget' = FinalTarget
      BY <3>1, <3>2 DEF CallFinal, Make, FinalTarget
    <3>4. \/ pc'[feed] = "ingest"
          \/ pc'[feed] \in {"waiting", "advance"} /\ buffer' = {}
      BY <2>1, <3>2, LastDrain
    <3>5. LastCall'
      BY <2>1, <3>2, <3>3, <3>4 DEF LastCall, Draining, SameTrigger
    <3> QED BY <2>1, <2>2, <2>3, <3>1, <3>3, <3>5 DEF Closing
  <2> QED BY <2>4, <2>5
<1>6. CASE StopFeed
  <2>1. /\ ~stopped /\ stopped' /\ pc' = Broadcast /\ wpc' = wpc /\ replaying' = replaying
        /\ AtSelect /\ agenda' = {"final"} /\ finished' = finished
    BY <1>6 DEF StopFeed, StopSource, Stop, windowVars, topologyVars, resumeVars, endVars
  <2>2. pc'[feed] = "idle" /\ wpc'[feed] = "idle" /\ ~replaying'
    BY <2>1, FeedFacts DEF Broadcast, AtSelect, Between
  <2>3. ~finished'
    BY <1>1, <2>1 DEF Closing
  <2> QED BY <2>1, <2>2, <2>3 DEF Closing
<1>7. CASE EngineWorks
  <2>1. stopped' = stopped /\ Works
    BY <1>7, WorkMoves DEF FeedInv
  <2>2. agenda' = agenda /\ finished' = finished
    BY <1>7 DEF EngineWorks, endVars
  <2>3. pc[feed] # "idle" \/ wpc[feed] # "idle" \/ replaying
    BY <2>1 DEF Works
  <2>4. ~finished
    BY <1>1, <2>3 DEF Closing, AtSelect, Between
  <2>5. CASE ~stopped
    BY <1>1, <2>1, <2>2, <2>5 DEF Closing
  <2>6. CASE stopped
    <3>1. agenda = {} /\ ~replaying
      BY <1>1, <2>3, <2>6 DEF Closing
    <3>2. ~replaying'
      BY <2>1, <3>1 DEF Works
    <3>3. LastCall'
      BY <1>7, <2>6, <3>1, LastCallKeeps
    <3> QED BY <2>1, <2>2, <2>4, <3>1, <3>2, <3>3 DEF Closing
  <2> QED BY <2>5, <2>6
<1> QED BY <1>2, <1>3, <1>4, <1>5, <1>6, <1>7, FeedCases
-----------------------------------------------------------------------------
(***************************************************************************)
(* The sink.                                                               *)
(***************************************************************************)
(* The outputs keep what they hold and where. *)
OutputsGrow ==
  /\ Len(outputs) <= Len(outputs')
  /\ \A k \in 1..Len(outputs) : outputs'[k] = outputs[k]

LEMMA AppliedGrows ==
  ASSUME EngineInv, NEW e \in Event, ApplyLocked(e)
  PROVE  OutputsGrow
<1>1. outputs \in Seq(Event) /\ Len(outputs) \in Nat
  BY FeedTypes
<1>2. CASE outputs' = outputs
  BY <1>1, <1>2 DEF OutputsGrow
<1>3. CASE outputs' = Append(outputs, e)
  <2>1. /\ Len(Append(outputs, e)) = Len(outputs) + 1
        /\ \A k \in 1..Len(outputs) : Append(outputs, e)[k] = outputs[k]
    BY <1>1, AppendProperties
  <2> QED BY <1>1, <1>3, <2>1 DEF OutputsGrow
<1> QED BY <1>2, <1>3 DEF ApplyLocked

LEMMA EngineGrows ==
  ASSUME EngineInv, [EngineNext]_engineVars
  PROVE  OutputsGrow
<1>1. ASSUME outputs' = outputs PROVE OutputsGrow
  <2>1. Len(outputs) \in Nat
    BY FeedTypes
  <2> QED BY <1>1, <2>1 DEF OutputsGrow
<1>2. UNCHANGED topologyVars => outputs' = outputs
  BY DEF topologyVars
<1>3. ASSUME NEW e \in Event, EmitEvent(e) \/ CompleteElsewhere(e) PROVE OutputsGrow
  BY <1>1, <1>2, <1>3, AppliedGrows DEF EmitEvent, CompleteElsewhere, ApplyNow
<1>4. CASE StopSource
  BY <1>1, <1>2, <1>4 DEF StopSource
<1>5. ASSUME NEW t \in Thread, NEW ts \in Target, PipelineAdvance(t, ts) PROVE OutputsGrow
  BY <1>1, <1>2, <1>5 DEF PipelineAdvance
<1>6. ASSUME NEW t \in Thread, AdvanceStep(t) PROVE OutputsGrow
  <2>1. CASE Deliver(t)
    <3>1. PICK e \in Event : e = inflight[t]
      BY <2>1, DeliveredEvent
    <3>2. Process(e)
      BY <2>1, <3>1 DEF Deliver
    <3> QED BY <1>1, <3>2, AppliedGrows DEF Process
  <2>2. CASE ~Deliver(t)
    BY <1>1, <1>2, <1>6, <2>2 DEF AdvanceStep, SourceStep, AdvanceToReturns, Notify,
                                  FireWindows
  <2> QED BY <2>1, <2>2
<1>7. CASE PauseTopology \/ ResumeTopology
  BY <1>1, <1>7 DEF PauseTopology, ResumeTopology, Pause, ResumeBegin
<1>8. CASE ResumeStep
  BY <1>1, <1>8, AppliedGrows DEF ResumeStep, ReplayNext, ResumeEnd
<1>9. CASE UNCHANGED engineVars
  BY <1>1, <1>2, <1>9 DEF engineVars
<1> QED BY <1>3, <1>4, <1>5, <1>6, <1>7, <1>8, <1>9 DEF EngineNext

(* The positions of the data events among the first n outputs. *)
DataAt(n) == {k \in 1..n : outputs[k] \notin Ping}

LEMMA RecordsFacts ==
  ASSUME EngineInv, NEW j \in 1..Len(outputs)
  PROVE  /\ Records(j) \in Nat /\ Written \in Nat
         /\ Records(j) <= Written /\ Written <= Len(outputs)
<1>1. Len(outputs) \in Nat
  BY FeedTypes
<1>2. IsFiniteSet(1..Len(outputs)) /\ Cardinality(1..Len(outputs)) = Len(outputs)
  <2>1. Cardinality(1..Len(outputs)) = IF 1 > Len(outputs) THEN 0 ELSE Len(outputs) - 1 + 1
    BY <1>1, FS_Interval
  <2>2. IsFiniteSet(1..Len(outputs))
    BY <1>1, FS_Interval
  <2> QED BY <1>1, <2>1, <2>2
<1>3. PICK S : S = DataAt(Len(outputs))
  OBVIOUS
<1>4. PICK T : T = DataAt(j)
  OBVIOUS
<1>5. S \subseteq 1..Len(outputs)
  BY <1>3 DEF DataAt
<1>6. T \subseteq S
  BY <1>1, <1>3, <1>4 DEF DataAt
<1>7. IsFiniteSet(S) /\ Cardinality(S) <= Len(outputs)
  BY <1>2, <1>5, FS_Subset
<1>8. IsFiniteSet(T) /\ Cardinality(T) <= Cardinality(S)
  BY <1>6, <1>7, FS_Subset
<1>9. Cardinality(S) \in Nat /\ Cardinality(T) \in Nat
  BY <1>7, <1>8, FS_CardinalityType
<1>10. Records(j) = Cardinality(T) /\ Written = Cardinality(S)
  BY <1>3, <1>4 DEF Records, Written, DataAt
<1> QED BY <1>7, <1>8, <1>9, <1>10

(* As many events as were emitted can have been processed. *)
LEMMA OutputsBelowOffset ==
  ASSUME FeedInv
  PROVE  Len(outputs) <= offset
<1>1. outputs \in Seq(Event) /\ offset \in Nat /\ Len(outputs) \in Nat
  BY FeedTypes DEF FeedInv, FeedTypeOK
<1>2. Len(outputs) = Cardinality(Range(outputs))
  BY InvImpliesClassified DEF FeedInv, ClassifiedOnce
<1>3. \A e \in Range(outputs) : e \in Event
  BY <1>1 DEF Range
<1>4. \A e \in Range(outputs) : e \in Nat /\ e < offset
  <2>1. \A e \in Range(outputs) : arrival[e] # "none"
    BY DEF FeedInv, EngineInv, Handover
  <2> QED BY <1>3, <2>1, FeedFacts DEF FeedInv, Cursor
<1>5. Range(outputs) \subseteq 0..(offset - 1)
  BY <1>1, <1>4
<1>6. IsFiniteSet(0..(offset - 1))
  BY <1>1, FS_Interval
<1>7. Cardinality(0..(offset - 1)) = offset
  <2>1. Cardinality(0..(offset - 1)) = IF 0 > offset - 1 THEN 0 ELSE offset - 1 - 0 + 1
    BY <1>1, FS_Interval
  <2> QED BY <1>1, <2>1
<1>8. Cardinality(Range(outputs)) <= Cardinality(0..(offset - 1))
  BY <1>5, <1>6, FS_Subset
<1> QED BY <1>2, <1>7, <1>8

(* A record that is committed stays committed. *)
LEMMA DurableGrows ==
  ASSUME FeedInv, EngineInv', OutputsGrow, flushed' = flushed
  PROVE  Durable \subseteq Durable'
<1>1. /\ Len(outputs) \in Nat /\ DOMAIN outputs = 1..Len(outputs)
      /\ Len(outputs') \in Nat /\ DOMAIN outputs' = 1..Len(outputs')
  <2>1. outputs \in Seq(Event)
    BY DEF FeedInv, EngineInv, TopologyInv, TopologyTypeOK
  <2>2. outputs' \in Seq(Event)
    BY DEF EngineInv, TopologyInv, TopologyTypeOK
  <2> QED BY <2>1, <2>2
<1>2. SUFFICES ASSUME NEW k \in 1..Len(outputs), outputs[k] \notin Ping,
                      Records(k) <= flushed
               PROVE  outputs[k] \in Durable'
  BY <1>1 DEF Durable
<1>3. k \in 1..Len(outputs') /\ outputs'[k] = outputs[k]
  BY <1>1, <1>2 DEF OutputsGrow
<1>4. Records(k)' = Records(k)
  <2>1. \A i \in 1..k : i \in 1..Len(outputs)
    BY <1>1, <1>2
  <2>2. \A i \in 1..k : outputs'[i] = outputs[i]
    BY <2>1 DEF OutputsGrow
  <2>3. {i \in 1..k : outputs'[i] \notin Ping} = {i \in 1..k : outputs[i] \notin Ping}
    BY <2>2
  <2> QED BY <2>3 DEF Records
<1> QED BY <1>1, <1>2, <1>3, <1>4 DEF Durable

(* A checkpoint makes durable all that was processed. *)
LEMMA CheckpointDurable ==
  ASSUME FeedInv, CallCheckpoint
  PROVE  CommittedIsDurable'
<1>1. /\ flushed' = CommitUpTo(offset) /\ committed' = offset
      /\ heldBack' = heldBack \cup ((0..(offset - 1)) \ Range(outputs))
      /\ outputs' = outputs
  BY DEF CallCheckpoint, engineVars, topologyVars
<1>2. /\ outputs \in Seq(Event) /\ offset \in Nat /\ flushed \in Nat
      /\ Len(outputs) \in Nat /\ DOMAIN outputs = 1..Len(outputs)
  BY FeedTypes DEF FeedInv, FeedTypeOK
<1>3. ASSUME NEW e \in (0..(offset - 1)) \ Ping, e \notin heldBack'
      PROVE  e \in Durable'
  <2>1. PICK k \in 1..Len(outputs) : outputs[k] = e
    BY <1>1, <1>2, <1>3 DEF Range
  <2>2. /\ Records(k) \in Nat /\ Written \in Nat
        /\ Records(k) <= Written /\ Written <= Len(outputs)
    BY RecordsFacts DEF FeedInv
  <2>3. Written <= offset
    BY <1>2, <2>2, OutputsBelowOffset
  <2>4. Records(k) <= flushed'
    BY <1>1, <1>2, <2>2, <2>3 DEF CommitUpTo
  <2>5. Records(k)' = Records(k)
    BY <1>1 DEF Records
  <2> QED BY <1>1, <1>2, <1>3, <2>1, <2>4, <2>5 DEF Durable
<1> QED BY <1>1, <1>3 DEF CommittedIsDurable

LEMMA DurableKeeps ==
  ASSUME FeedInv, [FeedNext]_feedVars
  PROVE  CommittedIsDurable'
<1>1. CASE CallCheckpoint
  BY <1>1, CheckpointDurable
<1>2. CASE ~CallCheckpoint
  <2>1. UNCHANGED commitVars
    BY <1>2 DEF FeedNext, FeedStep, Tick, CallAdvance, CallPause, CallApplyNow, CallResume,
                CallRetry, CallSkip, CallIdle, CallFinal, Signal, StopFeed, Return,
                EngineWorks, feedVars
  <2>2. OutputsGrow
    BY FeedStepRefines, EngineGrows DEF FeedInv
  <2>3. Durable \subseteq Durable'
    BY <2>1, <2>2, DurableGrows, FeedKeepsEngine DEF commitVars
  <2> QED BY <2>1, <2>3 DEF CommittedIsDurable, commitVars, FeedInv
<1> QED BY <1>1, <1>2
-----------------------------------------------------------------------------
(***************************************************************************)
(* The theorems.                                                           *)
(***************************************************************************)
LEMMA FeedStartInv == FeedInit => FeedInv
<1> SUFFICES ASSUME FeedInit PROVE FeedInv
  OBVIOUS
<1>1. EngineInv
  BY EngineStartInv DEF FeedInit
<1>2. /\ buffer = {} /\ overflowed = {} /\ ~stopped
      /\ pc[feed] = "idle" /\ wpc[feed] = "idle"
      /\ \A e \in Event : arrival[e] = "none"
  BY FeedFacts DEF FeedInit, EngineInit, SourceInit, WindowInit
<1>3. FeedTypeOK
  <2>1. /\ round \in Nat /\ next \in Nat /\ offset \in Nat /\ committed \in Nat
        /\ flushed \in Nat /\ lastTS \in Int /\ agenda \subseteq DOMAIN Rank
    BY DEF FeedInit
  <2>2. signalled \in BOOLEAN /\ finished \in BOOLEAN
    BY DEF FeedInit
  <2> QED BY <2>1, <2>2 DEF FeedTypeOK
<1>4. Cursor
  <2>1. \A e \in Event : ~(e < 0)
    BY FeedFacts
  <2>2. MaxEvents \in Nat
    BY FeedFacts
  <2> QED BY <1>2, <2>1, <2>2 DEF FeedInit, Cursor
<1>5. Clock
  BY DEF FeedInit, Clock
<1>6. BufferNear /\ CallStands
  BY <1>2 DEF FeedInit, BufferNear, CallStands, Draining
<1>7. Closing
  BY <1>2 DEF FeedInit, Closing
<1>8. CommittedIsDurable
  BY DEF FeedInit, CommittedIsDurable
<1> QED BY <1>1, <1>3, <1>4, <1>5, <1>6, <1>7, <1>8 DEF FeedInv

LEMMA FeedStepInv == FeedInv /\ [FeedNext]_feedVars => FeedInv'
BY FeedKeepsEngine, CursorKeeps, BufferKeeps, CallKeeps, ClosingKeeps, DurableKeeps
   DEF FeedInv

(* The inductive invariant of the feed, for any number of ticks. *)
THEOREM FeedInvariant == FeedSpec => []FeedInv
BY FeedStartInv, FeedStepInv, PTL DEF FeedSpec

(* Under the demo's script the reorder buffer never evicts an event, so    *)
(* none is lost in the source (buffer.go, Add): an advance every third     *)
(* round leaves at most the events the jitter put ahead of it.             *)
THEOREM FeedNeverEvicts == FeedSpec => [](overflowed = {})
<1>1. FeedInv => overflowed = {}
  BY DEF FeedInv, BufferNear
<1> QED BY <1>1, FeedInvariant, PTL

(* The feed is one of the callers the engine is specified for: demo.go     *)
(* with its generator and idle detector keeps the event-time promise.      *)
THEOREM FeedImplementsEventTime == FeedSpec => ImplementsEventTime
<1>1. FeedInit => EngineInit
  BY DEF FeedInit
<1>2. FeedInv /\ [FeedNext]_feedVars => [EngineNext]_engineVars
  BY FeedStepRefines
<1>3. FeedSpec => EngineSpec
  BY <1>1, <1>2, FeedInvariant, PTL DEF FeedSpec, EngineSpec
<1> QED BY <1>3, EngineImplementsEventTime, PTL

(* The rewind of a retry is undone before the next tick, whatever offset   *)
(* was committed and however many rounds have passed (demo.go, round 37).  *)
THEOREM CursorAtOffsetHolds == FeedSpec => []CursorAtOffset
<1>1. FeedInv => CursorAtOffset
  BY DEF FeedInv, Cursor, CursorAtOffset
<1> QED BY <1>1, FeedInvariant, PTL

(* Every data event below a committed offset is committed by the sink or   *)
(* was held back by a buffer (checkpoint.go, Commit; sink.go, CommitUpTo). *)
THEOREM CommittedIsDurableHolds == FeedSpec => []CommittedIsDurable
<1>1. FeedInv => CommittedIsDurable
  BY DEF FeedInv
<1> QED BY <1>1, FeedInvariant, PTL

LEMMA InvImpliesPublished == FeedInv => FinishedMeansPublished
<1> SUFFICES ASSUME FeedInv, finished PROVE FinishedMeansPublished
  BY DEF FinishedMeansPublished
<1>1. /\ stopped /\ AtSelect /\ LastCall
  BY DEF FeedInv, Closing, AtSelect
<1>2. buffer = {} /\ \A w \in Window : wstate[w] # "open"
  BY <1>1 DEF LastCall, AtSelect, Between, Draining
<1>3. ~paused => parked = {}
  BY DEF FeedInv, EngineInv, TopologyInv, Accounted
<1>4. \A e \in Event : arrival[e] # "none" <=> e \in handed
  <2>1. overflowed = {} /\ Thread = {feed} /\ pc[feed] = "idle"
    BY <1>1, FeedFacts DEF FeedInv, BufferNear, AtSelect, Between
  <2>2. \A e \in Event : ~InTransit(e)
    BY <2>1 DEF InTransit
  <2> QED BY <1>2, <2>1, <2>2 DEF FeedInv, EngineInv, SourceInv, Custody
<1>5. \A e \in Event : e \in handed <=> e < offset
  BY <1>4 DEF FeedInv, Cursor
<1>6. \A e \in Event : IsApplied(e) <=> e \in Range(outputs)
  BY AppliedIsOutput DEF FeedInv, EngineInv, TopologyInv
<1>7. /\ handed \subseteq Range(outputs) \cup parked /\ parked \subseteq handed
      /\ Range(outputs) \subseteq handed /\ handed \subseteq Event
      /\ accepted \cup late = Range(outputs) \ Ping
  <2>1. /\ handed \subseteq Range(outputs) \cup parked /\ parked \subseteq handed
        /\ \A e \in Range(outputs) : arrival[e] # "none"
        /\ accepted \cup late = Range(outputs) \ Ping /\ handed \subseteq Event
    BY DEF FeedInv, EngineInv, Handover, Classified, SourceInv, SourceTypeOK
  <2>2. Range(outputs) \subseteq Event
    BY FeedTypes DEF FeedInv, Range
  <2> QED BY <1>4, <2>1, <2>2
<1>8. 0..(offset - 1) = handed
  <2>1. offset \in Nat /\ offset <= MaxEvents /\ MaxEvents \in Nat
    BY FeedFacts DEF FeedInv, FeedTypeOK, Cursor
  <2>2. Event = 0..(MaxEvents - 1)
    BY FeedFacts
  <2>3. \A e \in 0..(offset - 1) : e \in Event /\ e < offset
    BY <2>1, <2>2
  <2>4. \A e \in Event : e < offset => e \in 0..(offset - 1)
    BY <2>1, <2>2
  <2> QED BY <1>5, <1>7, <2>3, <2>4
<1>9. handed \ Ping = accepted \cup late \cup {e \in parked \ Ping : ~IsApplied(e)}
  BY <1>6, <1>7
<1> QED BY <1>2, <1>3, <1>8, <1>9 DEF FinishedMeansPublished

(* Shutdown loses nothing but what a paused topology holds, whenever the   *)
(* signal comes (demo.go, the stop case).                                  *)
THEOREM FinishedMeansPublishedHolds == FeedSpec => []FinishedMeansPublished
BY FeedInvariant, InvImpliesPublished, PTL
=============================================================================
