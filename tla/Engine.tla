------------------------------- MODULE Engine -------------------------------
(***************************************************************************)
(* The event-time path of the engine: source, watermark, topology and      *)
(* windows wired as NewPipeline wires them (internal/topology/pipeline.go).*)
(*                                                                         *)
(* The source's ingest callback is Manager.Process, whose apply callback   *)
(* is Pipeline.Process, which folds the event into its window.             *)
(* Pipeline.Advance is AdvanceTo followed, in the same goroutine, by the   *)
(* watermark notification that calls MaybeTrigger.                         *)
(*                                                                         *)
(* Pipeline.Process also feeds the sessions, the partitioned store, the    *)
(* state backend, the sink and the metrics.  None of them is read on this  *)
(* path, so their state is not part of this module.                        *)
(***************************************************************************)
EXTENDS Source, Topology, Windows

CONSTANTS
  PipelineEdges,   \* the edges NewPipeline connects
  Ping             \* events that only keep a session alive

ASSUME EngineAssumption ==
  /\ PipelineEdges \subseteq Operator \X Operator
  /\ Acyclic(PipelineEdges)
  /\ Ping \subseteq Event

VARIABLE postponed     \* history: events delivered to a paused topology

engineVars == <<sourceVars, topologyVars, windowVars, postponed>>

EngineInit ==
  /\ SourceInit
  /\ TopologyStart([o \in Operator |-> "running"], PipelineEdges)
  /\ WindowInit
  /\ postponed = {}
-----------------------------------------------------------------------------
(* Pipeline.Process as seen by the windows: they ingest a data event when  *)
(* the topology passes it to apply for the first time.                     *)
ApplyToWindows(e) ==
  IF IsApplied(e) \/ e \in Ping THEN UNCHANGED windowVars ELSE IngestWindow(e)

EmitEvent(e) == Emit(e) /\ UNCHANGED <<topologyVars, windowVars, postponed>>

StopSource == Stop /\ UNCHANGED <<topologyVars, windowVars, postponed>>

(* A goroutine calls Pipeline.Advance. *)
PipelineAdvance(t, ts) ==
  /\ wpc[t] = "idle"
  /\ AdvanceTo(t, ts)
  /\ UNCHANGED <<topologyVars, windowVars, postponed>>

(* ingest(ev): the event goes through the topology into its window. *)
Deliver(t) ==
  /\ Ingest(t)
  /\ Process(inflight[t])
  /\ \/ /\ paused
        /\ postponed' = postponed \cup {inflight[t]}
        /\ UNCHANGED windowVars
     \/ /\ ~paused
        /\ ApplyToWindows(inflight[t])
        /\ UNCHANGED postponed

(* The steps of AdvanceTo that stay inside the source and the tracker. *)
SourceStep(t) ==
  /\ \/ Ack(t)
     \/ Wake(t)
     \/ AdvanceTracker(t)
     \/ ConfirmTracker(t)
     \/ CountLoad(t)
  /\ UNCHANGED <<topologyVars, windowVars, postponed>>

(* AdvanceTo returns and Fanout.Notify is next. *)
MutAdvanceToReturns(t) ==
  /\ CountStore(t)
  /\ UNCHANGED <<windowVars, topologyVars, postponed>>

AdvanceToReturns(t) ==
  /\ CountStore(t)
  /\ wpc' = [wpc EXCEPT ![t] = "notify"]
  /\ UNCHANGED <<wstate, values, results, observed, accepted, late,
                 topologyVars, postponed>>

(* Fanout.Notify calls OnWatermarkConfirmed, which enters MaybeTrigger ... *)
Notify(t) ==
  /\ wpc[t] = "notify"
  /\ ReadConfirmed(t)
  /\ UNCHANGED <<sourceVars, topologyVars, postponed>>

(* ... and MaybeTrigger closes windows under the windows' Manager.mu. *)
FireWindows(t) ==
  /\ (\E w \in Window : CloseWindow(t, w)) \/ EndTrigger(t)
  /\ UNCHANGED <<sourceVars, topologyVars, postponed>>

PauseTopology ==
  /\ Pause
  /\ UNCHANGED <<sourceVars, windowVars, postponed>>

(* An emitted record that completed on another path while paused. *)
CompleteElsewhere(e) ==
  /\ paused
  /\ arrival[e] # "none"
  /\ ApplyNow(e)
  /\ ApplyToWindows(e)
  /\ UNCHANGED <<sourceVars, postponed>>

(* Manager.Resume is called and takes Manager.mu. *)
ResumeTopology ==
  /\ ResumeBegin
  /\ UNCHANGED <<sourceVars, windowVars, postponed>>

(* The loop of Resume feeds the windows, then the topology runs again. *)
ResumeStep ==
  /\ \/ \E e \in Event : ReplayNext(e) /\ ApplyToWindows(e)
     \/ ResumeEnd /\ UNCHANGED windowVars
  /\ UNCHANGED <<sourceVars, postponed>>

(* The steps of a Pipeline.Advance that is under way. *)
AdvanceStep(t) ==
  \/ Deliver(t)
  \/ SourceStep(t)
  \/ AdvanceToReturns(t)
  \/ Notify(t)
  \/ FireWindows(t)

EngineNext ==
  \/ \E e \in Event : EmitEvent(e) \/ CompleteElsewhere(e)
  \/ StopSource
  \/ \E t \in Thread, ts \in Target : PipelineAdvance(t, ts)
  \/ \E t \in Thread : AdvanceStep(t)
  \/ PauseTopology
  \/ ResumeTopology
  \/ ResumeStep

EngineSpec == EngineInit /\ [][EngineNext]_engineVars

(* A goroutine inside Advance or Resume keeps running; sync.Mutex hands    *)
(* itself to a starving waiter, so a goroutine that delivers, triggers or  *)
(* replays gets the Manager.mu it needs even if others take it all the     *)
(* time.  Nobody is obliged to emit, advance, stop, pause or resume.       *)
FairEngineSpec ==
  /\ EngineSpec
  /\ \A t \in Thread : SF_engineVars(AdvanceStep(t))
  /\ SF_engineVars(ResumeStep)
-----------------------------------------------------------------------------
(***************************************************************************)
(* A published window is complete (source.go, AdvanceTo with window.go,    *)
(* MaybeTrigger): when a window is closed, every event of it that arrived  *)
(* on time was accepted into it, unless the full buffer evicted it or a    *)
(* paused topology parked it.  In particular no other on-time event is     *)
(* ever reported late.                                                     *)
(***************************************************************************)
PublishedComplete ==
  \A e \in Event \ Ping :
    arrival[e] = "ontime" /\ wstate[WindowFor(Ts[e])] = "closed"
      => e \in accepted \cup overflowed \cup postponed

(***************************************************************************)
(* What watermark.go says of a trigger: it knows that the interval's       *)
(* events have already been ingested.  No event that arrived on time, and  *)
(* was not evicted from a full buffer, is reported late, whether the       *)
(* topology is paused or not.                                              *)
(***************************************************************************)
OnTimeNeverLate == \A e \in late : arrival[e] = "ontime" => e \in overflowed

(***************************************************************************)
(* Every event is accounted for across the three components: what the      *)
(* source handed over is in the pause buffer or was classified, and a      *)
(* data event is classified exactly when apply saw it, accepted or late    *)
(* but never both (pipeline.go, Process; topology.go, Process and Resume). *)
(***************************************************************************)
ClassifiedOnce ==
  /\ handed \subseteq Range(outputs) \cup parked
  /\ accepted \cup late = Range(outputs) \ Ping
  /\ accepted \cap late = {}
  /\ Len(outputs) = Cardinality(Range(outputs))

(* Goroutine t is inside Advance and has not read the watermark yet. *)
Advancing(t) == pc[t] # "idle" \/ wpc[t] = "notify"

(***************************************************************************)
(* Windows fire (pipeline.go, Advance): once an Advance is under way, a    *)
(* window the confirmed watermark has passed is closed, no matter which    *)
(* goroutine confirmed it or what others pause, resume or trigger.         *)
(***************************************************************************)
WindowsFire ==
  \A w \in Window, t \in Thread :
    Advancing(t) /\ wstate[w] = "open" /\ End(w) <= confirmed
      ~> wstate[w] = "closed"

(* What became of an event, in the terms of EventTime. *)
Fate(e) ==
  IF e \in accepted THEN "accepted"
  ELSE IF e \in late THEN "late"
  ELSE IF e \in overflowed THEN "lost"
  ELSE IF arrival[e] = "none" THEN "none"
  ELSE IF arrival[e] = "ontime" /\ e \notin postponed THEN "waiting"
  ELSE "tardy"

Promise == INSTANCE EventTime
  WITH Event <- Event \ Ping,
       Time <- Ts,
       WindowOf <- [e \in Event \ Ping |-> WindowFor(Ts[e])],
       EndOf <- [w \in Window |-> End(w)],
       watermark <- confirmed,
       fate <- [e \in Event \ Ping |-> Fate(e)],
       fired <- {w \in Window : wstate[w] = "closed"},
       suspended <- paused

(***************************************************************************)
(* The engine implements EventTime: every step of every goroutine is a     *)
(* step the event-time promise allows, or changes nothing it speaks of.    *)
(***************************************************************************)
ImplementsEventTime == Promise!AbsSpec
=============================================================================
