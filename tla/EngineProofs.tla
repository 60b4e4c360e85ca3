---------------------------- MODULE EngineProofs ----------------------------
(***************************************************************************)
(* The engine keeps the event-time promise: source, topology and windows,  *)
(* each with the invariant proved for it alone, and the facts that tie     *)
(* them together, for any events, goroutines, watermarks and pauses.       *)
(*                                                                         *)
(* The lemmas about the windows come from WindowProofs, which also knows   *)
(* the window layer on its own; nothing here speaks of its Frontier.       *)
(***************************************************************************)
EXTENDS Engine, IntakeProofs, WindowProofs

(* What the source handed over was applied or is parked, and only a paused *)
(* topology parks; only what was emitted is applied.                       *)
Handover ==
  /\ handed \subseteq Range(outputs) \cup parked
  /\ parked \subseteq postponed
  /\ postponed \subseteq handed
  /\ \A e \in Range(outputs) : arrival[e] # "none"

(* The windows classified every data event that was applied. *)
Classified == accepted \cup late = Range(outputs) \ Ping

(* An on-time event is late only if it was evicted or delivered to a       *)
(* paused topology.                                                        *)
LateExcused ==
  \A e \in late : arrival[e] = "ontime" => e \in overflowed \cup postponed

EngineInv ==
  /\ SourceInv
  /\ TopologyInv
  /\ WindowInv
  /\ Handover
  /\ Classified
  /\ LateExcused
-----------------------------------------------------------------------------
(***************************************************************************)
(* What the invariant says about events and windows.                       *)
(***************************************************************************)
(* An event lies before the end of its window, on both sides of the epoch. *)
LEMMA WindowCovers ==
  ASSUME NEW e \in Event
  PROVE  /\ Ts[e] \in Int
         /\ End(WindowFor(Ts[e])) \in Int
         /\ Ts[e] < End(WindowFor(Ts[e]))
         /\ WindowFor(Ts[e]) \in Window
<1>1. Ts[e] \in Int /\ WindowSize \in Nat \ {0}
  BY EventAssumption, WindowAssumption
<1>2. End(WindowFor(Ts[e])) \in Int /\ Ts[e] < End(WindowFor(Ts[e]))
  BY <1>1 DEF End, WindowFor
<1>3. WindowFor(Ts[e]) \in Window
  BY DEF Window
<1> QED BY <1>1, <1>2, <1>3

(* The confirmed watermark has passed every event of a closed window. *)
LEMMA ClosedIsPassed ==
  ASSUME EngineInv, NEW e \in Event, wstate[WindowFor(Ts[e])] = "closed"
  PROVE  Ts[e] < confirmed /\ Ts[e] < current
<1> DEFINE w == WindowFor(Ts[e])
<1>1. WindowOK(w)
  BY WindowCovers DEF EngineInv, WindowInv
<1>2. End(w) <= confirmed
  BY <1>1 DEF WindowOK
<1>3. confirmed \in Int /\ current \in Int /\ confirmed <= current
  BY WindowCovers DEF EngineInv, WindowInv, WindowTypeOK, SourceInv, SourceTypeOK
<1>4. Ts[e] \in Int /\ End(w) \in Int /\ Ts[e] < End(w)
  BY WindowCovers
<1> HIDE DEF w
<1> QED BY <1>2, <1>3, <1>4

(* A data event that was not applied is in no window. *)
LEMMA UnappliedIsNew ==
  ASSUME EngineInv, NEW e \in Event, ~IsApplied(e)
  PROVE  e \notin Range(outputs) /\ e \notin accepted \cup late
<1>1. e \notin Range(outputs)
  BY AppliedIsOutput DEF EngineInv, TopologyInv
<1> QED BY <1>1 DEF EngineInv, Classified

(* What was handed over and not applied was held back by a pause. *)
LEMMA UnappliedIsPostponed ==
  ASSUME EngineInv, NEW e \in Event, e \in handed, e \notin Range(outputs)
  PROVE  e \in postponed
BY DEF EngineInv, Handover

(* The completeness of published windows follows from the invariant. *)
LEMMA InvImpliesComplete == EngineInv => PublishedComplete
<1> SUFFICES ASSUME EngineInv, NEW e \in Event \ Ping, arrival[e] = "ontime",
                    wstate[WindowFor(Ts[e])] = "closed"
             PROVE  e \in accepted \cup overflowed \cup postponed
  BY DEF PublishedComplete
<1>1. Ts[e] <= confirmed
  <2>1. Ts[e] < confirmed
    BY ClosedIsPassed
  <2>2. Ts[e] \in Int /\ confirmed \in Int
    BY WindowCovers DEF EngineInv, SourceInv, SourceTypeOK
  <2> QED BY <2>1, <2>2
<1>2. e \in handed \cup overflowed
  BY <1>1, InvImpliesDrained DEF EngineInv, DrainedBeforeConfirm
<1>3. e \in Range(outputs) => e \in accepted \cup late
  BY DEF EngineInv, Classified
<1>4. e \in late => e \in overflowed \cup postponed
  BY DEF EngineInv, LateExcused
<1> QED BY <1>2, <1>3, <1>4, UnappliedIsPostponed

(* Every output was appended once, so there are as many as distinct ones. *)
LEMMA DistinctLength ==
  ASSUME NEW seq \in Seq(Event),
         \A i, j \in DOMAIN seq : seq[i] = seq[j] => i = j
  PROVE  Len(seq) = Cardinality(Range(seq))
<1>1. Len(seq) \in Nat /\ DOMAIN seq = 1..Len(seq)
  BY LenProperties
<1>2. seq \in Bijection(1..Len(seq), Range(seq))
  <2>1. seq \in [1..Len(seq) -> Range(seq)]
    BY <1>1, SeqDef DEF Range
  <2> QED BY <1>1, <2>1 DEF Bijection, Injection, Surjection, IsInjective, Range
<1>3. ExistsBijection(1..Len(seq), Range(seq))
  BY <1>2 DEF ExistsBijection
<1> QED BY <1>1, <1>3, FS_CountingElements

LEMMA InvImpliesClassified == EngineInv => ClassifiedOnce
<1> SUFFICES ASSUME EngineInv PROVE ClassifiedOnce
  OBVIOUS
<1>1. Len(outputs) = Cardinality(Range(outputs))
  BY DistinctLength DEF EngineInv, TopologyInv, TopologyTypeOK, AppliedOnce
<1> QED BY <1>1 DEF EngineInv, ClassifiedOnce, Handover, Classified, WindowInv
-----------------------------------------------------------------------------
(***************************************************************************)
(* Steps that apply no event.                                              *)
(***************************************************************************)
LEMMA SameTopology ==
  ASSUME TopologyInv, UNCHANGED topologyVars
  PROVE  TopologyInv' /\ UNCHANGED <<outputs, parked, paused>>
<1>1. TopologyInv'
  BY TopologyStepInv
<1> QED BY <1>1 DEF topologyVars

LEMMA SameSource ==
  ASSUME SourceInv, UNCHANGED sourceVars
  PROVE  /\ SourceInv'
         /\ UNCHANGED <<trackerVars, handed, overflowed, arrival, confirmed>>
<1>1. SourceInv'
  BY StepInv
<1> QED BY <1>1 DEF sourceVars, historyVars, trackerVars

(* The three components move without a hand-over. *)
LEMMA TieKeeps ==
  ASSUME EngineInv, SourceInv', TopologyInv', WindowInv',
         UNCHANGED <<outputs, parked, postponed, handed, arrival, accepted, late>>,
         overflowed \subseteq overflowed'
  PROVE  EngineInv'
<1>1. Handover' /\ Classified'
  BY DEF EngineInv, Handover, Classified
<1>2. LateExcused'
  BY DEF EngineInv, LateExcused
<1> QED BY <1>1, <1>2 DEF EngineInv

(* The source moves alone. *)
LEMMA SourceSideKeeps ==
  ASSUME EngineInv, SourceInv', confirmed <= confirmed',
         UNCHANGED <<topologyVars, windowVars, postponed, handed, overflowed, arrival>>
  PROVE  EngineInv'
<1>1. TopologyInv' /\ UNCHANGED <<outputs, parked>>
  BY SameTopology DEF EngineInv
<1>2. current' \in Int /\ confirmed' \in Int
  BY DEF SourceInv, SourceTypeOK
<1>3. WindowInv'
  BY <1>2, TrackerKeeps DEF EngineInv
<1>4. UNCHANGED <<accepted, late>>
  BY DEF windowVars
<1> QED BY <1>1, <1>3, <1>4, TieKeeps

LEMMA SourceMoves ==
  ASSUME EngineInv,
         \/ StopSource
         \/ \E t \in Thread, ts \in Target : PipelineAdvance(t, ts)
         \/ \E t \in Thread : SourceStep(t)
  PROVE  EngineInv' /\ UNCHANGED <<topologyVars, windowVars, postponed, handed,
                                   overflowed, arrival>>
<1>1. SourceInv /\ current \in Int /\ confirmed \in Int
  BY DEF EngineInv, SourceInv, SourceTypeOK
<1>2. CASE StopSource
  <2>1. SourceInv'
    BY <1>1, <1>2, StopKeeps DEF StopSource
  <2>2. UNCHANGED <<topologyVars, windowVars, postponed, handed, overflowed,
                    arrival, confirmed>>
    BY <1>2 DEF StopSource, Stop, historyVars, trackerVars
  <2> QED BY <1>1, <2>1, <2>2, SourceSideKeeps
<1>3. ASSUME NEW t \in Thread, NEW ts \in Target, PipelineAdvance(t, ts)
      PROVE  EngineInv' /\ UNCHANGED <<topologyVars, windowVars, postponed, handed,
                                       overflowed, arrival>>
  <2>1. SourceInv'
    BY <1>1, <1>3, AdvanceToKeeps DEF PipelineAdvance
  <2>2. UNCHANGED <<topologyVars, windowVars, postponed, handed, overflowed,
                    arrival, confirmed>>
    BY <1>3 DEF PipelineAdvance, AdvanceTo, trackerVars
  <2> QED BY <1>1, <2>1, <2>2, SourceSideKeeps
<1>4. ASSUME NEW t \in Thread, SourceStep(t)
      PROVE  EngineInv' /\ UNCHANGED <<topologyVars, windowVars, postponed, handed,
                                       overflowed, arrival>>
  <2>1. SourceInv'
    BY <1>1, <1>4, AckKeeps, WakeKeeps, AdvanceTrackerKeeps, LeaveKeeps
       DEF SourceStep
  <2>2. UNCHANGED <<topologyVars, windowVars, postponed, handed, overflowed, arrival>>
    BY <1>4 DEF SourceStep, Ack, Wake, AdvanceTracker, ConfirmTracker, CountLoad,
                historyVars
  <2>3. confirmed <= confirmed'
    BY <1>1, <1>4 DEF SourceStep, Ack, Wake, AdvanceTracker, ConfirmTracker,
                      CountLoad, Advance, Confirm, Larger, trackerVars
  <2> QED BY <2>1, <2>2, <2>3, SourceSideKeeps
<1> QED BY <1>2, <1>3, <1>4

(* What Emit does to the event and to the buffer. *)
LEMMA EmitFacts ==
  ASSUME SourceInv, NEW e \in Event, Emit(e)
  PROVE  /\ arrival[e] = "none"
         /\ arrival' = [arrival EXCEPT ![e] = arrival'[e]]
         /\ arrival'[e] \in {"ontime", "gap", "late"}
         /\ arrival'[e] = "ontime" => confirmed < Ts[e]
         /\ UNCHANGED <<handed, trackerVars, confirmed>>
         /\ \/ overflowed' = overflowed
            \/ \E over \in buffer \cup {e} : overflowed' = overflowed \cup {over}
<1>1. /\ arrival[e] = "none" /\ arrival' = [arrival EXCEPT ![e] = Arrival(e)]
      /\ UNCHANGED <<handed, trackerVars, confirmed>>
  BY DEF Emit, trackerVars
<1>2. arrival \in [Event -> {"none", "ontime", "gap", "late"}]
  BY DEF SourceInv, SourceTypeOK
<1>3. arrival'[e] = Arrival(e) /\ arrival' = [arrival EXCEPT ![e] = arrival'[e]]
  BY <1>1, <1>2
<1>4. Arrival(e) \in {"ontime", "gap", "late"}
  BY DEF Arrival
<1>5. Arrival(e) = "ontime" => confirmed < Ts[e]
  <2>1. Arrival(e) = "ontime" => current < Ts[e]
    BY DEF Arrival, OnTime
  <2>2. Ts[e] \in Int /\ current \in Int /\ confirmed \in Int /\ confirmed <= current
    BY EventAssumption DEF SourceInv, SourceTypeOK
  <2> QED BY <2>1, <2>2
<1>6. \/ overflowed' = overflowed
      \/ \E over \in buffer \cup {e} : overflowed' = overflowed \cup {over}
  BY DEF Emit, Add, Earliest
<1> QED BY <1>1, <1>3, <1>4, <1>5, <1>6

LEMMA EmitEventKeeps ==
  ASSUME EngineInv, NEW e \in Event, EmitEvent(e)
  PROVE  EngineInv'
<1>1. Emit(e) /\ UNCHANGED <<topologyVars, windowVars, postponed>>
  BY DEF EmitEvent
<1>2. SourceInv /\ SourceInv'
  BY <1>1, EmitKeeps DEF EngineInv
<1>3. TopologyInv' /\ UNCHANGED <<outputs, parked>>
  BY <1>1, SameTopology DEF EngineInv
<1>4. /\ arrival[e] = "none"
      /\ arrival' = [arrival EXCEPT ![e] = arrival'[e]]
      /\ arrival'[e] # "none"
      /\ UNCHANGED <<handed, trackerVars, confirmed>>
      /\ overflowed \subseteq overflowed'
  BY <1>1, <1>2, EmitFacts
<1>5. \A f \in Event : arrival'[f] = IF f = e THEN arrival'[e] ELSE arrival[f]
  BY <1>2, <1>4 DEF SourceInv, SourceTypeOK
<1>6. WindowInv' /\ UNCHANGED <<accepted, late>>
  <2>1. current' \in Int /\ confirmed' \in Int /\ confirmed <= confirmed'
    BY <1>2, <1>4 DEF SourceInv, SourceTypeOK
  <2> QED BY <1>1, <2>1, TrackerKeeps DEF EngineInv, windowVars
<1>7. Range(outputs) \subseteq Event /\ late \subseteq Range(outputs)
  <2>1. Range(outputs) \subseteq Event
    BY RangeOfSeq DEF EngineInv, TopologyInv, TopologyTypeOK
  <2> QED BY <2>1 DEF EngineInv, Classified
<1>8. Handover'
  BY <1>1, <1>3, <1>4, <1>5, <1>7 DEF EngineInv, Handover
<1>9. Classified'
  BY <1>3, <1>6 DEF EngineInv, Classified
<1>10. LateExcused'
  BY <1>1, <1>4, <1>5, <1>6, <1>7 DEF EngineInv, Handover, LateExcused
<1> QED BY <1>2, <1>3, <1>6, <1>8, <1>9, <1>10 DEF EngineInv

(* A goroutine goes from AdvanceTo to MaybeTrigger, and through it. *)
LEMMA TriggerMoves ==
  ASSUME EngineInv, NEW t \in Thread,
         AdvanceToReturns(t) \/ Notify(t) \/ FireWindows(t)
  PROVE  EngineInv' /\ UNCHANGED <<topologyVars, postponed, arrival, overflowed,
                                   confirmed, accepted, late>>
<1>1. SourceInv' /\ UNCHANGED <<handed, overflowed, arrival, confirmed, trackerVars>>
  <2>1. CASE AdvanceToReturns(t)
    <3>1. SourceInv'
      BY <2>1, LeaveKeeps DEF EngineInv, AdvanceToReturns
    <3> QED BY <2>1, <3>1 DEF AdvanceToReturns, CountStore, historyVars, trackerVars
  <2>2. CASE Notify(t) \/ FireWindows(t)
    BY <2>2, SameSource DEF EngineInv, Notify, FireWindows
  <2> QED BY <2>1, <2>2
<1>2. UNCHANGED <<topologyVars, postponed, accepted, late>>
  BY DEF AdvanceToReturns, Notify, FireWindows, ReadConfirmed,
         CloseWindow, EndTrigger
<1>3. TopologyInv' /\ UNCHANGED <<outputs, parked>>
  BY <1>2, SameTopology DEF EngineInv
<1>4. WindowInv'
  <2>1. CASE AdvanceToReturns(t)
    BY <1>1, <2>1, LocationKeeps DEF EngineInv, AdvanceToReturns
  <2>2. CASE Notify(t)
    BY <1>1, <2>2, LocationKeeps DEF EngineInv, Notify, ReadConfirmed
  <2>3. CASE FireWindows(t)
    <3>1. CASE EndTrigger(t)
      BY <1>1, <3>1, LocationKeeps DEF EngineInv, EndTrigger
    <3>2. ASSUME NEW w \in Window, CloseWindow(t, w) PROVE WindowInv'
      BY <1>1, <3>2, CloseWindowKeeps DEF EngineInv
    <3> QED BY <2>3, <3>1, <3>2 DEF FireWindows
  <2> QED BY <2>1, <2>2, <2>3
<1> QED BY <1>1, <1>2, <1>3, <1>4, TieKeeps

(* Pause, and Resume up to its loop and after it. *)
LEMMA PauseMoves ==
  ASSUME EngineInv,
         PauseTopology \/ ResumeTopology \/ (ResumeEnd /\ UNCHANGED
           <<sourceVars, windowVars, postponed>>)
  PROVE  EngineInv'
<1>1. UNCHANGED <<sourceVars, windowVars, postponed>>
  BY DEF PauseTopology, ResumeTopology
<1>2. SourceInv' /\ UNCHANGED <<trackerVars, handed, overflowed, arrival, confirmed>>
  BY <1>1, SameSource DEF EngineInv
<1>3. WindowInv' /\ UNCHANGED <<accepted, late>>
  <2>1. current' \in Int /\ confirmed' \in Int /\ confirmed <= confirmed'
    BY <1>2 DEF SourceInv, SourceTypeOK
  <2> QED BY <1>1, <2>1, TrackerKeeps DEF EngineInv, windowVars
<1>4. TopologyInv'
  BY ControlKeeps, ResumeBeginKeeps, ResumeEndKeeps
     DEF EngineInv, PauseTopology, ResumeTopology
<1>5. outputs' = outputs
  BY DEF PauseTopology, ResumeTopology, Pause, ResumeBegin, ResumeEnd
<1>6. CASE PauseTopology \/ ResumeTopology
  <2>1. parked' = parked
    BY <1>6 DEF PauseTopology, ResumeTopology, Pause, ResumeBegin
  <2> QED BY <1>1, <1>2, <1>3, <1>4, <1>5, <2>1, TieKeeps
<1>7. CASE ResumeEnd
  <2>1. parked \subseteq Event /\ parked \subseteq Range(outputs) /\ parked' = {}
    <3>1. \A e \in parked : IsApplied(e)
      BY <1>7 DEF EngineInv, TopologyInv, Accounted, ResumeEnd
    <3>2. parked \subseteq Event
      BY DEF EngineInv, TopologyInv, TopologyTypeOK
    <3> QED BY <1>7, <3>1, <3>2, AppliedIsOutput DEF EngineInv, TopologyInv, ResumeEnd
  <2>2. Handover'
    BY <1>1, <1>2, <1>5, <2>1 DEF EngineInv, Handover
  <2>3. Classified' /\ LateExcused'
    BY <1>1, <1>2, <1>3, <1>5 DEF EngineInv, Classified, LateExcused
  <2> QED BY <1>2, <1>3, <1>4, <2>2, <2>3 DEF EngineInv
<1> QED BY <1>6, <1>7
-----------------------------------------------------------------------------
(***************************************************************************)
(* Steps that hand an event to apply.  For the windows there are three     *)
(* outcomes: the event does not concern them, is accepted or is late.      *)
(***************************************************************************)
Skipped(e) ==
  /\ e \in Ping \cup accepted \cup late
  /\ UNCHANGED <<wstate, accepted, late>>

TakenIn(e) ==
  /\ e \notin Ping \cup accepted \cup late
  /\ wstate[WindowFor(Ts[e])] # "closed"
  /\ wstate' = [wstate EXCEPT ![WindowFor(Ts[e])] = "open"]
  /\ accepted' = accepted \cup {e}
  /\ UNCHANGED late

FoundLate(e) ==
  /\ e \notin Ping \cup accepted \cup late
  /\ wstate[WindowFor(Ts[e])] = "closed"
  /\ late' = late \cup {e}
  /\ UNCHANGED <<wstate, accepted>>

LEMMA ApplyOutcome ==
  ASSUME EngineInv, NEW e \in Event, ApplyToWindows(e), ApplyLocked(e),
         UNCHANGED trackerVars
  PROVE  /\ WindowInv'
         /\ Classified'
         /\ Range(outputs') = Range(outputs) \cup {e}
         /\ Skipped(e) \/ TakenIn(e) \/ FoundLate(e)
<1>1. Range(outputs') = Range(outputs) \cup {e}
  BY ApplyLockedKeeps DEF EngineInv, TopologyInv
<1>2. IsApplied(e) => e \in Range(outputs)
  BY AppliedIsOutput DEF EngineInv, TopologyInv
<1>3. accepted \cup late = Range(outputs) \ Ping
  BY DEF EngineInv, Classified
<1>4. CASE IsApplied(e) \/ e \in Ping
  <2>1. UNCHANGED windowVars
    BY <1>4 DEF ApplyToWindows
  <2>2. current' \in Int /\ confirmed' \in Int /\ confirmed <= confirmed'
    BY DEF EngineInv, SourceInv, SourceTypeOK, trackerVars
  <2>3. WindowInv'
    BY <2>1, <2>2, TrackerKeeps DEF EngineInv
  <2>4. Skipped(e)
    BY <1>2, <1>3, <1>4, <2>1 DEF Skipped, windowVars
  <2> QED BY <1>1, <1>2, <1>3, <1>4, <2>3, <2>4 DEF Skipped, Classified
<1>5. CASE ~IsApplied(e) /\ e \notin Ping
  <2>1. IngestWindow(e)
    BY <1>5 DEF ApplyToWindows
  <2>2. e \notin accepted \cup late
    BY <1>5, UnappliedIsNew
  <2>3. WindowInv'
    BY <2>1, <2>2, IngestWindowKeeps DEF EngineInv
  <2>4. TakenIn(e) \/ FoundLate(e)
    BY <1>5, <2>1, <2>2 DEF IngestWindow, TakenIn, FoundLate
  <2>5. accepted' \cup late' = (accepted \cup late) \cup {e}
    BY <2>4 DEF TakenIn, FoundLate
  <2> QED BY <1>1, <1>3, <1>5, <2>3, <2>4, <2>5 DEF Classified
<1> QED BY <1>4, <1>5

(* An on-time event that is found late was evicted or held back. *)
LEMMA LateIsExcused ==
  ASSUME EngineInv, NEW e \in Event, FoundLate(e), arrival[e] = "ontime"
  PROVE  e \in overflowed \cup postponed
BY InvImpliesComplete DEF PublishedComplete, FoundLate

LEMMA SettleKeeps ==
  ASSUME EngineInv, SourceInv', TopologyInv', NEW e \in Event, arrival[e] # "none",
         ApplyToWindows(e), ApplyLocked(e),
         UNCHANGED <<trackerVars, overflowed, arrival, parked, postponed>>,
         handed \subseteq handed', handed' \subseteq handed \cup {e}
  PROVE  EngineInv'
<1>1. /\ WindowInv' /\ Classified'
      /\ Range(outputs') = Range(outputs) \cup {e}
      /\ Skipped(e) \/ TakenIn(e) \/ FoundLate(e)
  BY ApplyOutcome
<1>2. Handover'
  BY <1>1 DEF EngineInv, Handover
<1>3. late' \subseteq late \cup {e} /\ (e \in late' /\ e \notin late => FoundLate(e))
  BY <1>1 DEF Skipped, TakenIn, FoundLate
<1>4. LateExcused'
  BY <1>3, LateIsExcused DEF EngineInv, LateExcused
<1> QED BY <1>1, <1>2, <1>4 DEF EngineInv

(* The event a goroutine delivers came from the buffer. *)
LEMMA DeliveredEvent ==
  ASSUME EngineInv, NEW t \in Thread, Deliver(t)
  PROVE  /\ inflight[t] \in Event
         /\ inflight[t] \notin handed \cup overflowed
         /\ arrival[inflight[t]] # "none"
         /\ SourceInv'
         /\ handed' = handed \cup {inflight[t]}
         /\ UNCHANGED <<trackerVars, confirmed, overflowed, arrival>>
<1>1. Ingest(t) /\ pc[t] = "ingest"
  BY DEF Deliver, Ingest
<1>2. inflight[t] \in Event
  BY <1>1 DEF EngineInv, SourceInv, BusyHolds, Busy
<1>3. inflight[t] \notin handed \cup overflowed /\ arrival[inflight[t]] # "none"
  BY <1>1, <1>2 DEF EngineInv, SourceInv, Custody, InTransit
<1>4. SourceInv'
  BY <1>1, IngestKeeps DEF EngineInv
<1> QED BY <1>1, <1>2, <1>3, <1>4 DEF Ingest, trackerVars

LEMMA DeliverKeeps ==
  ASSUME EngineInv, NEW t \in Thread, Deliver(t)
  PROVE  EngineInv'
<1> DEFINE e == inflight[t]
<1>1. /\ e \in Event /\ arrival[e] # "none" /\ SourceInv'
      /\ handed' = handed \cup {e}
      /\ UNCHANGED <<trackerVars, confirmed, overflowed, arrival>>
  BY DeliveredEvent
<1>2. Process(e) /\ TopologyInv'
  BY <1>1, ProcessKeeps DEF Deliver, EngineInv
<1>3. CASE paused
  <2>1. /\ postponed' = postponed \cup {e} /\ parked' = parked \cup {e}
        /\ UNCHANGED <<windowVars, outputs>>
    BY <1>2, <1>3 DEF Deliver, Process
  <2>2. current' \in Int /\ confirmed' \in Int /\ confirmed <= confirmed'
    BY <1>1 DEF EngineInv, SourceInv, SourceTypeOK
  <2>3. WindowInv' /\ UNCHANGED <<accepted, late>>
    BY <2>1, <2>2, TrackerKeeps DEF EngineInv, windowVars
  <2>4. Handover' /\ Classified'
    BY <1>1, <2>1, <2>3 DEF EngineInv, Handover, Classified
  <2>5. LateExcused'
    BY <1>1, <2>1, <2>3 DEF EngineInv, LateExcused
  <2> QED BY <1>1, <1>2, <2>3, <2>4, <2>5 DEF EngineInv
<1>4. CASE ~paused
  <2>1. ApplyToWindows(e) /\ ApplyLocked(e) /\ UNCHANGED <<parked, postponed>>
    BY <1>2, <1>4 DEF Deliver, Process
  <2> HIDE DEF e
  <2> QED BY <1>1, <1>2, <2>1, SettleKeeps
<1> QED BY <1>3, <1>4

LEMMA CompleteElsewhereKeeps ==
  ASSUME EngineInv, NEW e \in Event, CompleteElsewhere(e)
  PROVE  EngineInv'
<1>1. /\ arrival[e] # "none" /\ ApplyNow(e) /\ ApplyToWindows(e)
      /\ UNCHANGED <<sourceVars, postponed>>
  BY DEF CompleteElsewhere
<1>2. SourceInv' /\ UNCHANGED <<trackerVars, handed, overflowed, arrival>>
  BY <1>1, SameSource DEF EngineInv
<1>3. TopologyInv' /\ ApplyLocked(e) /\ parked' = parked
  BY <1>1, ApplyNowKeeps DEF EngineInv, ApplyNow
<1> QED BY <1>1, <1>2, <1>3, SettleKeeps

(* What Resume replays was handed over while the topology was paused. *)
LEMMA ReplayedEvent ==
  ASSUME EngineInv, NEW e \in Event, ReplayNext(e)
  PROVE  e \in postponed /\ e \notin overflowed /\ arrival[e] # "none"
<1>1. e \in parked
  BY DEF ReplayNext, First, EngineInv, TopologyInv, TopologyTypeOK
<1>2. e \in postponed /\ e \in handed
  BY <1>1 DEF EngineInv, Handover
<1> QED BY <1>2 DEF EngineInv, SourceInv, Custody

LEMMA ReplayKeeps ==
  ASSUME EngineInv, NEW e \in Event, ReplayNext(e), ApplyToWindows(e),
         UNCHANGED <<sourceVars, postponed>>
  PROVE  EngineInv'
<1>1. SourceInv' /\ UNCHANGED <<trackerVars, handed, overflowed, arrival>>
  BY SameSource DEF EngineInv
<1>2. TopologyInv' /\ ApplyLocked(e) /\ parked' = parked
  BY ReplayNextKeeps DEF EngineInv, ReplayNext
<1>3. arrival[e] # "none"
  BY ReplayedEvent
<1> QED BY <1>1, <1>2, <1>3, SettleKeeps
-----------------------------------------------------------------------------
LEMMA EngineStartInv == EngineInit => EngineInv
<1> SUFFICES ASSUME EngineInit PROVE EngineInv
  OBVIOUS
<1>1. SourceInv
  BY InitInv DEF EngineInit
<1>2. TopologyInv
  <2>1. [o \in Operator |-> "running"]
          \in [Operator -> {"absent", "running", "pausing", "resumed"}]
    OBVIOUS
  <2> QED BY <2>1, EngineAssumption, TopologyStartInv DEF EngineInit
<1>3. WindowInv
  <2>1. current \in Int /\ confirmed \in Int
    BY <1>1 DEF SourceInv, SourceTypeOK
  <2> QED BY <2>1, WindowStartInv DEF EngineInit
<1>4. Handover /\ Classified /\ LateExcused
  <2>1. /\ handed = {} /\ parked = {} /\ postponed = {} /\ accepted = {}
        /\ late = {} /\ outputs = <<>>
    BY DEF EngineInit, SourceInit, TopologyStart, WindowInit
  <2>2. Range(<<>>) = {}
    BY DEF Range
  <2> QED BY <2>1, <2>2 DEF Handover, Classified, LateExcused
<1> QED BY <1>1, <1>2, <1>3, <1>4 DEF EngineInv

LEMMA StutterKeeps ==
  ASSUME EngineInv, UNCHANGED engineVars
  PROVE  EngineInv'
<1>1. UNCHANGED <<sourceVars, topologyVars, windowVars, postponed>>
  BY DEF engineVars
<1>2. SourceInv' /\ UNCHANGED <<handed, overflowed, arrival, confirmed>>
  BY <1>1, SameSource DEF EngineInv
<1>3. confirmed <= confirmed'
  BY <1>2 DEF EngineInv, SourceInv, SourceTypeOK
<1> QED BY <1>1, <1>2, <1>3, SourceSideKeeps

LEMMA EngineStepInv == EngineInv /\ [EngineNext]_engineVars => EngineInv'
<1> SUFFICES ASSUME EngineInv, [EngineNext]_engineVars
             PROVE  EngineInv'
  OBVIOUS
<1>1. CASE UNCHANGED engineVars
  BY <1>1, StutterKeeps
<1>2. ASSUME NEW e \in Event, EmitEvent(e) PROVE EngineInv'
  BY <1>2, EmitEventKeeps
<1>3. ASSUME NEW e \in Event, CompleteElsewhere(e) PROVE EngineInv'
  BY <1>3, CompleteElsewhereKeeps
<1>4. CASE StopSource \/ (\E t \in Thread, ts \in Target : PipelineAdvance(t, ts))
  BY <1>4, SourceMoves
<1>5. ASSUME NEW t \in Thread, AdvanceStep(t) PROVE EngineInv'
  <2>1. CASE Deliver(t)
    BY <2>1, DeliverKeeps
  <2>2. CASE SourceStep(t)
    BY <2>2, SourceMoves
  <2>3. CASE AdvanceToReturns(t) \/ Notify(t) \/ FireWindows(t)
    BY <2>3, TriggerMoves
  <2> QED BY <1>5, <2>1, <2>2, <2>3 DEF AdvanceStep
<1>6. CASE PauseTopology \/ ResumeTopology
  BY <1>6, PauseMoves
<1>7. CASE ResumeStep
  BY <1>7, PauseMoves, ReplayKeeps DEF ResumeStep
<1> QED BY <1>1, <1>2, <1>3, <1>4, <1>5, <1>6, <1>7 DEF EngineNext

(* The invariant of every behaviour of the wired engine: each component    *)
(* keeps its own invariant in the company of the others, and nothing is    *)
(* lost between them (pipeline.go, NewPipeline, Process and Advance).      *)
THEOREM EngineInvariant == EngineSpec => []EngineInv
BY EngineStartInv, EngineStepInv, PTL DEF EngineSpec

(* A published window holds every on-time event of it that was neither     *)
(* evicted nor held back by a pause (source.go, AdvanceTo; window.go,      *)
(* MaybeTrigger).                                                          *)
THEOREM PublishedCompleteHolds == EngineSpec => []PublishedComplete
BY EngineInvariant, InvImpliesComplete, PTL

(* Every event handed over is applied or parked, and every data event that *)
(* is applied is classified once, accepted or late (pipeline.go, Process;  *)
(* topology.go, Process and Resume).                                       *)
THEOREM ClassifiedOnceHolds == EngineSpec => []ClassifiedOnce
BY EngineInvariant, InvImpliesClassified, PTL

(* The engine keeps what was proved of its parts alone: the handshake of   *)
(* the source, the single application of a record, and the results of the  *)
(* windows, in the interleavings of pipeline.go.                           *)
THEOREM EngineKeepsParts ==
  EngineSpec => []( /\ DrainedBeforeConfirm /\ Custody
                    /\ AppliedOnce /\ Accounted /\ ReplayInOffsetOrder
                    /\ NoEarlyClose /\ ResultMatchesOutcome )
<1>1. EngineInv => DrainedBeforeConfirm /\ Custody
  BY InvImpliesDrained DEF EngineInv, SourceInv
<1>2. EngineInv => AppliedOnce /\ Accounted /\ ReplayInOffsetOrder
  BY DEF EngineInv, TopologyInv
<1>3. EngineInv => NoEarlyClose /\ ResultMatchesOutcome
  BY InvImpliesWindows DEF EngineInv
<1> QED BY <1>1, <1>2, <1>3, EngineInvariant, PTL
-----------------------------------------------------------------------------
(***************************************************************************)
(* The engine implements EventTime, one lemma per abstract step.           *)
(***************************************************************************)
Data == Event \ Ping

fates == [e \in Data |-> Fate(e)]

closed == {w \in Window : wstate[w] = "closed"}

(* A step in the terms of EventTime, or none of its business. *)
AbsStep == [Promise!AbsNext]_(Promise!absVars)

LEMMA QuietStep ==
  ASSUME UNCHANGED <<confirmed, paused, closed, fates>>
  PROVE  AbsStep
BY DEF AbsStep, Promise!absVars, Data, fates, closed

(* Which facts decide the fate of an event. *)
LEMMA SameFates ==
  ASSUME UNCHANGED <<accepted, late, overflowed, arrival, postponed>>
  PROVE  UNCHANGED fates
BY DEF fates, Fate

LEMMA OneFate ==
  ASSUME NEW e \in Data, \A f \in Data : f # e => Fate(f)' = Fate(f)
  PROVE  fates' = [fates EXCEPT ![e] = Fate(e)']
BY DEF fates

(* An event settles in its window. *)
LEMMA SettleStep ==
  ASSUME EngineInv, NEW e \in Event, arrival[e] # "none",
         e \in overflowed => paused,
         Skipped(e) \/ TakenIn(e) \/ FoundLate(e),
         UNCHANGED <<confirmed, paused, overflowed, arrival, postponed>>
  PROVE  AbsStep
<1>1. CASE Skipped(e)
  <2>1. UNCHANGED <<closed, fates>>
    BY <1>1, SameFates DEF Skipped, closed
  <2> QED BY <2>1, QuietStep
<1>2. CASE TakenIn(e) \/ FoundLate(e)
  <2>1. e \in Data /\ e \notin accepted \cup late
    BY <1>2 DEF TakenIn, FoundLate, Data
  <2>2. \A f \in Data : f # e => Fate(f)' = Fate(f)
    BY <1>2 DEF TakenIn, FoundLate, Fate
  <2>3. fates' = [fates EXCEPT ![e] = Fate(e)']
    BY <2>1, <2>2, OneFate
  <2>4. /\ Fate(e) \in {"waiting", "tardy", "lost"}
        /\ Fate(e) = "lost" => e \in overflowed
    BY <2>1 DEF Fate
  <2>5. fates[e] \in {"waiting", "tardy"} \/ (paused /\ fates[e] = "lost")
    BY <2>1, <2>4 DEF fates
  <2>6. UNCHANGED closed
    <3>1. wstate \in [Window -> {"absent", "open", "closed"}]
      BY DEF EngineInv, WindowInv, WindowTypeOK
    <3>2. \A w \in Window : wstate'[w] = "closed" <=> wstate[w] = "closed"
      BY <1>2, <3>1 DEF TakenIn, FoundLate
    <3>3. Window' = Window
      BY DEF Window
    <3> QED BY <3>2, <3>3 DEF closed
  <2>7. CASE TakenIn(e)
    <3>1. Fate(e)' = "accepted"
      BY <2>7 DEF TakenIn, Fate
    <3>2. WindowFor(Ts[e]) \notin closed
      BY <2>7 DEF TakenIn, closed
    <3>3. Promise!Settle(e)
      BY <2>1, <2>3, <2>5, <2>6, <3>1, <3>2
         DEF Promise!Settle, Promise!InEngine, fates, closed, Data
    <3> QED BY <2>1, <3>3 DEF AbsStep, Promise!AbsNext, Data
  <2>8. CASE FoundLate(e)
    <3>1. Fate(e)' = "late"
      BY <2>1, <2>8 DEF FoundLate, Fate
    <3>2. WindowFor(Ts[e]) \in closed
      BY <2>8, WindowCovers DEF FoundLate, closed
    <3>3. fates[e] # "waiting"
      BY <2>1, <2>8, LateIsExcused DEF fates, Fate
    <3>4. Promise!Settle(e)
      BY <2>1, <2>3, <2>5, <2>6, <3>1, <3>2, <3>3
         DEF Promise!Settle, Promise!InEngine, fates, closed, Data
    <3> QED BY <2>1, <3>4 DEF AbsStep, Promise!AbsNext, Data
  <2> QED BY <1>2, <2>7, <2>8
<1> QED BY <1>1, <1>2

(* A paused topology holds an event back. *)
LEMMA DelayStep ==
  ASSUME EngineInv, NEW e \in Event, paused, arrival[e] # "none",
         postponed' = postponed \cup {e},
         UNCHANGED <<confirmed, paused, wstate, accepted, late, overflowed, arrival>>
  PROVE  AbsStep
<1>1. UNCHANGED closed
  BY DEF closed, Window
<1>2. \A f \in Data : f # e => Fate(f)' = Fate(f)
  BY DEF Fate
<1>3. CASE e \notin Data \/ Fate(e)' = Fate(e)
  <2>1. UNCHANGED fates
    BY <1>2, <1>3 DEF fates
  <2> QED BY <1>1, <2>1, QuietStep
<1>4. CASE e \in Data /\ Fate(e)' # Fate(e)
  <2>1. Fate(e) = "waiting" /\ Fate(e)' = "tardy"
    BY <1>4 DEF Fate
  <2>2. fates' = [fates EXCEPT ![e] = "tardy"] /\ fates[e] = "waiting"
    BY <1>2, <1>4, <2>1, OneFate DEF fates
  <2>3. Promise!Delay(e)
    BY <1>1, <1>4, <2>2 DEF Promise!Delay, fates, closed, Data
  <2> QED BY <1>4, <2>3 DEF AbsStep, Promise!AbsNext, Data
<1> QED BY <1>3, <1>4

(* The topology is paused, or resumed. *)
LEMMA SuspendStep ==
  ASSUME EngineInv, paused' \in BOOLEAN,
         UNCHANGED <<confirmed, wstate, accepted, late, overflowed, arrival, postponed>>
  PROVE  AbsStep
<1>1. UNCHANGED <<closed, fates>>
  BY SameFates DEF closed, Window
<1>2. paused \in BOOLEAN
  BY DEF EngineInv, TopologyInv, TopologyTypeOK
<1>3. CASE paused' = paused
  BY <1>1, <1>3, QuietStep
<1>4. CASE paused' # paused
  <2>1. paused' = ~paused
    BY <1>2, <1>4
  <2>2. Promise!Suspend
    BY <1>1, <2>1 DEF Promise!Suspend, fates, closed, Data
  <2> QED BY <2>2 DEF AbsStep, Promise!AbsNext
<1> QED BY <1>3, <1>4

(* An event that waits is ahead of the tentative watermark: it is in the   *)
(* buffer or in the hands of a goroutine.                                  *)
LEMMA WaitingIsAhead ==
  ASSUME EngineInv, NEW e \in Data, Fate(e) = "waiting"
  PROVE  current < Ts[e]
<1>1. /\ e \in Event /\ e \notin accepted \cup late \cup overflowed \cup postponed
      /\ arrival[e] = "ontime"
  BY DEF Fate, Data
<1>2. e \notin Range(outputs)
  BY <1>1 DEF EngineInv, Classified, Data
<1>3. e \notin handed
  BY <1>1, <1>2, UnappliedIsPostponed
<1>4. e \in buffer \/ InTransit(e)
  BY <1>1, <1>3 DEF EngineInv, SourceInv, Custody
<1> QED BY <1>1, <1>4 DEF EngineInv, SourceInv, BufferAhead, OnTime, TransitAhead,
                          InTransit

(* The tracker confirms. *)
LEMMA RaiseStep ==
  ASSUME EngineInv, Confirm,
         UNCHANGED <<paused, wstate, accepted, late, overflowed, arrival, postponed>>
  PROVE  AbsStep
<1>1. UNCHANGED <<closed, fates>>
  BY SameFates DEF closed, Window
<1>2. current \in Int /\ confirmed \in Int /\ confirmed <= current
  BY DEF EngineInv, SourceInv, SourceTypeOK
<1>3. confirmed' = current
  BY <1>2 DEF Confirm, Larger
<1>4. CASE current = confirmed
  BY <1>1, <1>3, <1>4, QuietStep
<1>5. CASE current # confirmed
  <2>1. confirmed' \in Int /\ confirmed' > confirmed
    BY <1>2, <1>3, <1>5
  <2>2. \A e \in Data : fates[e] = "waiting" => confirmed' < Ts[e]
    BY <1>3, WaitingIsAhead DEF fates
  <2>3. Promise!Raise
    BY <1>1, <2>1, <2>2 DEF Promise!Raise, fates, closed, Data
  <2> QED BY <2>3 DEF AbsStep, Promise!AbsNext
<1> QED BY <1>4, <1>5

(* MaybeTrigger publishes a window that is due. *)
LEMMA FireStep ==
  ASSUME EngineInv, NEW t \in Thread, NEW v \in Window, CloseWindow(t, v),
         UNCHANGED <<confirmed, paused, overflowed, arrival, postponed>>
  PROVE  AbsStep
<1> DEFINE due == {v}
<1>1. /\ wpc[t] \in {"trigger", "closing"}
      /\ End(v) <= observed[t] /\ CanClose(wstate[v])
      /\ wstate' = [wstate EXCEPT ![v] = "closed"]
      /\ UNCHANGED <<accepted, late>>
  BY DEF CloseWindow, InLoop, DueFor
<1>2. UNCHANGED fates
  BY <1>1, SameFates
<1>3. wstate \in [Window -> {"absent", "open", "closed"}]
  BY DEF EngineInv, WindowInv, WindowTypeOK
<1>4. closed' = closed \cup due
  <2>1. Window' = Window
    BY DEF Window
  <2> QED BY <1>1, <1>3, <2>1 DEF closed
<1>5. due \cap closed = {}
  BY <1>1 DEF CanClose, closed
<1>6. \A w \in due : End(w) <= confirmed
  <2>1. observed[t] <= confirmed /\ observed[t] \in Int /\ confirmed \in Int
    BY <1>1 DEF EngineInv, WindowInv, WindowTypeOK, ObservedConfirmed
  <2>2. \A w \in due : End(w) \in Int
    BY WindowType, WindowAssumption DEF End
  <2> QED BY <1>1, <2>1, <2>2
<1>7. due \subseteq {WindowFor(Ts[e]) : e \in Data}
  <2> SUFFICES ASSUME NEW w \in due PROVE \E e \in Data : w = WindowFor(Ts[e])
    OBVIOUS
  <2>1. wstate[w] # "absent" /\ WindowOK(w)
    BY <1>1 DEF CanClose, EngineInv, WindowInv
  <2>2. PICK e \in Members(w, accepted) : TRUE
    BY <2>1 DEF WindowOK
  <2>3. e \in accepted /\ WindowFor(Ts[e]) = w
    BY DEF Members
  <2>4. accepted \subseteq Data
    BY DEF EngineInv, Classified, WindowInv, WindowTypeOK, Data
  <2> QED BY <2>3, <2>4
<1> DEFINE S == {[e \in Event \ Ping |-> WindowFor(Ts[e])][f] : f \in Event \ Ping}
<1>8. due \in SUBSET S /\ due # {} /\ \A w \in due : w \in Window
  BY <1>7 DEF Data
<1> HIDE DEF due
<1>9. PICK W \in SUBSET S : W = due
  BY <1>8
<1>10. Promise!Fire(W)
  BY <1>2, <1>4, <1>5, <1>6, <1>8, <1>9 DEF Promise!Fire, fates, closed, Data
<1> QED BY <1>10 DEF AbsStep, Promise!AbsNext

(* An event arrives, and the full buffer may evict one. *)
LEMMA ArriveStep ==
  ASSUME EngineInv, NEW e \in Event, EmitEvent(e)
  PROVE  AbsStep
<1> DEFINE how == IF arrival'[e] = "ontime" THEN "waiting" ELSE "tardy"
           next == [fates EXCEPT ![e] = how]
<1>1. /\ Emit(e) /\ UNCHANGED <<paused, wstate, accepted, late, postponed>>
      /\ UNCHANGED closed
  BY DEF EmitEvent, topologyVars, windowVars, closed, Window
<1>2. /\ arrival[e] = "none"
      /\ arrival' = [arrival EXCEPT ![e] = arrival'[e]]
      /\ arrival'[e] \in {"ontime", "gap", "late"}
      /\ arrival'[e] = "ontime" => confirmed < Ts[e]
      /\ confirmed' = confirmed
      /\ \/ overflowed' = overflowed
         \/ \E over \in buffer \cup {e} : overflowed' = overflowed \cup {over}
  BY <1>1, EmitFacts DEF EngineInv
<1>3. \A f \in Event : f # e => arrival'[f] = arrival[f]
  BY <1>2 DEF EngineInv, SourceInv, SourceTypeOK
<1>4. e \notin accepted \cup late \cup overflowed \cup postponed
  <2>1. e \notin handed \cup overflowed
    BY <1>2 DEF EngineInv, SourceInv, Custody
  <2>2. e \notin Range(outputs)
    BY <1>2 DEF EngineInv, Handover
  <2> QED BY <2>1, <2>2 DEF EngineInv, Handover, Classified
<1>5. \A f \in buffer : f \in Event /\ arrival[f] # "none" /\ f \notin overflowed
  BY DEF EngineInv, SourceInv, SourceTypeOK, Custody
<1>6. e \in Data => fates[e] = "none"
  BY <1>2, <1>4 DEF fates, Fate
<1>7. how \in {"waiting", "tardy"} /\ (how = "waiting" => confirmed < Ts[e])
  BY <1>2
<1>8. ASSUME NEW f \in Data, f # e, f \in overflowed' <=> f \in overflowed
      PROVE  Fate(f)' = Fate(f)
  BY <1>1, <1>3, <1>8 DEF Fate, Data
<1>9. ASSUME e \in Data, e \notin overflowed' PROVE Fate(e)' = how
  BY <1>1, <1>2, <1>4, <1>9 DEF Fate
<1>10. ASSUME NEW f \in Data, f \in overflowed', f \notin accepted \cup late
       PROVE  Fate(f)' = "lost"
  BY <1>1, <1>10 DEF Fate
<1>11. ASSUME NEW f \in Data, f \in accepted \cup late PROVE Fate(f)' = Fate(f)
  BY <1>1, <1>11 DEF Fate
<1> HIDE DEF how
<1>12. overflowed \subseteq overflowed'
  BY <1>2
<1>13. CASE \A f \in Data : f \in overflowed' => f \in overflowed \cup accepted \cup late
  <2>1. ASSUME NEW f \in Data, f # e PROVE Fate(f)' = Fate(f)
    <3>1. CASE f \in accepted \cup late
      BY <1>11, <3>1
    <3>2. CASE f \notin accepted \cup late
      BY <1>8, <1>12, <1>13, <2>1, <3>2
    <3> QED BY <3>1, <3>2
  <2>2. CASE e \notin Data
    <3>1. UNCHANGED fates
      BY <2>1, <2>2 DEF fates
    <3> QED BY <1>1, <1>2, <3>1, QuietStep
  <2>3. CASE e \in Data
    <3>1. Fate(e)' = how
      BY <1>4, <1>9, <1>13, <2>3
    <3>2. fates' = next
      BY <2>1, <2>3, <3>1, OneFate
    <3>3. Promise!Arrive(e)
      BY <1>1, <1>2, <1>6, <1>7, <2>3, <3>2 DEF Promise!Arrive, fates, closed, Data
    <3> QED BY <2>3, <3>3 DEF AbsStep, Promise!AbsNext, Data
  <2> QED BY <2>2, <2>3
<1>14. CASE \E f \in Data : f \in overflowed' \ (overflowed \cup accepted \cup late)
  <2>1. PICK over \in Data : /\ over \in overflowed' /\ over \notin overflowed
                             /\ over \notin accepted \cup late
    BY <1>14
  <2>2. overflowed' = overflowed \cup {over} /\ over \in buffer \cup {e}
    BY <1>2, <2>1
  <2>3. Fate(over)' = "lost"
    BY <1>10, <2>1
  <2>4. \A f \in Data : f # e /\ f # over => Fate(f)' = Fate(f)
    BY <1>8, <2>2
  <2>5. over # e => fates[over] \in {"waiting", "tardy"}
    BY <1>5, <2>1, <2>2 DEF fates, Fate
  <2>6. CASE e \notin Data
    <3>1. fates' = [fates EXCEPT ![over] = "lost"]
      BY <2>3, <2>4, <2>6 DEF fates
    <3>2. Promise!Lose(over)
      BY <1>1, <1>2, <2>5, <2>6, <3>1
         DEF Promise!Lose, Promise!InEngine, fates, closed, Data
    <3> QED BY <3>2 DEF AbsStep, Promise!AbsNext, Data
  <2>7. CASE e \in Data
    <3>1. fates' = [next EXCEPT ![over] = "lost"]
      <4>1. over # e => e \notin overflowed'
        BY <1>4, <2>2
      <4>2. over # e => Fate(e)' = how
        BY <1>9, <2>7, <4>1
      <4> QED BY <2>3, <2>4, <2>7, <4>2 DEF fates
    <3>2. next[over] \in {"waiting", "tardy"}
      BY <1>7, <2>5, <2>7 DEF fates
    <3> HIDE DEF next
    <3>3. Promise!Arrive(e)
      <4> USE DEF next
      <4> QED BY <1>1, <1>2, <1>6, <1>7, <2>7, <3>1, <3>2
              DEF Promise!Arrive, fates, closed, Data
    <3> QED BY <2>7, <3>3 DEF AbsStep, Promise!AbsNext, Data
  <2> QED BY <2>6, <2>7
<1> QED BY <1>13, <1>14

LEMMA EngineStepImplements ==
  ASSUME EngineInv, [EngineNext]_engineVars
  PROVE  AbsStep
<1>1. ASSUME UNCHANGED <<confirmed, paused, wstate, accepted, late, overflowed,
                         arrival, postponed>>
      PROVE  AbsStep
  <2>1. UNCHANGED <<closed, fates>>
    BY <1>1, SameFates DEF closed, Window
  <2> QED BY <1>1, <2>1, QuietStep
<1>2. CASE UNCHANGED engineVars
  <2>1. UNCHANGED <<sourceVars, topologyVars, windowVars, postponed>>
    BY <1>2 DEF engineVars
  <2> QED BY <1>1, <2>1 DEF sourceVars, historyVars, trackerVars, topologyVars,
                            windowVars
<1>3. ASSUME NEW e \in Event, EmitEvent(e) PROVE AbsStep
  BY <1>3, ArriveStep
<1>4. ASSUME NEW e \in Event, CompleteElsewhere(e) PROVE AbsStep
  <2>1. /\ paused /\ arrival[e] # "none" /\ ApplyNow(e) /\ ApplyToWindows(e)
        /\ UNCHANGED <<sourceVars, postponed>>
    BY <1>4 DEF CompleteElsewhere
  <2>2. UNCHANGED <<trackerVars, confirmed, overflowed, arrival>>
    BY <2>1, SameSource DEF EngineInv
  <2>3. ApplyLocked(e) /\ paused' = paused
    BY <2>1 DEF ApplyNow
  <2>4. Skipped(e) \/ TakenIn(e) \/ FoundLate(e)
    BY <2>1, <2>2, <2>3, ApplyOutcome
  <2> QED BY <2>1, <2>2, <2>3, <2>4, SettleStep
<1>5. CASE StopSource \/ (\E t \in Thread, ts \in Target : PipelineAdvance(t, ts))
  <2>1. UNCHANGED <<topologyVars, windowVars, postponed, overflowed, arrival>>
    BY <1>5, SourceMoves
  <2>2. UNCHANGED confirmed
    BY <1>5 DEF StopSource, Stop, PipelineAdvance, AdvanceTo, trackerVars
  <2> QED BY <1>1, <2>1, <2>2 DEF topologyVars, windowVars
<1>6. ASSUME NEW t \in Thread, Deliver(t) PROVE AbsStep
  <2> DEFINE e == inflight[t]
  <2>1. /\ e \in Event /\ e \notin overflowed /\ arrival[e] # "none"
        /\ UNCHANGED <<trackerVars, confirmed, overflowed, arrival>>
    BY <1>6, DeliveredEvent
  <2>2. Process(e) /\ paused' = paused
    BY <1>6 DEF Deliver, Process
  <2>3. PICK d \in Event : d = e
    BY <2>1
  <2>4. CASE paused
    <3>1. /\ postponed' = postponed \cup {d}
          /\ UNCHANGED <<wstate, accepted, late>>
      BY <1>6, <2>3, <2>4 DEF Deliver, windowVars
    <3> HIDE DEF e
    <3> QED BY <2>1, <2>2, <2>3, <2>4, <3>1, DelayStep
  <2>5. CASE ~paused
    <3>1. ApplyToWindows(e) /\ ApplyLocked(e) /\ UNCHANGED postponed
      BY <1>6, <2>2, <2>5 DEF Deliver, Process
    <3>2. ApplyToWindows(d) /\ ApplyLocked(d)
      BY <2>3, <3>1 DEF ApplyToWindows, ApplyLocked, IsApplied, MarkApplied,
                        IngestWindow
    <3> HIDE DEF e
    <3>3. Skipped(d) \/ TakenIn(d) \/ FoundLate(d)
      BY <2>1, <3>2, ApplyOutcome
    <3> QED BY <2>1, <2>2, <2>3, <3>1, <3>3, SettleStep
  <2> QED BY <2>4, <2>5
<1>7. ASSUME NEW t \in Thread, SourceStep(t) PROVE AbsStep
  <2>1. UNCHANGED <<topologyVars, windowVars, postponed, overflowed, arrival>>
    BY <1>7, SourceMoves
  <2>2. UNCHANGED <<paused, wstate, accepted, late>>
    BY <2>1 DEF topologyVars, windowVars
  <2>3. Confirm \/ UNCHANGED confirmed
    BY <1>7 DEF SourceStep, Ack, Wake, AdvanceTracker, ConfirmTracker, CountLoad,
                Advance, trackerVars
  <2> QED BY <1>1, <2>1, <2>2, <2>3, RaiseStep
<1>8. ASSUME NEW t \in Thread, AdvanceToReturns(t) \/ Notify(t) \/ FireWindows(t)
      PROVE  AbsStep
  <2>1. UNCHANGED <<topologyVars, postponed, arrival, overflowed, confirmed,
                    accepted, late>>
    BY <1>8, TriggerMoves
  <2>2. paused' = paused
    BY <2>1 DEF topologyVars
  <2>3. wstate' = wstate \/ \E w \in Window : CloseWindow(t, w)
    BY <1>8 DEF AdvanceToReturns, Notify, ReadConfirmed, FireWindows, EndTrigger
  <2> QED BY <1>1, <2>1, <2>2, <2>3, FireStep
<1>9. ASSUME UNCHANGED <<sourceVars, windowVars, postponed>>, paused' \in BOOLEAN
      PROVE  AbsStep
  <2>1. UNCHANGED <<confirmed, overflowed, arrival>>
    BY <1>9, SameSource DEF EngineInv
  <2>2. UNCHANGED <<wstate, accepted, late>>
    BY <1>9 DEF windowVars
  <2> QED BY <1>9, <2>1, <2>2, SuspendStep
<1>10. paused \in BOOLEAN
  BY DEF EngineInv, TopologyInv, TopologyTypeOK
<1>11. CASE PauseTopology \/ ResumeTopology
  BY <1>9, <1>10, <1>11 DEF PauseTopology, Pause, ResumeTopology, ResumeBegin
<1>12. CASE ResumeStep
  <2>1. CASE ResumeEnd /\ UNCHANGED <<sourceVars, windowVars, postponed>>
    BY <1>9, <2>1 DEF ResumeEnd
  <2>2. ASSUME NEW e \in Event, ReplayNext(e), ApplyToWindows(e),
               UNCHANGED <<sourceVars, postponed>>
        PROVE  AbsStep
    <3>1. UNCHANGED <<trackerVars, confirmed, overflowed, arrival>>
      BY <2>2, SameSource DEF EngineInv
    <3>2. ApplyLocked(e) /\ paused' = paused
      BY <2>2 DEF ReplayNext
    <3>3. Skipped(e) \/ TakenIn(e) \/ FoundLate(e)
      BY <2>2, <3>1, <3>2, ApplyOutcome
    <3>4. e \notin overflowed /\ arrival[e] # "none"
      BY <2>2, ReplayedEvent
    <3> QED BY <2>2, <3>1, <3>2, <3>3, <3>4, SettleStep
  <2> QED BY <1>12, <2>1, <2>2 DEF ResumeStep
<1> QED BY <1>2, <1>3, <1>4, <1>5, <1>6, <1>7, <1>8, <1>11, <1>12
        DEF EngineNext, AdvanceStep

LEMMA EngineInitImplements == EngineInit => Promise!AbsInit
<1> SUFFICES ASSUME EngineInit PROVE Promise!AbsInit
  OBVIOUS
<1>1. /\ confirmed = 0 /\ paused = FALSE /\ accepted = {} /\ late = {}
      /\ overflowed = {} /\ arrival = [e \in Event |-> "none"]
      /\ wstate = [w \in Window |-> "absent"]
  BY DEF EngineInit, SourceInit, TrackerInit, TopologyStart, WindowInit
<1>2. \A e \in Event \ Ping : Fate(e) = "none"
  BY <1>1 DEF Fate
<1>3. {w \in Window : wstate[w] = "closed"} = {}
  BY <1>1
<1> QED BY <1>1, <1>2, <1>3 DEF Promise!AbsInit

(* Every behaviour of the wired engine is one that EventTime allows: a     *)
(* window is published once, after its end, with every event that reached  *)
(* the engine ahead of the watermark and was neither evicted nor held back *)
(* (pipeline.go, Process and Advance; source.go, AdvanceTo; topology.go,   *)
(* Process and Resume; window.go, Ingest and MaybeTrigger).                *)
THEOREM EngineImplementsEventTime == EngineSpec => ImplementsEventTime
<1>1. EngineInit => Promise!AbsInit
  BY EngineInitImplements
<1>2. EngineInv /\ [EngineNext]_engineVars
        => [Promise!AbsNext]_(Promise!absVars)
  BY EngineStepImplements DEF AbsStep
<1> QED BY <1>1, <1>2, EngineInvariant, PTL
        DEF EngineSpec, ImplementsEventTime, Promise!AbsSpec
=============================================================================
