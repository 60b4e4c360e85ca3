---------------------------- MODULE IntakeProofs ----------------------------
(***************************************************************************)
(* The way of an event into the engine, component by component: the source *)
(* hands every on-time event over before the watermark that covers it is   *)
(* confirmed, and the topology manager behind it applies every record at   *)
(* most once, strands none and replays in offset order.  Each has an       *)
(* inductive invariant of its own, proved for any events, goroutines,      *)
(* advances, operators and edges and any number of calls.                  *)
(***************************************************************************)
EXTENDS Source, Topology, DataTheorems
-----------------------------------------------------------------------------
(***************************************************************************)
(* The source.                                                             *)
(***************************************************************************)
(* The counter says how many goroutines hold an event. *)
PendingCounts == pending = Cardinality(Busy)

(* A goroutine between pop and acknowledgement holds an event. *)
BusyHolds == \A t \in Busy : inflight[t] \in Event

(* No goroutine has promised a frontier over a buffered on-time event. *)
BufferAhead == \A e \in buffer : arrival[e] = "ontime" => OnTime(e)

(* Nobody who is done waiting covers an on-time event in transit. *)
TransitAhead ==
  \A t \in Thread : pc[t] = "ingest" /\ arrival[inflight[t]] = "ontime" =>
    /\ current < Ts[inflight[t]]
    /\ \A u \in Thread : pc[u] \in {"advance", "confirm"}
                           => target[u] < Ts[inflight[t]]

SourceInv ==
  /\ SourceTypeOK
  /\ confirmed <= current
  /\ PendingCounts
  /\ BusyHolds
  /\ Custody
  /\ BufferAhead
  /\ TransitAhead
-----------------------------------------------------------------------------
(* Busy is finite, so the counter is a natural number. *)
LEMMA BusyFinite ==
  IsFiniteSet(Busy) /\ Cardinality(Busy) \in Nat
<1>1. Busy \subseteq Thread
  BY DEF Busy
<1>2. IsFiniteSet(Busy)
  BY <1>1, EventAssumption, FS_Subset
<1> QED BY <1>2, FS_CardinalityType

(* A thread is busy exactly if it is counted; nobody is when none is. *)
LEMMA NoneBusy ==
  ASSUME PendingCounts, pending = 0
  PROVE  Busy = {}
BY BusyFinite, FS_EmptySet DEF PendingCounts

(***************************************************************************)
(* The facts about the state that a pass through the drain loop keeps, as  *)
(* it is entered from AdvanceTo (nobody was woken) and from the loop body  *)
(* (the waiting goroutines were).                                          *)
(***************************************************************************)
LEMMA DrainLoopKeeps ==
  ASSUME SourceInv,
         NEW t \in Thread, pc[t] \in {"idle", "ack"},
         NEW ts \in Int, NEW p \in Nat, p = Cardinality(Busy \ {t}),
         NEW locs \in [Thread -> Location],
         \A u \in Thread : u # t =>
           locs[u] = pc[u] \/ (pc[u] = "waiting" /\ locs[u] = "woken"),
         DrainLoop(t, ts, p, locs),
         target' \in [Thread -> Int], target'[t] = ts,
         \A u \in Thread : u # t => target'[u] = target[u],
         UNCHANGED <<handed, overflowed, arrival, trackerVars>>
  PROVE  /\ buffer' \subseteq Event
         /\ pending' \in Nat
         /\ pc' \in [Thread -> Location]
         /\ inflight' \in [Thread -> Event \cup {NoEvent}]
         /\ PendingCounts'
         /\ BusyHolds'
         /\ Custody'
         /\ BufferAhead'
         /\ TransitAhead'
<1> USE DEF SourceInv, SourceTypeOK
<1>1. CASE SomethingDue(ts)
  <2>1. PICK e \in Event :
          /\ PopMin(e)
          /\ inflight' = [inflight EXCEPT ![t] = e]
          /\ pending' = p + 1
          /\ pc' = [locs EXCEPT ![t] = "ingest"]
    BY <1>1 DEF DrainLoop
  <2>2. e \in buffer /\ buffer' = buffer \ {e}
    BY <2>1 DEF PopMin, Earliest
  <2>3. Busy' = (Busy \ {t}) \cup {t}
    BY <2>1 DEF Busy, Location
  <2>4. PendingCounts'
    <3>1. IsFiniteSet(Busy \ {t})
      BY BusyFinite, FS_Subset
    <3>2. Cardinality((Busy \ {t}) \cup {t}) = Cardinality(Busy \ {t}) + 1
      BY <3>1, FS_AddElement
    <3> QED BY <2>1, <2>3, <3>2 DEF PendingCounts
  <2>5. BusyHolds'
    BY <2>1, <2>3 DEF BusyHolds
  <2>6. Custody'
    <3>1. InTransit(e)'
      BY <2>1 DEF InTransit
    <3>2. \A f \in Event : f # e => (InTransit(f)' <=> InTransit(f))
      BY <2>1 DEF InTransit
    <3>3. ~InTransit(e)
      BY <2>2 DEF Custody, InTransit
    <3>4. \A u \in Thread : u # t /\ pc'[u] = "ingest"
            => pc[u] = "ingest" /\ inflight'[u] = inflight[u]
      BY <2>1
    <3>5. \A u \in Thread : pc'[u] = "ingest" =>
            /\ inflight'[u] \notin buffer' \cup handed' \cup overflowed'
            /\ \A v \in Thread :
                 pc'[v] = "ingest" /\ inflight'[v] = inflight'[u] => v = u
      BY <2>1, <2>2, <3>3, <3>4 DEF Custody, InTransit
    <3> QED BY <2>2, <3>1, <3>2, <3>5 DEF Custody
  <2>7. BufferAhead'
    BY <2>1, <2>2 DEF BufferAhead, OnTime, PastDrain, trackerVars
  <2>8. TransitAhead'
    BY <2>1, <2>2 DEF TransitAhead, BufferAhead, OnTime, PastDrain, trackerVars
  <2> QED BY <2>1, <2>2, <2>4, <2>5, <2>6, <2>7, <2>8 DEF Location
<1>2. CASE ~SomethingDue(ts)
  <2>1. /\ inflight' = [inflight EXCEPT ![t] = NoEvent]
        /\ pending' = p
        /\ pc' = [locs EXCEPT ![t] = IF MustWait(p) THEN "waiting"
                                                    ELSE "advance"]
        /\ buffer' = buffer
    BY <1>2 DEF DrainLoop
  <2>2. Busy' = Busy \ {t}
    BY <2>1 DEF Busy, Location
  <2>3. PendingCounts'
    BY <2>1, <2>2 DEF PendingCounts
  <2>4. BusyHolds'
    BY <2>1, <2>2 DEF BusyHolds
  <2>5. \A u \in Thread : /\ pc'[u] = "ingest" <=> pc[u] = "ingest"
                          /\ pc[u] = "ingest" => inflight'[u] = inflight[u]
    BY <2>1
  <2>6. Custody'
    BY <2>1, <2>5 DEF Custody, InTransit
  <2>7. BufferAhead'
    <3>1. \A e \in buffer : ts < Ts[e]
      BY <1>2, EventAssumption DEF SomethingDue
    <3> QED BY <2>1, <3>1 DEF BufferAhead, OnTime, PastDrain, trackerVars
  <2>8. TransitAhead'
    <3>1. pc'[t] = "advance" => Busy \ {t} = {}
      <4>1. IsFiniteSet(Busy \ {t})
        BY BusyFinite, FS_Subset
      <4> QED BY <2>1, <4>1, FS_EmptySet DEF MustWait
    <3>2. \A u \in Thread : pc[u] = "ingest" => u \in Busy \ {t}
      BY DEF Busy
    <3> QED BY <2>1, <2>5, <3>1, <3>2 DEF TransitAhead, trackerVars
  <2> QED BY <2>1, <2>3, <2>4, <2>6, <2>7, <2>8 DEF Location
<1> QED BY <1>1, <1>2
-----------------------------------------------------------------------------
(***************************************************************************)
(* One lemma per kind of step.                                             *)
(***************************************************************************)
LEMMA InitInv == SourceInit => SourceInv
<1> SUFFICES ASSUME SourceInit PROVE SourceInv
  OBVIOUS
<1> USE DEF SourceInit, TrackerInit
<1>1. SourceTypeOK
  <2>1. /\ current \in Int /\ confirmed \in Int /\ pending \in Nat
        /\ lastOff \in Int /\ drained \in Nat /\ advances \in Nat
    OBVIOUS
  <2>2. stopped \in BOOLEAN
    OBVIOUS
  <2>3. /\ target \in [Thread -> Int]
        /\ seen \in [Thread -> Nat]
    OBVIOUS
  <2>4. /\ pc \in [Thread -> Location]
        /\ inflight \in [Thread -> Event \cup {NoEvent}]
        /\ arrival \in [Event -> {"none", "ontime", "gap", "late"}]
    BY DEF Location
  <2> QED BY <2>1, <2>2, <2>3, <2>4 DEF SourceTypeOK
<1>2. PendingCounts
  <2>1. Busy = {}
    BY DEF Busy
  <2> QED BY <2>1, FS_EmptySet DEF PendingCounts
<1>3. BusyHolds /\ Custody /\ BufferAhead /\ TransitAhead /\ confirmed <= current
  BY DEF BusyHolds, Busy, Custody, InTransit, BufferAhead, TransitAhead
<1> QED BY <1>1, <1>2, <1>3 DEF SourceInv

LEMMA EmitKeeps ==
  ASSUME SourceInv, NEW e \in Event, Emit(e)
  PROVE  SourceInv'
<1> USE DEF SourceInv, Emit, threadVars, trackerVars
<1>1. /\ e \notin buffer \cup handed \cup overflowed
      /\ ~InTransit(e)
  BY DEF Custody
<1>2. \/ buffer' = buffer \cup {e} /\ overflowed' = overflowed
      \/ \E over \in buffer \cup {e} :
           /\ buffer' = (buffer \cup {e}) \ {over}
           /\ overflowed' = overflowed \cup {over}
  BY DEF Add, Earliest
<1>3. arrival[e] = "none" /\ arrival' = [arrival EXCEPT ![e] = Arrival(e)]
  OBVIOUS
<1>4. Arrival(e) \in {"ontime", "gap", "late"}
  BY DEF Arrival
<1>5. SourceTypeOK'
  BY <1>2, <1>4, EventAssumption DEF SourceTypeOK
<1>6. Busy' = Busy
  BY DEF Busy
<1>7. PendingCounts' /\ BusyHolds'
  BY <1>6 DEF PendingCounts, BusyHolds
<1>8. \A f \in Event : InTransit(f)' <=> InTransit(f)
  BY DEF InTransit
<1>9. \A t \in Thread : pc[t] = "ingest" =>
        /\ inflight[t] # e
        /\ inflight[t] \in Event
  BY <1>1 DEF InTransit, BusyHolds, Busy
<1>10. Custody'
  <2>1. \A f \in Event :
          arrival'[f] # "none" <=>
            f \in buffer' \/ f \in handed' \/ f \in overflowed' \/ InTransit(f)'
    BY <1>1, <1>2, <1>3, <1>4, <1>8 DEF Custody, SourceTypeOK
  <2>2. /\ buffer' \cap (handed' \cup overflowed') = {}
        /\ handed' \cap overflowed' = {}
    BY <1>1, <1>2 DEF Custody
  <2>3. \A t \in Thread : pc'[t] = "ingest" =>
          /\ inflight'[t] \notin buffer' \cup handed' \cup overflowed'
          /\ \A u \in Thread :
               pc'[u] = "ingest" /\ inflight'[u] = inflight'[t] => u = t
    BY <1>2, <1>9 DEF Custody
  <2> QED BY <2>1, <2>2, <2>3 DEF Custody
<1>11. BufferAhead'
  <2>1. \A f \in Event : OnTime(f)' <=> OnTime(f)
    BY DEF OnTime
  <2>2. arrival'[e] = "ontime" => OnTime(e)
    BY <1>3 DEF Arrival, SourceTypeOK
  <2>3. \A f \in buffer' : f \in Event /\ (f = e \/ f \in buffer)
    BY <1>2 DEF SourceTypeOK
  <2> QED BY <1>3, <2>1, <2>2, <2>3 DEF BufferAhead, SourceTypeOK
<1>12. TransitAhead'
  BY <1>3, <1>9 DEF TransitAhead, SourceTypeOK
<1> QED BY <1>5, <1>7, <1>10, <1>11, <1>12

LEMMA AdvanceToKeeps ==
  ASSUME SourceInv, NEW t \in Thread, NEW ts \in Target, AdvanceTo(t, ts)
  PROVE  SourceInv'
<1> USE DEF AdvanceTo
<1>1. SourceTypeOK /\ pc[t] = "idle" /\ ts \in Int
  BY SourceAssumption DEF SourceInv
<1>2. Busy \ {t} = Busy
  BY <1>1 DEF Busy
<1>3. pending \in Nat /\ pending = Cardinality(Busy \ {t})
  BY <1>1, <1>2 DEF SourceInv, SourceTypeOK, PendingCounts
<1>4. /\ target' \in [Thread -> Int]
      /\ target'[t] = ts
      /\ \A u \in Thread : u # t => target'[u] = target[u]
  BY <1>1 DEF SourceTypeOK
<1>5. pc \in [Thread -> Location]
  BY <1>1 DEF SourceTypeOK
<1>6. UNCHANGED <<handed, overflowed, arrival, trackerVars>>
  OBVIOUS
<1>7. /\ buffer' \subseteq Event
      /\ pending' \in Nat
      /\ pc' \in [Thread -> Location]
      /\ inflight' \in [Thread -> Event \cup {NoEvent}]
      /\ PendingCounts' /\ BusyHolds' /\ Custody'
      /\ BufferAhead' /\ TransitAhead'
  BY <1>1, <1>3, <1>4, <1>5, <1>6, DrainLoopKeeps
<1>8. SourceTypeOK'
  BY <1>1, <1>4, <1>7 DEF SourceTypeOK, trackerVars
<1> QED BY <1>7, <1>8 DEF SourceInv, trackerVars

LEMMA AckKeeps ==
  ASSUME SourceInv, NEW t \in Thread, Ack(t)
  PROVE  SourceInv'
<1> USE DEF Ack
<1>1. SourceTypeOK /\ pc[t] = "ack" /\ target[t] \in Int
  BY DEF SourceInv, SourceTypeOK
<1>2. t \in Busy
  BY <1>1 DEF Busy
<1>3. pending - 1 \in Nat /\ pending - 1 = Cardinality(Busy \ {t})
  <2>1. IsFiniteSet(Busy) /\ pending = Cardinality(Busy)
    BY BusyFinite DEF SourceInv, PendingCounts
  <2>2. IsFiniteSet(Busy \ {t}) /\ Cardinality(Busy \ {t}) = pending - 1
    BY <1>2, <2>1, FS_RemoveElement
  <2> QED BY <2>2, FS_CardinalityType
<1>4. /\ Broadcast \in [Thread -> Location]
      /\ \A u \in Thread : u # t =>
           \/ Broadcast[u] = pc[u]
           \/ pc[u] = "waiting" /\ Broadcast[u] = "woken"
  BY <1>1 DEF Broadcast, SourceTypeOK, Location
<1>5. target' = target /\ target \in [Thread -> Int]
  BY <1>1 DEF SourceTypeOK
<1>6. UNCHANGED <<handed, overflowed, arrival, trackerVars>>
  BY DEF historyVars
<1>7. DrainLoop(t, target[t], pending - 1, Broadcast)
  OBVIOUS
<1>8. /\ buffer' \subseteq Event
      /\ pending' \in Nat
      /\ pc' \in [Thread -> Location]
      /\ inflight' \in [Thread -> Event \cup {NoEvent}]
      /\ PendingCounts' /\ BusyHolds' /\ Custody'
      /\ BufferAhead' /\ TransitAhead'
  BY <1>1, <1>3, <1>4, <1>5, <1>6, <1>7, DrainLoopKeeps
<1>9. SourceTypeOK'
  BY <1>1, <1>5, <1>8 DEF SourceTypeOK, trackerVars, historyVars
<1> QED BY <1>8, <1>9 DEF SourceInv, trackerVars, historyVars
LEMMA IngestKeeps ==
  ASSUME SourceInv, NEW t \in Thread, Ingest(t)
  PROVE  SourceInv'
<1> USE DEF SourceInv, Ingest, trackerVars
<1>1. /\ pc[t] = "ingest" /\ pc' = [pc EXCEPT ![t] = "ack"]
      /\ inflight' = inflight /\ inflight[t] \in Event
      /\ handed' = handed \cup {inflight[t]}
  BY DEF BusyHolds, Busy
<1>2. SourceTypeOK'
  BY <1>1 DEF SourceTypeOK, Location
<1>3. Busy' = Busy
  BY <1>1 DEF Busy, SourceTypeOK
<1>4. PendingCounts' /\ BusyHolds'
  BY <1>1, <1>3 DEF PendingCounts, BusyHolds
<1>5. Custody'
  <2>1. \A e \in Event : InTransit(e)' <=> InTransit(e) /\ e # inflight[t]
    BY <1>1 DEF InTransit, Custody, SourceTypeOK
  <2>2. InTransit(inflight[t])
    BY <1>1 DEF InTransit
  <2>3. \A e \in Event :
          arrival'[e] # "none" <=>
            e \in buffer' \/ e \in handed' \/ e \in overflowed' \/ InTransit(e)'
    BY <1>1, <2>1, <2>2 DEF Custody
  <2>4. /\ buffer' \cap (handed' \cup overflowed') = {}
        /\ handed' \cap overflowed' = {}
    BY <1>1 DEF Custody
  <2>5. \A u \in Thread : pc'[u] = "ingest" => u # t /\ pc[u] = "ingest"
    BY <1>1 DEF SourceTypeOK
  <2>6. \A u \in Thread : pc'[u] = "ingest" =>
          /\ inflight'[u] \notin buffer' \cup handed' \cup overflowed'
          /\ \A v \in Thread :
               pc'[v] = "ingest" /\ inflight'[v] = inflight'[u] => v = u
    BY <1>1, <2>5 DEF Custody
  <2> QED BY <2>3, <2>4, <2>6 DEF Custody
<1>6. BufferAhead'
  BY <1>1 DEF BufferAhead, OnTime, PastDrain, SourceTypeOK
<1>7. TransitAhead'
  BY <1>1 DEF TransitAhead, SourceTypeOK
<1> QED BY <1>2, <1>4, <1>5, <1>6, <1>7

(* A step that moves goroutines among locations outside pop and            *)
(* acknowledgement, none of them past its drain for the first time, and    *)
(* none past its wait unless nobody is busy.                               *)
LEMMA MoveKeeps ==
  ASSUME SourceInv,
         pc' \in [Thread -> Location],
         \A u \in Thread :
           /\ pc'[u] \in {"ingest", "ack"} <=> pc[u] \in {"ingest", "ack"}
           /\ pc[u] \in {"ingest", "ack"} => pc'[u] = pc[u]
           /\ pc'[u] \in PastDrain => pc[u] \in PastDrain
           /\ pc'[u] \in {"advance", "confirm"} =>
                pc[u] \in {"advance", "confirm"} \/ Busy = {},
         UNCHANGED <<buffer, pending, target, inflight, handed, overflowed,
                     arrival, current>>
  PROVE  /\ PendingCounts'
         /\ BusyHolds'
         /\ Custody'
         /\ BufferAhead'
         /\ TransitAhead'
<1> USE DEF SourceInv
<1>1. Busy' = Busy
  BY DEF Busy
<1>2. \A u \in Thread : pc'[u] = "ingest" <=> pc[u] = "ingest"
  OBVIOUS
<1>3. PendingCounts' /\ BusyHolds'
  BY <1>1 DEF PendingCounts, BusyHolds
<1>4. Custody'
  BY <1>2 DEF Custody, InTransit
<1>5. BufferAhead'
  BY DEF BufferAhead, OnTime
<1>6. TransitAhead'
  BY <1>2 DEF TransitAhead, Busy
<1> QED BY <1>3, <1>4, <1>5, <1>6

LEMMA StopKeeps ==
  ASSUME SourceInv, Stop
  PROVE  SourceInv'
<1> USE DEF Stop
<1>1. SourceTypeOK'
  <2>1. stopped' \in BOOLEAN
    OBVIOUS
  <2>2. pc' \in [Thread -> Location]
    BY DEF Broadcast, Location, SourceInv, SourceTypeOK
  <2> QED BY <2>1, <2>2 DEF SourceInv, SourceTypeOK, historyVars, trackerVars
<1>2. PendingCounts' /\ BusyHolds' /\ Custody' /\ BufferAhead' /\ TransitAhead'
  <2>1. pc' = Broadcast /\ pc' \in [Thread -> Location]
    BY <1>1 DEF SourceTypeOK
  <2>2. \A u \in Thread :
          pc'[u] = IF pc[u] = "waiting" THEN "woken" ELSE pc[u]
    BY <2>1 DEF Broadcast
  <2> QED BY <2>1, <2>2, MoveKeeps DEF PastDrain, historyVars, trackerVars
<1> QED BY <1>1, <1>2 DEF SourceInv, trackerVars

LEMMA WakeKeeps ==
  ASSUME SourceInv, NEW t \in Thread, Wake(t)
  PROVE  SourceInv'
<1> USE DEF Wake, historyVars, trackerVars
<1>1. SourceTypeOK'
  BY DEF SourceInv, SourceTypeOK, Location
<1>2. pc'[t] = "advance" => Busy = {}
  BY NoneBusy DEF MustWait, SourceInv, SourceTypeOK
<1>3. PendingCounts' /\ BusyHolds' /\ Custody' /\ BufferAhead' /\ TransitAhead'
  <2>1. \A u \in Thread : u # t => pc'[u] = pc[u]
    BY DEF SourceInv, SourceTypeOK
  <2>2. pc[t] = "woken" /\ pc'[t] \in {"waiting", "advance"}
    BY DEF SourceInv, SourceTypeOK
  <2>3. pc' \in [Thread -> Location]
    BY <1>1 DEF SourceTypeOK
  <2> QED BY <1>2, <2>1, <2>2, <2>3, MoveKeeps DEF PastDrain
<1> QED BY <1>1, <1>3 DEF SourceInv

LEMMA AdvanceTrackerKeeps ==
  ASSUME SourceInv, NEW t \in Thread, AdvanceTracker(t)
  PROVE  SourceInv'
<1> USE DEF SourceInv, AdvanceTracker, historyVars
<1>1. /\ pc[t] = "advance" /\ pc' = [pc EXCEPT ![t] = "confirm"]
      /\ target' = target /\ target[t] \in Int
      /\ current' = Larger(target[t], current)
      /\ confirmed' = confirmed
  BY DEF Advance, SourceTypeOK
<1>2. /\ current' \in Int /\ current <= current'
      /\ current' = current \/ current' = target[t]
  BY <1>1 DEF Larger, SourceTypeOK
<1>3. SourceTypeOK' /\ confirmed' <= current'
  BY <1>1, <1>2 DEF SourceTypeOK, Location
<1>4. \A u \in Thread : /\ u # t => pc'[u] = pc[u]
                        /\ pc'[t] = "confirm"
  BY <1>1 DEF SourceTypeOK
<1>5. Busy' = Busy
  BY <1>1, <1>4 DEF Busy
<1>6. PendingCounts' /\ BusyHolds'
  BY <1>5 DEF PendingCounts, BusyHolds
<1>7. Custody'
  BY <1>1, <1>4 DEF Custody, InTransit
<1>8. BufferAhead'
  BY <1>1, <1>2, <1>4 DEF BufferAhead, OnTime, PastDrain
<1>9. TransitAhead'
  BY <1>1, <1>2, <1>4 DEF TransitAhead
<1> QED BY <1>3, <1>6, <1>7, <1>8, <1>9

LEMMA LeaveKeeps ==
  ASSUME SourceInv, NEW t \in Thread,
         ConfirmTracker(t) \/ CountLoad(t) \/ CountStore(t)
  PROVE  SourceInv'
<1> USE DEF ConfirmTracker, CountLoad, CountStore, historyVars
<1>1. /\ pc[t] \in {"confirm", "count", "store"}
      /\ pc' = [pc EXCEPT ![t] = pc'[t]]
      /\ pc'[t] \in {"count", "store", "idle"}
  BY DEF SourceInv, SourceTypeOK
<1>2. SourceTypeOK' /\ confirmed' <= current'
  BY DEF SourceInv, SourceTypeOK, Location, Confirm, Larger, trackerVars
<1>3. PendingCounts' /\ BusyHolds' /\ Custody' /\ BufferAhead' /\ TransitAhead'
  <2>1. \A u \in Thread : u # t => pc'[u] = pc[u]
    BY <1>1 DEF SourceInv, SourceTypeOK
  <2>2. pc' \in [Thread -> Location]
    BY <1>2 DEF SourceTypeOK
  <2>3. UNCHANGED <<buffer, pending, target, inflight, handed, overflowed,
                    arrival, current>>
    BY DEF Confirm, trackerVars
  <2> QED BY <1>1, <2>1, <2>2, <2>3, MoveKeeps DEF PastDrain
<1> QED BY <1>2, <1>3 DEF SourceInv
-----------------------------------------------------------------------------
LEMMA StepInv == SourceInv /\ [SourceNext]_sourceVars => SourceInv'
<1> SUFFICES ASSUME SourceInv, [SourceNext]_sourceVars
             PROVE  SourceInv'
  OBVIOUS
<1>1. ASSUME NEW e \in Event, Emit(e) PROVE SourceInv'
  BY <1>1, EmitKeeps
<1>2. CASE Stop
  BY <1>2, StopKeeps
<1>3. ASSUME NEW t \in Thread, NEW ts \in Target, AdvanceTo(t, ts)
      PROVE  SourceInv'
  BY <1>3, AdvanceToKeeps
<1>4. ASSUME NEW t \in Thread, Step(t) PROVE SourceInv'
  BY <1>4, IngestKeeps, AckKeeps, WakeKeeps, AdvanceTrackerKeeps, LeaveKeeps
     DEF Step
<1>5. CASE UNCHANGED sourceVars
  <2>1. Busy' = Busy /\ \A e \in Event : InTransit(e)' <=> InTransit(e)
    BY <1>5 DEF Busy, InTransit, sourceVars, threadVars
  <2>2. \A e \in Event : OnTime(e)' <=> OnTime(e)
    BY <1>5 DEF OnTime, sourceVars, threadVars, trackerVars
  <2> QED BY <1>5, <2>1, <2>2 DEF SourceInv, SourceTypeOK, PendingCounts,
          BusyHolds, Custody, BufferAhead, TransitAhead, sourceVars,
          threadVars, historyVars, trackerVars
<1> QED BY <1>1, <1>2, <1>3, <1>4, <1>5 DEF SourceNext

LEMMA InvImpliesDrained == SourceInv => DrainedBeforeConfirm
<1> SUFFICES ASSUME SourceInv, NEW e \in Event,
                    arrival[e] = "ontime", Ts[e] <= confirmed
             PROVE  e \in handed \cup overflowed
  BY DEF DrainedBeforeConfirm
<1>1. ~(current < Ts[e])
  BY EventAssumption DEF SourceInv, SourceTypeOK
<1>2. e \notin buffer
  BY <1>1 DEF SourceInv, BufferAhead, OnTime
<1>3. ~InTransit(e)
  BY <1>1 DEF SourceInv, TransitAhead, InTransit
<1> QED BY <1>2, <1>3 DEF SourceInv, Custody

(* The inductive invariant holds in every reachable state. *)
THEOREM SourceInvariant == SourceSpec => []SourceInv
BY InitInv, StepInv, PTL DEF SourceSpec

(* The source's variables keep their types; in particular the number of    *)
(* pending handoffs never becomes negative (source.go, pending--).         *)
THEOREM SourceTypes == SourceSpec => []SourceTypeOK
<1>1. SourceInv => SourceTypeOK
  BY DEF SourceInv
<1> QED BY <1>1, SourceInvariant, PTL

(* An accepted event is at exactly one place, for any number of events,    *)
(* goroutines and advances (source.go, Emit and AdvanceTo).                *)
THEOREM SourceCustody == SourceSpec => []Custody
<1>1. SourceInv => Custody
  BY DEF SourceInv
<1> QED BY <1>1, SourceInvariant, PTL

(* Drain before confirm, for any number of events, goroutines and advances *)
(* (source.go, AdvanceTo): the confirmed watermark covers no on-time event *)
(* that the pipeline has not received, unless the full buffer evicted it.  *)
THEOREM SourceDrains == SourceSpec => []DrainedBeforeConfirm
BY SourceInvariant, InvImpliesDrained, PTL
-----------------------------------------------------------------------------
(***************************************************************************)
(* The topology manager.                                                   *)
(***************************************************************************)
(* Outside a resume nothing is left to replay, and only a paused topology  *)
(* is resumed.                                                             *)
TopologyInv ==
  /\ TopologyTypeOK
  /\ replaying => paused
  /\ ~replaying => todo = {}
  /\ AppliedOnce
  /\ Accounted
  /\ ReplayInOffsetOrder
-----------------------------------------------------------------------------
(* A record is applied exactly if apply saw it: offsets are distinct. *)
LEMMA AppliedIsOutput ==
  ASSUME TopologyTypeOK, AppliedOnce, NEW e \in Event
  PROVE  IsApplied(e) <=> e \in Range(outputs)
<1>1. Range(outputs) \subseteq Event
  BY RangeOfSeq DEF TopologyTypeOK
<1> QED BY <1>1, EventAssumption DEF IsApplied, AppliedOnce

(* applyLocked applies a record the first time and is idle afterwards. *)
LEMMA ApplyLockedKeeps ==
  ASSUME TopologyTypeOK, AppliedOnce, NEW e \in Event, ApplyLocked(e)
  PROVE  /\ applied' \subseteq Int
         /\ outputs' \in Seq(Event)
         /\ AppliedOnce'
         /\ Range(outputs') = Range(outputs) \cup {e}
         /\ applied' = applied \cup {Off[e]}
<1>1. CASE IsApplied(e)
  <2>1. applied' = applied /\ outputs' = outputs
    BY <1>1 DEF ApplyLocked
  <2>2. e \in Range(outputs)
    BY <1>1, AppliedIsOutput
  <2> QED BY <1>1, <2>1, <2>2 DEF AppliedOnce, TopologyTypeOK, IsApplied
<1>2. CASE ~IsApplied(e)
  <2>1. applied' = applied \cup {Off[e]} /\ outputs' = Append(outputs, e)
    BY <1>2 DEF ApplyLocked, MarkApplied
  <2>2. outputs \in Seq(Event) /\ applied \subseteq Int /\ Off[e] \in Int
    BY EventAssumption DEF TopologyTypeOK
  <2>3. /\ outputs' \in Seq(Event)
        /\ Range(outputs') = Range(outputs) \cup {e}
    BY <2>1, <2>2, AppendRange
  <2>4. e \notin Range(outputs)
    BY <1>2, AppliedIsOutput
  <2>5. \A i, j \in DOMAIN outputs' : outputs'[i] = outputs'[j] => i = j
    BY <2>1, <2>2, <2>4, AppendDistinct DEF AppliedOnce
  <2>6. applied' = {Off[f] : f \in Range(outputs')}
    BY <2>1, <2>3 DEF AppliedOnce
  <2> QED BY <2>1, <2>2, <2>3, <2>5, <2>6 DEF AppliedOnce
<1> QED BY <1>1, <1>2
-----------------------------------------------------------------------------
(***************************************************************************)
(* One lemma per kind of step.                                             *)
(***************************************************************************)
LEMMA TopologyStartInv ==
  ASSUME NEW ops \in [Operator -> {"absent", "running", "pausing", "resumed"}],
         NEW E \in SUBSET (Operator \X Operator),
         TopologyStart(ops, E)
  PROVE  TopologyInv
<1> USE DEF TopologyStart
<1>1. Range(<<>>) = {}
  BY DEF Range
<1>2. /\ paused \in BOOLEAN /\ replaying \in BOOLEAN
      /\ ~paused /\ ~replaying
  OBVIOUS
<1>3. /\ parked \subseteq Event /\ applied \subseteq Int /\ todo \subseteq parked
      /\ received \subseteq Event
      /\ outputs \in Seq(Event) /\ replayed \in Seq(Event)
  OBVIOUS
<1>4. TopologyTypeOK
  BY <1>2, <1>3 DEF TopologyTypeOK
<1>5. AppliedOnce
  BY <1>1 DEF AppliedOnce
<1>6. Accounted
  BY <1>1, <1>2 DEF Accounted
<1>7. ReplayInOffsetOrder
  BY DEF ReplayInOffsetOrder
<1> QED BY <1>2, <1>4, <1>5, <1>6, <1>7 DEF TopologyInv

(* A cycle stays when edges are added. *)
LEMMA FewerEdges ==
  ASSUME NEW E, NEW F, E \subseteq F, Acyclic(F)
  PROVE  Acyclic(E)
BY DEF Acyclic

(* Steps that touch only the operators, the graph or the pause flag. *)
LEMMA ControlKeeps ==
  ASSUME TopologyInv,
         \/ \E o \in Operator : AddOperator(o)
         \/ \E from, to \in Operator : Connect(from, to)
         \/ Pause
  PROVE  TopologyInv'
<1> USE DEF TopologyInv, AddOperator, Connect, Pause, resumeVars
<1>1. /\ UNCHANGED <<parked, applied, replaying, todo, replayed, received,
                     outputs>>
      /\ paused' \in BOOLEAN /\ (paused' \/ paused' = paused) /\ ~replaying
  BY DEF TopologyTypeOK
<1>2. /\ instances' \in [Operator -> {"absent", "running", "pausing", "resumed"}]
      /\ edges' \subseteq Operator \X Operator
  BY DEF TopologyTypeOK, Shift
<1>3. TopologyTypeOK'
  BY <1>1, <1>2 DEF TopologyTypeOK
<1>4. AppliedOnce' /\ ReplayInOffsetOrder'
  BY <1>1 DEF AppliedOnce, ReplayInOffsetOrder
<1>5. Accounted'
  <2>1. edges \subseteq edges'
    OBVIOUS
  <2>2. Acyclic(edges)' => Acyclic(edges)
    BY <2>1, FewerEdges
  <2> QED BY <1>1, <2>2 DEF Accounted, IsApplied
<1> QED BY <1>1, <1>3, <1>4, <1>5

(* Process while paused parks the record. *)
LEMMA ProcessKeeps ==
  ASSUME TopologyInv, NEW e \in Event, Process(e)
  PROVE  TopologyInv'
<1> USE DEF TopologyInv, Process, resumeVars
<1>1. /\ ~replaying /\ received' = received \cup {e}
      /\ UNCHANGED <<instances, edges, paused, replaying, todo, replayed>>
  OBVIOUS
<1>2. ReplayInOffsetOrder'
  BY <1>1 DEF ReplayInOffsetOrder
<1>3. CASE paused
  <2>1. parked' = parked \cup {e} /\ applied' = applied /\ outputs' = outputs
    BY <1>3
  <2>2. TopologyTypeOK' /\ AppliedOnce'
    BY <1>1, <2>1 DEF TopologyTypeOK, AppliedOnce
  <2>3. Accounted'
    BY <1>1, <1>3, <2>1 DEF Accounted
  <2> QED BY <1>1, <1>2, <2>2, <2>3
<1>4. CASE ~paused
  <2>1. parked' = parked /\ ApplyLocked(e)
    BY <1>4
  <2>2. /\ applied' \subseteq Int
        /\ outputs' \in Seq(Event)
        /\ AppliedOnce'
        /\ Range(outputs') = Range(outputs) \cup {e}
    BY <2>1, ApplyLockedKeeps
  <2>3. TopologyTypeOK'
    BY <1>1, <2>1, <2>2 DEF TopologyTypeOK
  <2>4. Accounted'
    BY <1>1, <2>1, <2>2 DEF Accounted
  <2> QED BY <1>1, <1>2, <2>2, <2>3, <2>4
<1> QED BY <1>3, <1>4

LEMMA ApplyNowKeeps ==
  ASSUME TopologyInv, NEW e \in Event, ApplyNow(e)
  PROVE  TopologyInv'
<1> USE DEF TopologyInv, ApplyNow, resumeVars
<1>1. /\ ~replaying /\ received' = received \cup {e} /\ ApplyLocked(e)
      /\ UNCHANGED <<instances, edges, paused, parked, replaying, todo, replayed>>
  OBVIOUS
<1>2. /\ applied' \subseteq Int
      /\ outputs' \in Seq(Event)
      /\ AppliedOnce'
      /\ Range(outputs') = Range(outputs) \cup {e}
  BY <1>1, ApplyLockedKeeps
<1>3. TopologyTypeOK' /\ ReplayInOffsetOrder'
  BY <1>1, <1>2 DEF TopologyTypeOK, ReplayInOffsetOrder
<1>4. Accounted'
  BY <1>1, <1>2 DEF Accounted
<1> QED BY <1>1, <1>2, <1>3, <1>4

(* A resume that finds a cycle leaves nothing to be said of the records. *)
LEMMA ResumeCyclicKeeps ==
  ASSUME TopologyInv, ResumeCyclic
  PROVE  TopologyInv'
<1> USE DEF TopologyInv, ResumeCyclic, resumeVars
<1>1. /\ ~replaying /\ parked' = {} /\ paused' = FALSE
      /\ ~Acyclic(edges)
      /\ UNCHANGED <<instances, edges, applied, replaying, todo, replayed,
                     received, outputs>>
  OBVIOUS
<1>2. TopologyTypeOK' /\ AppliedOnce' /\ ReplayInOffsetOrder'
  BY <1>1 DEF TopologyTypeOK, AppliedOnce, ReplayInOffsetOrder
<1>3. Accounted'
  BY <1>1 DEF Accounted
<1> QED BY <1>1, <1>2, <1>3

LEMMA ResumeBeginKeeps ==
  ASSUME TopologyInv, ResumeBegin
  PROVE  TopologyInv'
<1> USE DEF TopologyInv, ResumeBegin
<1>1. /\ paused /\ replaying' = TRUE /\ todo' = parked /\ replayed' = <<>>
      /\ UNCHANGED <<instances, edges, paused, parked, applied, received,
                     outputs>>
  OBVIOUS
<1>2. TopologyTypeOK'
  BY <1>1 DEF TopologyTypeOK
<1>3. AppliedOnce'
  BY <1>1 DEF AppliedOnce
<1>4. ReplayInOffsetOrder'
  <2>1. Range(<<>>) = {} /\ DOMAIN <<>> = {}
    BY DEF Range
  <2> QED BY <1>1, <2>1 DEF ReplayInOffsetOrder
<1>5. Accounted'
  BY <1>1 DEF Accounted
<1> QED BY <1>1, <1>2, <1>3, <1>4, <1>5

(* Values added at the end of a strictly increasing sequence. *)
LEMMA AppendOrdered ==
  ASSUME NEW seq \in Seq(Event), NEW x \in Event,
         \A i, j \in DOMAIN seq : i < j => Off[seq[i]] < Off[seq[j]],
         \A f \in Range(seq) : Off[f] < Off[x]
  PROVE  \A i, j \in DOMAIN Append(seq, x) :
           i < j => Off[Append(seq, x)[i]] < Off[Append(seq, x)[j]]
<1>1. /\ Append(seq, x) \in Seq(Event)
      /\ Len(Append(seq, x)) = Len(seq) + 1
      /\ \A i \in 1..Len(seq) : Append(seq, x)[i] = seq[i]
      /\ Append(seq, x)[Len(seq) + 1] = x
  BY AppendProperties
<1>2. /\ Len(seq) \in Nat
      /\ DOMAIN seq = 1..Len(seq)
      /\ DOMAIN Append(seq, x) = 1..(Len(seq) + 1)
  BY <1>1, LenProperties
<1>3. \A i \in 1..Len(seq) : Off[seq[i]] < Off[x]
  BY <1>2 DEF Range
<1>4. SUFFICES ASSUME NEW i \in 1..(Len(seq) + 1), NEW j \in 1..(Len(seq) + 1),
                      i < j
               PROVE  Off[Append(seq, x)[i]] < Off[Append(seq, x)[j]]
  BY <1>2
<1>5. i \in 1..Len(seq) /\ (j \in 1..Len(seq) \/ j = Len(seq) + 1)
  BY <1>2, <1>4
<1> QED BY <1>1, <1>2, <1>3, <1>4, <1>5

(* An iteration of the loop: the least offset left follows all before. *)
LEMMA ReplayNextKeeps ==
  ASSUME TopologyInv, NEW e \in Event, ReplayNext(e)
  PROVE  TopologyInv'
<1> USE DEF TopologyInv, ReplayNext
<1>1. /\ replaying /\ paused /\ e \in First(todo) /\ todo' = todo \ {e}
      /\ ApplyLocked(e)
      /\ replayed' = IF IsApplied(e) THEN replayed ELSE Append(replayed, e)
      /\ UNCHANGED <<instances, edges, paused, parked, replaying, received>>
  OBVIOUS
<1>2. /\ applied' \subseteq Int
      /\ outputs' \in Seq(Event)
      /\ AppliedOnce'
      /\ Range(outputs') = Range(outputs) \cup {e}
      /\ applied' = applied \cup {Off[e]}
  BY <1>1, ApplyLockedKeeps
<1>3. e \in todo /\ \A f \in todo : Off[e] <= Off[f]
  BY <1>1 DEF First
<1>4. replayed \in Seq(Event) /\ todo \subseteq Event
  BY DEF TopologyTypeOK
<1>5. \A f \in todo' : Off[e] < Off[f]
  BY <1>1, <1>3, <1>4, EventAssumption
<1>6. replayed' \in Seq(Event) /\ Range(replayed') \subseteq Range(replayed) \cup {e}
  BY <1>1, <1>4, AppendRange
<1>7. TopologyTypeOK'
  BY <1>1, <1>2, <1>6 DEF TopologyTypeOK
<1>8. Accounted'
  BY <1>1, <1>2 DEF Accounted, IsApplied
<1>9. ReplayInOffsetOrder'
  <2>1. \A i, j \in DOMAIN replayed' : i < j => Off[replayed'[i]] < Off[replayed'[j]]
    <3>1. \A f \in Range(replayed) : Off[f] < Off[e]
      BY <1>3 DEF ReplayInOffsetOrder
    <3>2. \A i, j \in DOMAIN replayed : i < j => Off[replayed[i]] < Off[replayed[j]]
      BY DEF ReplayInOffsetOrder
    <3>3. CASE IsApplied(e)
      BY <1>1, <3>2, <3>3
    <3>4. CASE ~IsApplied(e)
      <4>1. replayed' = Append(replayed, e)
        BY <1>1, <3>4
      <4> QED BY <1>4, <3>1, <3>2, <4>1, AppendOrdered
    <3> QED BY <3>3, <3>4
  <2>2. \A g \in todo' : \A f \in Range(replayed') : Off[f] < Off[g]
    BY <1>1, <1>5, <1>6 DEF ReplayInOffsetOrder
  <2> QED BY <2>1, <2>2 DEF ReplayInOffsetOrder
<1> QED BY <1>1, <1>2, <1>7, <1>8, <1>9

(* The end of a resume: every buffered record has been applied. *)
LEMMA ResumeEndKeeps ==
  ASSUME TopologyInv, ResumeEnd
  PROVE  TopologyInv'
<1> USE DEF TopologyInv, ResumeEnd
<1>1. /\ replaying /\ todo = {} /\ replaying' = FALSE /\ parked' = {}
      /\ paused' = FALSE /\ instances' = Shift("pausing", "resumed")
      /\ UNCHANGED <<edges, applied, todo, replayed, received, outputs>>
  OBVIOUS
<1>2. parked \subseteq Range(outputs)
  BY <1>1, AppliedIsOutput DEF Accounted, TopologyTypeOK
<1>3. instances' \in [Operator -> {"absent", "running", "pausing", "resumed"}]
  BY <1>1 DEF TopologyTypeOK, Shift
<1>4. TopologyTypeOK'
  BY <1>1, <1>3 DEF TopologyTypeOK
<1>5. AppliedOnce' /\ ReplayInOffsetOrder'
  BY <1>1 DEF AppliedOnce, ReplayInOffsetOrder
<1>6. Accounted'
  BY <1>1, <1>2 DEF Accounted
<1> QED BY <1>1, <1>4, <1>5, <1>6

(* The invariant is inductive, whoever takes the manager's steps. *)
LEMMA TopologyStepInv ==
  TopologyInv /\ [TopologyNext]_topologyVars => TopologyInv'
<1>1. SUFFICES ASSUME TopologyInv, [TopologyNext]_topologyVars
               PROVE  TopologyInv'
  OBVIOUS
<1>2. CASE UNCHANGED topologyVars
  <2>1. UNCHANGED <<instances, edges, paused, parked, applied, replaying, todo,
                    replayed, received, outputs>>
    BY <1>2 DEF topologyVars, resumeVars
  <2>2. TopologyTypeOK'
    BY <1>1, <2>1 DEF TopologyInv, TopologyTypeOK
  <2>3. AppliedOnce' /\ ReplayInOffsetOrder'
    BY <1>1, <2>1 DEF TopologyInv, AppliedOnce, ReplayInOffsetOrder
  <2>4. Accounted'
    BY <1>1, <2>1 DEF TopologyInv, Accounted, IsApplied
  <2> QED BY <1>1, <2>1, <2>2, <2>3, <2>4 DEF TopologyInv
<1>3. CASE \/ \E o \in Operator : AddOperator(o)
           \/ \E from, to \in Operator : Connect(from, to)
           \/ Pause
  BY <1>1, <1>3, ControlKeeps
<1>4. CASE \E e \in Event : Process(e)
  BY <1>1, <1>4, ProcessKeeps
<1>5. CASE \E e \in Event : ApplyNow(e)
  BY <1>1, <1>5, ApplyNowKeeps
<1>6. CASE \E e \in Event : ReplayNext(e)
  BY <1>1, <1>6, ReplayNextKeeps
<1>7. CASE ResumeCyclic
  BY <1>1, <1>7, ResumeCyclicKeeps
<1>8. CASE ResumeBegin
  BY <1>1, <1>8, ResumeBeginKeeps
<1>9. CASE ResumeEnd
  BY <1>1, <1>9, ResumeEndKeeps
<1> QED BY <1>1, <1>2, <1>3, <1>4, <1>5, <1>6, <1>7, <1>8, <1>9 DEF TopologyNext
-----------------------------------------------------------------------------
(* The invariant of every behaviour of the manager (topology.go). *)
THEOREM TopologyInvariant == TopologySpec => []TopologyInv
<1>1. TopologyInit => TopologyInv
  BY TopologyStartInv DEF TopologyInit
<1> QED BY <1>1, TopologyStepInv, PTL DEF TopologySpec

(* Every variable of the manager keeps its type (topology.go). *)
THEOREM TopologyTypeCorrect == TopologySpec => []TopologyTypeOK
<1>1. TopologyInv => TopologyTypeOK
  BY DEF TopologyInv
<1> QED BY <1>1, TopologyInvariant, PTL

(* However Process, ApplyNow and resumes follow each other, and however    *)
(* often a record is handed in, apply sees it at most once (applyLocked).  *)
THEOREM AppliedOnceHolds == TopologySpec => []AppliedOnce
<1>1. TopologyInv => AppliedOnce
  BY DEF TopologyInv
<1> QED BY <1>1, TopologyInvariant, PTL

(* No record that a manager without a cycle received is lost (Process,     *)
(* Resume), and a running manager has nothing left to replay.              *)
THEOREM AccountedHolds == TopologySpec => []Accounted
<1>1. TopologyInv => Accounted
  BY DEF TopologyInv
<1> QED BY <1>1, TopologyInvariant, PTL

(* A resume applies the buffered records in the order of their offsets     *)
(* (Resume), even if some were applied by another call before.             *)
THEOREM ReplayInOffsetOrderHolds == TopologySpec => []ReplayInOffsetOrder
<1>1. TopologyInv => ReplayInOffsetOrder
  BY DEF TopologyInv
<1> QED BY <1>1, TopologyInvariant, PTL
=============================================================================
