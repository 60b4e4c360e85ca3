------------------------------- MODULE Source -------------------------------
(***************************************************************************)
(* The source: a bounded reorder buffer and the drain-before-confirm       *)
(* handshake (internal/source/source.go, buffer.go).                       *)
(*                                                                         *)
(* Goroutines in Thread call AdvanceTo concurrently, and events arrive     *)
(* through Emit at any moment.  Source.mu is released around the ingest    *)
(* callback and by cond.Wait, so AdvanceTo is split into one action per    *)
(* critical section and per unlocked statement.  A thread's program        *)
(* location is pc[t]:                                                      *)
(*   idle     not inside AdvanceTo                                         *)
(*   ingest   an event is popped, ingest(ev) is about to run, mu released  *)
(*   ack      ingest(ev) returned, mu not yet taken again                  *)
(*   waiting  parked in cond.Wait                                          *)
(*   woken    signalled, mu not yet taken again                            *)
(*   advance  mu released after the wait loop, tracker.Advance is next     *)
(*   confirm  tracker.Confirm is next                                      *)
(*   count, store   the two halves of the unlocked s.drained++             *)
(***************************************************************************)
EXTENDS Watermark, Events

CONSTANTS
  Target,       \* timestamps AdvanceTo is called with
  MaxSize,      \* capacity of the reorder buffer (EngineConfig.BufferSize)
  MaxAdvances,  \* bound on the number of AdvanceTo calls
  NoEvent       \* the empty hand of a thread

ASSUME SourceAssumption ==
  /\ Target \subseteq Int
  /\ MaxSize \in Nat \ {0}
  /\ MaxAdvances \in Nat
  /\ NoEvent \notin Event

VARIABLES
  buffer,       \* Buffer.entries, the heap as the set of its events
  pending,      \* Source.pending
  lastOff,      \* Source.lastOff
  stopped,      \* Source.stopped
  drained,      \* Source.drained
  pc,           \* program location of each thread
  target,       \* the ts argument of each thread's last AdvanceTo
  inflight,     \* the event a thread popped and has not acknowledged
  seen,         \* the value of drained a thread read in s.drained++
  handed,       \* history: events the ingest callback received
  overflowed,   \* history: events evicted with a nil overflow callback
  arrival,      \* history: how e stood to the watermark when accepted
  advances      \* history: number of AdvanceTo calls

threadVars == <<pc, target, inflight, seen>>
historyVars == <<handed, overflowed, arrival, advances>>
sourceVars == <<buffer, pending, lastOff, stopped, drained, threadVars,
                historyVars, trackerVars>>

Location == {"idle", "ingest", "ack", "waiting", "woken", "advance",
             "confirm", "count", "store"}

(* A thread that left its drain loop and has not yet raised the frontier:  *)
(* it will not look at the buffer again before it publishes its target.    *)
PastDrain == {"waiting", "woken", "advance", "confirm"}

SourceInit ==
  /\ TrackerInit(0)
  /\ buffer = {}
  /\ pending = 0
  /\ lastOff = -1
  /\ stopped = FALSE
  /\ drained = 0
  /\ pc = [t \in Thread |-> "idle"]
  /\ target = [t \in Thread |-> 0]
  /\ inflight = [t \in Thread |-> NoEvent]
  /\ seen = [t \in Thread |-> 0]
  /\ handed = {}
  /\ overflowed = {}
  /\ arrival = [e \in Event |-> "none"]
  /\ advances = 0
-----------------------------------------------------------------------------
(***************************************************************************)
(* The reorder buffer.  The heap orders by timestamp only, so any event    *)
(* with the least timestamp may be at its root.                            *)
(***************************************************************************)
Earliest(S) == {e \in S : \A f \in S : Ts[e] <= Ts[f]}

(* Buffer.Add: the pipeline installs no overflow callback, so the event    *)
(* popped by an overfull buffer is gone.                                   *)
Add(e) ==
  LET entries == buffer \cup {e} IN
  \/ /\ Cardinality(entries) > MaxSize
     /\ \E over \in Earliest(entries) :
          /\ buffer' = entries \ {over}
          /\ overflowed' = overflowed \cup {over}
  \/ /\ Cardinality(entries) <= MaxSize
     /\ buffer' = entries
     /\ UNCHANGED overflowed

(* The loop condition of AdvanceTo: Empty() is false and MinTimestamp() is *)
(* not greater than ts.                                                    *)
MutSomethingDue(ts) == \E e \in buffer : Ts[e] < ts

SomethingDue(ts) == \E e \in buffer : Ts[e] <= ts

(* Buffer.PopMin *)
MutPopMin(e) ==
  /\ e \in Earliest(buffer)
  /\ buffer' = buffer

PopMin(e) ==
  /\ e \in Earliest(buffer)
  /\ buffer' = buffer \ {e}
-----------------------------------------------------------------------------
(***************************************************************************)
(* How an event stands to the watermark when it is accepted:               *)
(*   ontime  no published, tentative or committed-to frontier covers it    *)
(*   gap     a thread is past its drain with a target that covers it, but  *)
(*           the confirmed watermark does not cover it yet                 *)
(*   late    the confirmed watermark already covers it                     *)
(***************************************************************************)
OnTime(e) ==
  /\ current < Ts[e]
  /\ \A t \in Thread : pc[t] \in PastDrain => target[t] < Ts[e]

Arrival(e) == IF OnTime(e) THEN "ontime"
              ELSE IF confirmed < Ts[e] THEN "gap" ELSE "late"

(* Source.Emit: ignored once stopped. *)
Emit(e) ==
  /\ ~stopped
  /\ arrival[e] = "none"
  /\ Add(e)
  /\ lastOff' = Off[e]
  /\ arrival' = [arrival EXCEPT ![e] = Arrival(e)]
  /\ UNCHANGED <<pending, stopped, drained, threadVars, handed, advances,
                 trackerVars>>

(* cond.Broadcast *)
MutNoBroadcast == pc

Broadcast == [t \in Thread |-> IF pc[t] = "waiting" THEN "woken" ELSE pc[t]]

(* Source.Stop *)
Stop ==
  /\ ~stopped
  /\ stopped' = TRUE
  /\ pc' = Broadcast
  /\ UNCHANGED <<buffer, pending, lastOff, drained, target, inflight, seen,
                 historyVars, trackerVars>>

(* The condition of the wait loop. *)
MutMustWait(p) == FALSE

MustWait(p) == p > 0

(***************************************************************************)
(* The part of AdvanceTo(ts) that thread t runs from the top of the drain  *)
(* loop until it next gives up Source.mu, entered with s.pending = p and   *)
(* the threads at the locations in locs.                                   *)
(***************************************************************************)
MutDrainLoop(t, ts, p, locs) ==
  \/ /\ SomethingDue(ts)
     /\ \E e \in Event : /\ PopMin(e)
                         /\ inflight' = [inflight EXCEPT ![t] = e]
     /\ pending' = p
     /\ pc' = [locs EXCEPT ![t] = "ingest"]
  \/ /\ ~SomethingDue(ts)
     /\ inflight' = [inflight EXCEPT ![t] = NoEvent]
     /\ pending' = p
     /\ pc' = [locs EXCEPT ![t] = IF MustWait(p) THEN "waiting" ELSE "advance"]
     /\ UNCHANGED buffer

DrainLoop(t, ts, p, locs) ==
  \/ /\ SomethingDue(ts)
     /\ \E e \in Event : /\ PopMin(e)
                         /\ inflight' = [inflight EXCEPT ![t] = e]
     /\ pending' = p + 1
     /\ pc' = [locs EXCEPT ![t] = "ingest"]
  \/ /\ ~SomethingDue(ts)
     /\ inflight' = [inflight EXCEPT ![t] = NoEvent]
     /\ pending' = p
     /\ pc' = [locs EXCEPT ![t] = IF MustWait(p) THEN "waiting" ELSE "advance"]
     /\ UNCHANGED buffer

(* AdvanceTo is called and takes Source.mu. *)
AdvanceTo(t, ts) ==
  /\ pc[t] = "idle"
  /\ advances < MaxAdvances
  /\ advances' = advances + 1
  /\ target' = [target EXCEPT ![t] = ts]
  /\ DrainLoop(t, ts, pending, pc)
  /\ UNCHANGED <<lastOff, stopped, drained, seen, handed, overflowed, arrival,
                 trackerVars>>

(* s.ingest(ev), run without the lock. *)
Ingest(t) ==
  /\ pc[t] = "ingest"
  /\ handed' = handed \cup {inflight[t]}
  /\ pc' = [pc EXCEPT ![t] = "ack"]
  /\ UNCHANGED <<buffer, pending, lastOff, stopped, drained, target, inflight,
                 seen, overflowed, arrival, advances, trackerVars>>

(* Takes the lock, acknowledges, broadcasts and goes on with the loop. *)
Ack(t) ==
  /\ pc[t] = "ack"
  /\ DrainLoop(t, target[t], pending - 1, Broadcast)
  /\ UNCHANGED <<lastOff, stopped, drained, target, seen, historyVars,
                 trackerVars>>

(* cond.Wait returns with the lock; only pending is examined again. *)
Wake(t) ==
  /\ pc[t] = "woken"
  /\ pc' = [pc EXCEPT ![t] = IF MustWait(pending) THEN "waiting" ELSE "advance"]
  /\ UNCHANGED <<buffer, pending, lastOff, stopped, drained, target, inflight,
                 seen, historyVars, trackerVars>>

(* s.tracker.Advance(ts) *)
AdvanceTracker(t) ==
  /\ pc[t] = "advance"
  /\ Advance(target[t])
  /\ pc' = [pc EXCEPT ![t] = "confirm"]
  /\ UNCHANGED <<buffer, pending, lastOff, stopped, drained, target, inflight,
                 seen, historyVars>>

(* s.tracker.Confirm() *)
ConfirmTracker(t) ==
  /\ pc[t] = "confirm"
  /\ Confirm
  /\ pc' = [pc EXCEPT ![t] = "count"]
  /\ UNCHANGED <<buffer, pending, lastOff, stopped, drained, target, inflight,
                 seen, historyVars>>

(* s.drained++ runs after the unlock: a load ... *)
CountLoad(t) ==
  /\ pc[t] = "count"
  /\ seen' = [seen EXCEPT ![t] = drained]
  /\ pc' = [pc EXCEPT ![t] = "store"]
  /\ UNCHANGED <<buffer, pending, lastOff, stopped, drained, target, inflight,
                 historyVars, trackerVars>>

(* ... and a store, with which AdvanceTo returns. *)
CountStore(t) ==
  /\ pc[t] = "store"
  /\ drained' = seen[t] + 1
  /\ pc' = [pc EXCEPT ![t] = "idle"]
  /\ UNCHANGED <<buffer, pending, lastOff, stopped, target, inflight, seen,
                 historyVars, trackerVars>>

(* The steps of a call that is under way. *)
Step(t) ==
  \/ Ingest(t)
  \/ Ack(t)
  \/ Wake(t)
  \/ AdvanceTracker(t)
  \/ ConfirmTracker(t)
  \/ CountLoad(t)
  \/ CountStore(t)

SourceNext ==
  \/ \E e \in Event : Emit(e)
  \/ Stop
  \/ \E t \in Thread, ts \in Target : AdvanceTo(t, ts)
  \/ \E t \in Thread : Step(t)

SourceSpec == SourceInit /\ [][SourceNext]_sourceVars

(* Go runs every runnable goroutine, sync.Mutex does not starve a waiter,  *)
(* and the ingest callback returns.  Nobody is obliged to emit, to call    *)
(* AdvanceTo or to stop.                                                   *)
FairSourceSpec ==
  SourceSpec /\ \A t \in Thread : WF_sourceVars(Step(t))
-----------------------------------------------------------------------------
SourceTypeOK ==
  /\ current \in Int
  /\ confirmed \in Int
  /\ buffer \subseteq Event
  /\ pending \in Nat
  /\ lastOff \in Int
  /\ stopped \in BOOLEAN
  /\ drained \in Nat
  /\ pc \in [Thread -> Location]
  /\ target \in [Thread -> Int]
  /\ inflight \in [Thread -> Event \cup {NoEvent}]
  /\ seen \in [Thread -> Nat]
  /\ handed \subseteq Event
  /\ overflowed \subseteq Event
  /\ arrival \in [Event -> {"none", "ontime", "gap", "late"}]
  /\ advances \in Nat

(* The threads between pop and acknowledgement. *)
Busy == {t \in Thread : pc[t] \in {"ingest", "ack"}}

(* An event popped by a thread and not yet received by the callback. *)
InTransit(e) == \E t \in Thread : pc[t] = "ingest" /\ inflight[t] = e

(***************************************************************************)
(* Drain before confirm (source.go, AdvanceTo): once the confirmed         *)
(* watermark covers an event that arrived on time, the pipeline has        *)
(* received that event -- it is neither in the buffer nor in the hands of  *)
(* another goroutine -- unless the full buffer evicted it.                 *)
(***************************************************************************)
DrainedBeforeConfirm ==
  \A e \in Event :
    arrival[e] = "ontime" /\ Ts[e] <= confirmed => e \in handed \cup overflowed

(***************************************************************************)
(* Custody (source.go, Emit and AdvanceTo; buffer.go): however calls       *)
(* interleave, an accepted event is at exactly one place -- the buffer,    *)
(* the hands of one thread, the pipeline, or evicted -- so the source      *)
(* neither loses an event nor hands it over twice.                         *)
(***************************************************************************)
Custody ==
  /\ \A e \in Event :
       arrival[e] # "none" <=>
         e \in buffer \/ e \in handed \/ e \in overflowed \/ InTransit(e)
  /\ buffer \cap (handed \cup overflowed) = {}
  /\ handed \cap overflowed = {}
  /\ \A t \in Thread : pc[t] = "ingest" =>
       /\ inflight[t] \notin buffer \cup handed \cup overflowed
       /\ \A u \in Thread : pc[u] = "ingest" /\ inflight[u] = inflight[t]
                              => u = t

(***************************************************************************)
(* Every AdvanceTo returns: no goroutine stays parked in cond.Wait after   *)
(* the last acknowledgement (source.go, the wait loop and its Broadcast).  *)
(***************************************************************************)
AdvanceReturns ==
  \A t \in Thread : pc[t] # "idle" ~> pc[t] = "idle"
=============================================================================
