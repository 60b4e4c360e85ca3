------------------------------- MODULE Keyed --------------------------------
(***************************************************************************)
(* The keyed side of the pipeline: Pipeline.Process of                     *)
(* internal/topology/pipeline.go over the router with its partitioned      *)
(* store and over the session windows.  Manager.mu lets one Process run at *)
(* a time, but each component it calls has a lock of its own, so a Resize  *)
(* or a timeout scan of another goroutine may come between two calls.      *)
(* A panic in Add ends the program.                                        *)
(***************************************************************************)
EXTENDS Router, Sessions

CONSTANT NoEvent        \* Process is not running

ASSUME KeyedAssumption == NoEvent \notin Event

VARIABLE work           \* the event whose Touch is still to come

keyedVars == <<routerVars, sessionVars, work>>

KeyedInit == RouterInit /\ SessionInit /\ work = NoEvent

(* Process of a ping: it only touches its session. *)
ProcessPing(e) ==
  /\ ~crashed
  /\ work = NoEvent
  /\ e \in Ping
  /\ Touch(e)
  /\ UNCHANGED <<routerVars, work>>

(* Process of a data event asks for the key's partition, ... *)
ProcessData(e) ==
  /\ work = NoEvent
  /\ e \notin Ping \cup touched
  /\ Route(KeyOf[e])
  /\ work' = e
  /\ UNCHANGED sessionVars

(* ... adds to that partition ... *)
AddToPartition == Add /\ UNCHANGED <<sessionVars, work>>

(* ... and touches the session. *)
TouchSession ==
  /\ ~crashed
  /\ work # NoEvent
  /\ routed = NoRoute
  /\ Touch(work)
  /\ work' = NoEvent
  /\ UNCHANGED routerVars

(* Router.Resize and the scan of TriggerOnWatermark, at any moment. *)
ResizePartitions(n) == Resize(n) /\ UNCHANGED <<sessionVars, work>>

ScanSessions(now) ==
  /\ ~crashed
  /\ ScanTimeout(now)
  /\ UNCHANGED <<routerVars, work>>

KeyedNext ==
  \/ \E e \in Event : ProcessPing(e) \/ ProcessData(e)
  \/ AddToPartition
  \/ TouchSession
  \/ \E n \in Counts : ResizePartitions(n)
  \/ \E now \in Instant : ScanSessions(now)

KeyedSpec == KeyedInit /\ [][KeyedNext]_keyedVars
=============================================================================
