------------------------------- MODULE Events -------------------------------
(***************************************************************************)
(* The records that flow through the engine (internal/model/event.go) and  *)
(* the goroutines that drive it.  An event is an opaque value; the fields  *)
(* the engine decides on are functions of it.                              *)
(***************************************************************************)
EXTENDS Integers, FiniteSets

CONSTANTS
  Event,    \* the events producers may emit, session pings included
  Ts,       \* Ts[e], Event.Timestamp
  Off,      \* Off[e], Event.Offset
  Val,      \* Val[e], Event.Value
  Thread    \* goroutines that call into the engine

(* Offsets are positions assigned by the source, so no two events share    *)
(* one.                                                                    *)
ASSUME EventAssumption ==
  /\ Ts \in [Event -> Int]
  /\ Off \in [Event -> Int]
  /\ Val \in [Event -> Int]
  /\ \A e, f \in Event : Off[e] = Off[f] => e = f
  /\ IsFiniteSet(Thread)
=============================================================================
