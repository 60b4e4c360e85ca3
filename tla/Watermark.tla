----------------------------- MODULE Watermark -----------------------------
(***************************************************************************)
(* The watermark tracker of one input partition                            *)
(* (internal/watermark/watermark.go).  Advance raises the tentative        *)
(* frontier `current'; Confirm publishes it as `confirmed', the only value *)
(* a window trigger may act on.  Each method holds the tracker's mutex     *)
(* from its first to its last statement, so each is one atomic step.       *)
(***************************************************************************)
EXTENDS Integers

VARIABLES
  current,    \* Tracker.current, the tentative frontier
  confirmed   \* Tracker.confirmed, the published watermark

trackerVars == <<current, confirmed>>

Larger(a, b) == IF a > b THEN a ELSE b

(* NewTracker(epoch) *)
TrackerInit(epoch) ==
  /\ current = epoch
  /\ confirmed = epoch

(* Tracker.Advance: a stale timestamp leaves the frontier where it is. *)
Advance(ts) ==
  /\ current' = Larger(ts, current)
  /\ UNCHANGED confirmed

(* Tracker.Confirm: publishes up to current, never raises current. *)
Confirm ==
  /\ confirmed' = Larger(current, confirmed)
  /\ UNCHANGED current
=============================================================================
