----------------------------- MODULE EventTime ------------------------------
(***************************************************************************)
(* What the source, the watermark and the windows promise together: a      *)
(* window is published once, when the watermark has passed its end, and    *)
(* then holds every event of it that reached the engine ahead of the       *)
(* watermark.  Only an event that was already tardy when it arrived, or    *)
(* that was delayed by a suspension of the engine, can turn out late.      *)
(* Buffers, locks and goroutines do not appear.                            *)
(***************************************************************************)
EXTENDS Integers

CONSTANTS
  Event,       \* the data events
  Time,        \* Time[e], event time of e
  WindowOf,    \* WindowOf[e], the window of e
  EndOf        \* EndOf[w], first instant after window w

VARIABLES
  watermark,   \* the published watermark
  fate,        \* what became of each event
  fired,       \* windows whose result is published
  suspended    \* the engine holds events back

absVars == <<watermark, fate, fired, suspended>>

AbsInit ==
  /\ watermark = 0
  /\ fate = [e \in Event |-> "none"]
  /\ fired = {}
  /\ suspended = FALSE

InEngine(e) == fate[e] \in {"waiting", "tardy"}

(* An event arrives; the engine, short of space, may give up one event.    *)
(* Nothing the watermark has passed may be taken for waiting.              *)
Arrive(e) ==
  /\ fate[e] = "none"
  /\ \E how \in {"waiting", "tardy"} :
       /\ how = "waiting" => watermark < Time[e]
       /\ LET next == [fate EXCEPT ![e] = how] IN
          \/ fate' = next
          \/ \E f \in Event : /\ next[f] \in {"waiting", "tardy"}
                              /\ fate' = [next EXCEPT ![f] = "lost"]
  /\ UNCHANGED <<watermark, fired, suspended>>

(* Short of space for something that is no event of a window, it may give  *)
(* one up, too.                                                            *)
Lose(e) ==
  /\ InEngine(e)
  /\ fate' = [fate EXCEPT ![e] = "lost"]
  /\ UNCHANGED <<watermark, fired, suspended>>

(* An event reaches its window; during a suspension even one given up may, *)
(* by another path.                                                        *)
Settle(e) ==
  /\ InEngine(e) \/ (suspended /\ fate[e] = "lost")
  /\ \/ /\ WindowOf[e] \notin fired
        /\ fate' = [fate EXCEPT ![e] = "accepted"]
     \/ /\ WindowOf[e] \in fired
        /\ fate[e] # "waiting"
        /\ fate' = [fate EXCEPT ![e] = "late"]
  /\ UNCHANGED <<watermark, fired, suspended>>

(* A suspended engine may hold an event back; the watermark does not wait  *)
(* for it any more.                                                        *)
Delay(e) ==
  /\ suspended
  /\ fate[e] = "waiting"
  /\ fate' = [fate EXCEPT ![e] = "tardy"]
  /\ UNCHANGED <<watermark, fired, suspended>>

(* The engine is suspended, or goes on. *)
Suspend ==
  /\ suspended' = ~suspended
  /\ UNCHANGED <<watermark, fate, fired>>

(* The watermark moves forward, past no event that still waits. *)
Raise ==
  /\ watermark' \in Int
  /\ watermark' > watermark
  /\ \A e \in Event : fate[e] = "waiting" => watermark' < Time[e]
  /\ UNCHANGED <<fate, fired, suspended>>

(* Windows that ended are published. *)
Fire(W) ==
  /\ W # {}
  /\ W \cap fired = {}
  /\ \A w \in W : EndOf[w] <= watermark
  /\ fired' = fired \cup W
  /\ UNCHANGED <<watermark, fate, suspended>>

AbsNext ==
  \/ \E e \in Event : Arrive(e) \/ Lose(e) \/ Settle(e) \/ Delay(e)
  \/ Suspend
  \/ Raise
  \/ \E W \in SUBSET {WindowOf[e] : e \in Event} : Fire(W)

AbsSpec == AbsInit /\ [][AbsNext]_absVars
=============================================================================
