------------------------------ MODULE Sessions ------------------------------
(***************************************************************************)
(* Keyed session windows (internal/window/session.go) over the aggregation *)
(* store that publishes each window once (internal/agg/agg.go).            *)
(*                                                                         *)
(* SessionManager.mu makes Touch and ScanTimeout one step each.  A scan is *)
(* given a confirmed watermark that its goroutine read earlier, so scans   *)
(* come with instants in any order, mixed with touches in any order.       *)
(* A value stands for the event it came from.                              *)
(***************************************************************************)
EXTENDS Keys, Integers, FiniteSets

CONSTANTS
  Event,       \* data events and pings
  Ping,        \* the pings among them: they keep a session alive, no more
  Ts,          \* Ts[e], Event.Timestamp
  KeyOf,       \* KeyOf[e], Event.Key
  Timeout,     \* EngineConfig.SessionTimeout
  Instant,     \* confirmed watermarks a scan is called with
  NoSession    \* the key has no entry in the map

(* What Touch keeps of an open session: sessionState. *)
SessionState == [start : Int, lastActive : Int, values : SUBSET Event]

ASSUME SessionAssumption ==
  /\ Ping \subseteq Event
  /\ Ts \in [Event -> Int]
  /\ KeyOf \in [Event -> Key]
  /\ Timeout \in Nat
  /\ Instant \subseteq Int
  /\ NoSession \notin SessionState

VARIABLES
  sessions,    \* SessionManager.sessions
  published,   \* session results in agg.Store, all of them emitted
  touched,     \* history: events that touched a session
  swallowed,   \* history: values given to a result already emitted
  scanned,     \* history: greatest instant of a scan
  tardy        \* history: keys with a touch behind a scan or another touch

sessionVars == <<sessions, published, touched, swallowed, scanned, tardy>>

Later(a, b) == IF a > b THEN a ELSE b
Sooner(a, b) == IF a < b THEN a ELSE b

SessionInit ==
  /\ sessions = [k \in Key |-> NoSession]
  /\ published = {}
  /\ touched = {}
  /\ swallowed = {}
  /\ scanned = 0
  /\ tardy = {}

(* sessionState.window.End: every touch sets it with lastActive. *)
EndOf(s) == s.lastActive + Timeout
-----------------------------------------------------------------------------
(* Touch of an open session. *)
Refresh(s, e) ==
  [s EXCEPT !.start = Sooner(@, Ts[e]), !.lastActive = Ts[e],
            !.values = @ \cup ({e} \ Ping)]

(* SessionManager.Touch; the topology passes an event on once. *)
Touch(e) ==
  LET k == KeyOf[e]
      fresh == [start |-> Ts[e], lastActive |-> Ts[e], values |-> {e} \ Ping] IN
  /\ e \notin touched
  /\ sessions' = [sessions EXCEPT ![k] =
                    IF @ = NoSession THEN fresh ELSE Refresh(@, e)]
  /\ touched' = touched \cup {e}
  /\ tardy' = IF \/ Ts[e] <= scanned
                 \/ \E f \in touched : KeyOf[f] = k /\ Ts[f] > Ts[e]
              THEN tardy \cup {k} ELSE tardy
  /\ UNCHANGED <<published, swallowed, scanned>>

(* The sessions a scan closes: idle for longer than the timeout. *)
MutExpired(now) ==
  {k \in Key : sessions[k] # NoSession /\ now - sessions[k].start > Timeout}

Expired(now) ==
  {k \in Key : sessions[k] # NoSession /\ now - sessions[k].lastActive > Timeout}

(* The result EmitResult publishes for the session of k. *)
ResultOf(k) == [key |-> k, start |-> sessions[k].start,
                end |-> EndOf(sessions[k]), values |-> sessions[k].values]

(* EmitResult finds a result with this window already emitted. *)
MutEmitted(k) == FALSE

Emitted(k) ==
  \E r \in published : r.key = k /\ r.start = sessions[k].start
                                 /\ r.end = EndOf(sessions[k])

(* Closed sessions leave the map. *)
MutDropped(S) == sessions

Dropped(S) == [k \in Key |-> IF k \in S THEN NoSession ELSE sessions[k]]

(* SessionManager.ScanTimeout *)
ScanTimeout(now) ==
  LET due == Expired(now) IN
  /\ published' = published \cup {ResultOf(k) : k \in {j \in due : ~Emitted(j)}}
  /\ swallowed' = swallowed \cup
                    UNION {sessions[k].values : k \in {j \in due : Emitted(j)}}
  /\ sessions' = Dropped(due)
  /\ scanned' = Later(scanned, now)
  /\ UNCHANGED <<touched, tardy>>

SessionNext ==
  \/ \E e \in Event : Touch(e)
  \/ \E now \in Instant : ScanTimeout(now)

SessionSpec == SessionInit /\ [][SessionNext]_sessionVars
-----------------------------------------------------------------------------
(* The places that hold event e. *)
Holders(e) ==
  {r \in published : e \in r.values}
    \cup {sessions[k] : k \in {j \in Key : sessions[j] # NoSession
                                           /\ e \in sessions[j].values}}

(***************************************************************************)
(* Custody (session.go, Touch and ScanTimeout): every data event that      *)
(* touched a session is in exactly one place, an open session or one       *)
(* published result, or it was swallowed by a window that was already      *)
(* emitted; pings are in none.                                             *)
(***************************************************************************)
SessionCustody ==
  \A e \in Event :
    Cardinality(Holders(e)) =
      IF e \in touched \ (Ping \cup swallowed) THEN 1 ELSE 0

(***************************************************************************)
(* A window is published once (agg.go, EmitResult): no two results have    *)
(* the same key, start and end, even when a closed session is opened again *)
(* under the same identity.                                                *)
(***************************************************************************)
PublishedOnce ==
  \A r, q \in published :
    r.key = q.key /\ r.start = q.start /\ r.end = q.end => r = q

(***************************************************************************)
(* A scan never splits a live session (session.go, the comment on          *)
(* sessionState and ScanTimeout): for a key touched in time order and      *)
(* ahead of every scan, two touches no farther apart than the timeout are  *)
(* in one session, published sessions do not overlap each other or the     *)
(* open one, each covers its events, and nothing is swallowed.             *)
(***************************************************************************)
OrderlySessions ==
  \A k \in Key \ tardy :
    LET mine == {r \in published : r.key = k}
        values == {e \in touched \ Ping : KeyOf[e] = k} IN
    /\ \A e, f \in values : Ts[e] <= Ts[f] /\ Ts[f] - Ts[e] <= Timeout =>
         \A r \in mine : e \in r.values <=> f \in r.values
    /\ \A r, q \in mine : r = q \/ r.end < q.start \/ q.end < r.start
    /\ \A r \in mine : /\ \A e \in r.values : r.start <= Ts[e] /\ Ts[e] <= r.end
                       /\ sessions[k] # NoSession => r.end < sessions[k].start
    /\ values \cap swallowed = {}
=============================================================================
