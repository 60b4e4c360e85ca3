---------------------------- MODULE WindowLayer -----------------------------
(***************************************************************************)
(* The window layer on its own, as its tests drive it: the tracker is      *)
(* advanced and confirmed by somebody, events arrive in any order, and any *)
(* goroutine may call MaybeTrigger.  Windows and results change under      *)
(* Manager.mu, and the catalog follows call by call before the next change *)
(* under that lock; whoever reads results and catalog sees them in between.*)
(***************************************************************************)
EXTENDS Windows, Catalog

CONSTANT Frontier       \* timestamps the tracker is advanced to

ASSUME FrontierAssumption == Frontier \subseteq Int

layerVars == <<trackerVars, windowVars, catalogVars>>

LayerInit ==
  /\ TrackerInit(0)
  /\ WindowInit
  /\ CatalogInit(Window)

AdvanceFrontier(ts) == Advance(ts) /\ UNCHANGED <<windowVars, catalogVars>>

ConfirmFrontier == Confirm /\ UNCHANGED <<windowVars, catalogVars>>

(* The first catalog call of Ingest, for a window in the given state. *)
IngestCall(state) ==
  CASE state = "absent" -> "open"
    [] state = "open" -> "event"
    [] state = "closed" -> "late"

(* Manager.Ingest; the topology passes an event on at most once. *)
Arrive(e) ==
  LET w == WindowFor(Ts[e]) IN
  /\ e \notin accepted \cup late
  /\ call = NoCall
  /\ IngestWindow(e)
  /\ call' = [op |-> IngestCall(wstate[w]), window |-> w, at |-> Ts[e]]
  /\ UNCHANGED <<trackerVars, catalog>>

(* A goroutine enters MaybeTrigger ... *)
BeginTrigger(t) ==
  /\ wpc[t] = "idle"
  /\ ReadConfirmed(t)
  /\ UNCHANGED <<trackerVars, catalogVars>>

(* ... and, under Manager.mu, publishes a window, which the catalog hears  *)
(* of next, or finds none and returns.                                     *)
Trigger(t) ==
  /\ call = NoCall
  /\ \/ \E w \in Window :
          /\ CloseWindow(t, w)
          /\ call' = [op |-> "close", window |-> w, at |-> observed[t]]
     \/ EndTrigger(t) /\ UNCHANGED call
  /\ UNCHANGED <<trackerVars, catalog>>

UpdateCatalog == CatalogCall /\ UNCHANGED <<trackerVars, windowVars>>

LayerNext ==
  \/ \E ts \in Frontier : AdvanceFrontier(ts)
  \/ ConfirmFrontier
  \/ \E e \in Event : Arrive(e)
  \/ \E t \in Thread : BeginTrigger(t) \/ Trigger(t)
  \/ UpdateCatalog

LayerSpec == LayerInit /\ [][LayerNext]_layerVars
-----------------------------------------------------------------------------
(***************************************************************************)
(* A published result is immutable (agg.go, Store): no later step changes  *)
(* what downstream consumers already saw, whichever goroutine triggers     *)
(* again and whatever arrives late.                                        *)
(***************************************************************************)
PublishedImmutable == [][KeepsPublished]_layerVars

(***************************************************************************)
(* The monitoring catalog agrees with the published results, two stores    *)
(* read under different locks (catalog.go, agg.go).  At every moment, a    *)
(* window shown as closed is published, with the same count and behind the *)
(* confirmed watermark, and no late event is shown that its result lacks;  *)
(* and once the catalog has heard of the last change of a window, it shows *)
(* the window's state and all of its late events.                          *)
(***************************************************************************)
CatalogAgrees ==
  \A w \in Window :
    LET row == catalog[w]
        r == results[w] IN
    /\ row.state = "closed" => /\ r.emitted
                               /\ row.events = r.count
                               /\ End(w) <= row.closedAt
                               /\ row.closedAt <= confirmed
    /\ row.late <= r.lateCount
    /\ call.op = "none" \/ call.window # w =>
         /\ row.state = wstate[w]
         /\ row.late = r.lateCount
=============================================================================
