------------------------------ MODULE Windows -------------------------------
(***************************************************************************)
(* Tumbling windows: internal/window/window.go and the aggregation store   *)
(* that holds the published results.                                       *)
(*                                                                         *)
(* A window is named by its start.  Manager.mu makes Ingest one step.      *)
(* MaybeTrigger reads the confirmed watermark before it takes Manager.mu:  *)
(* what it acts on may be stale.  Its loop holds Manager.mu, but publishes *)
(* the windows one after the other to a store others read without that     *)
(* lock, so every window is a step of its own.  The states triggering and  *)
(* closing exist only inside such a step; no reader can observe them.      *)
(***************************************************************************)
EXTENDS Watermark, Events, Results

CONSTANT WindowSize     \* EngineConfig.WindowSizeMS

ASSUME WindowAssumption == WindowSize \in Nat \ {0}

VARIABLES
  wstate,     \* managedWindow.state, "absent" when the map has no entry
  values,     \* managedWindow.values
  results,    \* agg.Store.results; a missing entry is the zero result
  wpc,        \* where a goroutine is inside MaybeTrigger
  observed,   \* the confirmed watermark a goroutine read in MaybeTrigger
  accepted,   \* history: events Ingest reported as accepted
  late        \* history: events Ingest reported as late

windowVars == <<wstate, values, results, wpc, observed, accepted, late>>

(* Manager.WindowFor; Go's integer division truncates toward zero. *)
WindowFor(ts) ==
  (IF ts >= 0 THEN ts \div WindowSize ELSE -((-ts) \div WindowSize))
    * WindowSize

End(w) == w + WindowSize

Window == {WindowFor(Ts[e]) : e \in Event}

Members(w, S) == {e \in S : WindowFor(Ts[e]) = w}
-----------------------------------------------------------------------------
(* WindowState.CanClose *)
CanClose(state) == state \in {"open", "triggering"}
-----------------------------------------------------------------------------
WindowInit ==
  /\ wstate = [w \in Window |-> "absent"]
  /\ values = [w \in Window |-> <<>>]
  /\ results = [w \in Window |-> NewResult]
  /\ wpc = [t \in Thread |-> "idle"]
  /\ observed = [t \in Thread |-> 0]
  /\ accepted = {}
  /\ late = {}

(* Nobody is inside the loop of MaybeTrigger, which holds Manager.mu. *)
MuFree == \A t \in Thread : wpc[t] # "closing"

(* Manager.Ingest: the event's window is created open on demand; a closed  *)
(* window takes the value as a late update.                                *)
IngestWindow(e) ==
  LET w == WindowFor(Ts[e]) IN
  /\ MuFree
  /\ \/ /\ wstate[w] = "closed"
        /\ results' = [results EXCEPT ![w] = LateUpdate(@, Val[e])]
        /\ late' = late \cup {e}
        /\ UNCHANGED <<wstate, values, accepted, wpc, observed>>
     \/ /\ wstate[w] # "closed"
        /\ wstate' = [wstate EXCEPT ![w] = "open"]
        /\ values' = [values EXCEPT ![w] = Append(@, Val[e])]
        /\ accepted' = accepted \cup {e}
        /\ UNCHANGED <<results, late, wpc, observed>>

(* MaybeTrigger, confirmed := tracker.Confirmed() *)
MutReadConfirmed(t) ==
  /\ observed' = [observed EXCEPT ![t] = current]
  /\ wpc' = [wpc EXCEPT ![t] = "trigger"]
  /\ UNCHANGED <<wstate, values, results, accepted, late>>

ReadConfirmed(t) ==
  /\ observed' = [observed EXCEPT ![t] = confirmed]
  /\ wpc' = [wpc EXCEPT ![t] = "trigger"]
  /\ UNCHANGED <<wstate, values, results, accepted, late>>

(* Goroutine t has Manager.mu in MaybeTrigger, or takes it. *)
InLoop(t) == wpc[t] = "closing" \/ (wpc[t] = "trigger" /\ MuFree)

(* The loop of goroutine t does not pass over window w. *)
DueFor(t, w) == End(w) <= observed[t] /\ CanClose(wstate[w])

(* MaybeTrigger, the body of the loop: a window is published and closed. *)
MutCloseWindow(t, w) ==
  /\ InLoop(t)
  /\ DueFor(t, w)
  /\ wstate' = [wstate EXCEPT ![w] = "closing"]
  /\ results' = [results EXCEPT ![w] = EmitResult(@, values[w])]
  /\ wpc' = [wpc EXCEPT ![t] = "closing"]
  /\ UNCHANGED <<values, observed, accepted, late>>

CloseWindow(t, w) ==
  /\ InLoop(t)
  /\ DueFor(t, w)
  /\ wstate' = [wstate EXCEPT ![w] = "closed"]
  /\ results' = [results EXCEPT ![w] = EmitResult(@, values[w])]
  /\ wpc' = [wpc EXCEPT ![t] = "closing"]
  /\ UNCHANGED <<values, observed, accepted, late>>

(* MaybeTrigger, the end of the loop: Manager.mu is released. *)
EndTrigger(t) ==
  /\ InLoop(t)
  /\ \A w \in Window : ~DueFor(t, w)
  /\ wpc' = [wpc EXCEPT ![t] = "idle"]
  /\ UNCHANGED <<wstate, values, results, observed, accepted, late>>
-----------------------------------------------------------------------------
ResultType == [count : Nat, sum : Int, min : Int, max : Int,
               emitted : BOOLEAN, lateCount : Nat, lateSum : Int]

WindowTypeOK ==
  /\ current \in Int
  /\ confirmed \in Int
  /\ wstate \in [Window -> {"absent", "open", "closed"}]
  /\ values \in [Window -> Seq(Int)]
  /\ results \in [Window -> ResultType]
  /\ wpc \in [Thread -> {"idle", "notify", "trigger", "closing"}]
  /\ observed \in [Thread -> Int]
  /\ accepted \subseteq Event
  /\ late \subseteq Event

(***************************************************************************)
(* No early close (window.go, MaybeTrigger): a window is closed only if    *)
(* the confirmed watermark has reached its end, even though the trigger    *)
(* acts on a value read before it took the lock and another goroutine may  *)
(* be between Advance and Confirm.                                         *)
(***************************************************************************)
NoEarlyClose ==
  \A w \in Window : wstate[w] = "closed" => End(w) <= confirmed

(***************************************************************************)
(* The published result of a closed window is the aggregate of exactly the *)
(* events Ingest reported as accepted, and its late fields are that of     *)
(* exactly the events reported as late (agg.go, EmitResult and LateUpdate; *)
(* result.go, Apply and ApplyLate).  Nothing is said of Max when every     *)
(* accepted value is negative: Apply then leaves it 0.                     *)
(***************************************************************************)
ResultMatchesOutcome ==
  \A w \in Window :
    LET in == Members(w, accepted)
        out == Members(w, late)
        r == results[w] IN
    /\ r.lateCount = Cardinality(out)
    /\ r.lateSum = SumFunctionOnSet(Val, out)
    /\ wstate[w] = "closed" =>
         /\ r.emitted
         /\ r.count = Cardinality(in)
         /\ r.sum = SumFunctionOnSet(Val, in)
         /\ r.min = Min({Val[e] : e \in in})
         /\ (\E e \in in : Val[e] >= 0) => r.max = Max({Val[e] : e \in in})

(***************************************************************************)
(* Combining is folding (combiner.go, Combine): if the values of a window  *)
(* are split over two partial results, in any order of arrival and at any  *)
(* point that leaves the second one a value, merging the two gives the     *)
(* result of the undivided window.                                         *)
(***************************************************************************)
CombineIsFold ==
  \A w \in Window : \A i \in 0..(Len(values[w]) - 1) :
    LET Part(from, to) == EmitResult(NewResult, SubSeq(values[w], from, to)) IN
    Merge(Part(1, i), Part(i + 1, Len(values[w]))) = Part(1, Len(values[w]))

(* A step that leaves every published aggregate as downstream saw it. *)
KeepsPublished ==
  \A w \in Window : results[w].emitted =>
    /\ results'[w].emitted
    /\ results'[w].count = results[w].count
    /\ results'[w].sum = results[w].sum
    /\ results'[w].min = results[w].min
    /\ results'[w].max = results[w].max
=============================================================================
