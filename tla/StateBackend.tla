---------------------------- MODULE StateBackend ----------------------------
(***************************************************************************)
(* The keyed state backend (internal/state/state.go): committed values, a  *)
(* journal of the increments since the last snapshot, and a mutation       *)
(* sequence.  Every method holds Store.mu throughout.                      *)
(***************************************************************************)
EXTENDS Integers

CONSTANT Key

VARIABLES
  data,       \* Store.data
  journal,    \* Store.pending
  seq,        \* Store.seq
  captures    \* history: number of Snapshot calls

storeVars == <<data, journal, seq, captures>>

(* An empty map: a missing key counts as zero. *)
Zero == [k \in Key |-> 0]

StoreInit ==
  /\ data = Zero
  /\ journal = Zero
  /\ seq = 0
  /\ captures = 0

Plus(f, g) == [k \in Key |-> f[k] + g[k]]

(* Store.ApplyRound; Store.Apply is the round of a single key. *)
MutApplyRound(deltas) ==
  /\ data' = Plus(data, deltas)
  /\ seq' = seq + 1
  /\ UNCHANGED <<journal, captures>>

ApplyRound(deltas) ==
  /\ data' = Plus(data, deltas)
  /\ journal' = Plus(journal, deltas)
  /\ seq' = seq + 1
  /\ UNCHANGED captures

(* Store.Record: the latest value is not part of a snapshot. *)
Record ==
  /\ seq' = seq + 1
  /\ UNCHANGED <<data, journal, captures>>

(* What Store.Snapshot returns, with its number as history.  The journal   *)
(* it hands out as Pending is never read: RestoreSnapshot replays the      *)
(* store's own.                                                            *)
Capture == [data |-> data, seq |-> seq, id |-> captures + 1]

(* Store.Snapshot: hands the journal out and starts a new one. *)
Snapshot ==
  /\ journal' = Zero
  /\ captures' = captures + 1
  /\ UNCHANGED <<data, seq>>

(* Store.RestoreSnapshot *)
RestoreSnapshot(snap) ==
  /\ data' = Plus(snap.data, journal)
  /\ journal' = Zero
  /\ seq' = snap.seq + 1
  /\ UNCHANGED captures
=============================================================================
