------------------------------- MODULE Router -------------------------------
(***************************************************************************)
(* The key router (internal/topology/repartition.go) over the partitioned  *)
(* store (internal/agg/agg.go), as Pipeline.Process uses them: it asks for *)
(* a key's partition and then adds to that partition, under two different  *)
(* locks.  Manager.mu lets one Process run at a time, so there is one      *)
(* routed key; a Resize by another goroutine may come in between.          *)
(*                                                                         *)
(* The hash is a constant function and every added value is one, so a      *)
(* partition holds a key exactly when its value is positive.               *)
(***************************************************************************)
EXTENDS Keys, Integers, FiniteSetsExt, Functions

CONSTANTS
  Counts,     \* partition counts in use
  Home,       \* Home[k][n], the partition of k among n: xxhash modulo n
  Unrouted,   \* no partition
  MaxAdds     \* bound on the values added per key

ASSUME RouterAssumption ==
  /\ Counts \subseteq Nat \ {0}
  /\ \A k \in Key, n \in Counts : Home[k][n] \in 0..(n - 1)
  /\ Unrouted \notin Nat
  /\ MaxAdds \in Nat

VARIABLES
  partitions,   \* Router.partitions
  cache,        \* Router.cache
  parts,        \* PartitionedStore.parts
  routed,       \* the key Process holds a partition for, and that partition
  crashed,      \* Add indexed a partition that is gone: a run-time panic
  added,        \* history: values added per key
  strays        \* history: keys added by a route older than the last resize

routerVars == <<partitions, cache, parts, routed, crashed, added, strays>>

NoRoute == [key |-> Unrouted, part |-> Unrouted, fresh |-> FALSE]

(* NewPartitionedStore *)
EmptyParts(n) == [p \in 0..(n - 1) |-> [k \in Key |-> 0]]

(* NewRouter *)
RouterInit ==
  /\ partitions \in Counts
  /\ cache = [k \in Key |-> Unrouted]
  /\ parts = EmptyParts(partitions)
  /\ routed = NoRoute
  /\ crashed = FALSE
  /\ added = [k \in Key |-> 0]
  /\ strays = {}
-----------------------------------------------------------------------------
(* Router.PartitionForKey *)
MutPartitionForKey(k, n) == Home[k][Max(Counts)]

PartitionForKey(k, n) == Home[k][n]

(* Router.Route, called by Process. *)
Route(k) ==
  LET part == IF cache[k] # Unrouted THEN cache[k]
                                     ELSE PartitionForKey(k, partitions) IN
  /\ ~crashed
  /\ routed = NoRoute
  /\ added[k] < MaxAdds
  /\ cache' = [cache EXCEPT ![k] = part]
  /\ routed' = [key |-> k, part |-> part, fresh |-> TRUE]
  /\ UNCHANGED <<partitions, parts, crashed, added, strays>>

(* PartitionedStore.Add, the next call of Process. *)
Add ==
  /\ ~crashed
  /\ routed # NoRoute
  /\ routed' = NoRoute
  /\ \/ /\ routed.part \in DOMAIN parts
        /\ parts' = [parts EXCEPT ![routed.part][routed.key] = @ + 1]
        /\ added' = [added EXCEPT ![routed.key] = @ + 1]
        /\ strays' = IF routed.fresh THEN strays ELSE strays \cup {routed.key}
        /\ UNCHANGED crashed
     \/ /\ routed.part \notin DOMAIN parts
        /\ crashed' = TRUE
        /\ UNCHANGED <<parts, added, strays>>
  /\ UNCHANGED <<partitions, cache>>

(* PartitionedStore.Total *)
Total(k) == SumFunction([p \in DOMAIN parts |-> parts[p][k]])

(* PartitionedStore.Repartition: the values of a key that several          *)
(* partitions hold are added up.                                           *)
MutRepartition(old, new) ==
  [p \in 0..(new - 1) |-> [k \in Key |->
     IF PartitionForKey(k, new) = p THEN Max({parts[q][k] : q \in DOMAIN parts})
                                    ELSE 0]]

Repartition(old, new) ==
  IF new = old \/ Cardinality(DOMAIN parts) # old THEN parts
  ELSE [p \in 0..(new - 1) |-> [k \in Key |->
          IF PartitionForKey(k, new) = p THEN Total(k) ELSE 0]]

(* Router.Resize drops the cache. *)
MutClearCache == cache

ClearCache == [k \in Key |-> Unrouted]

(* Router.Resize *)
Resize(n) ==
  /\ ~crashed
  /\ n # partitions
  /\ parts' = Repartition(partitions, n)
  /\ partitions' = n
  /\ cache' = ClearCache
  /\ routed' = [routed EXCEPT !.fresh = FALSE]
  /\ strays' = {}
  /\ UNCHANGED <<crashed, added>>

RouterNext ==
  \/ \E k \in Key : Route(k)
  \/ Add
  \/ \E n \in Counts : Resize(n)

RouterSpec == RouterInit /\ [][RouterNext]_routerVars
-----------------------------------------------------------------------------
(***************************************************************************)
(* Nothing is lost in a migration (agg.go, Repartition): the total of a    *)
(* key over all partitions is every value added to it, even when a stale   *)
(* route had split the key and the next resize brings it together again.   *)
(***************************************************************************)
TotalsKept == \A k \in Key : Total(k) = added[k]

(***************************************************************************)
(* One partition per key (repartition.go, Resize): a key lives only in the *)
(* partition its hash gives under the current count, unless Process added  *)
(* to it by a route from before the last resize; the next resize heals     *)
(* even that.  In particular no cached route outlives a resize.            *)
(***************************************************************************)
SplitOnlyByStaleRoute ==
  \A k \in Key \ strays, p \in DOMAIN parts :
    parts[p][k] > 0 => p = PartitionForKey(k, partitions)

(***************************************************************************)
(* The store panics only on a route from before a resize (agg.go, Add):    *)
(* the store always has as many partitions as the router routes over, so   *)
(* a route taken after the last resize is a partition that exists.         *)
(***************************************************************************)
RouteExists ==
  /\ DOMAIN parts = 0..(partitions - 1)
  /\ routed # NoRoute /\ routed.fresh => routed.part \in DOMAIN parts
=============================================================================
