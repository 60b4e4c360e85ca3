---------------------------- MODULE WiringProofs ----------------------------
(***************************************************************************)
(* The two parts of package topology that stand alone.  The router never   *)
(* loses a value and splits a key only by a stale route, for any keys,     *)
(* hash and partition counts.  The validation of the operator graph decides *)
(* whether it has a cycle, for any operators, edges and search order.      *)
(***************************************************************************)
EXTENDS Router, DagValidate, DataTheorems
-----------------------------------------------------------------------------
(***************************************************************************)
(* The router and the partitioned store.                                   *)
(***************************************************************************)
(* What is true of the store and the router together.  A cached route and  *)
(* a route taken since the last resize are the hash under the current      *)
(* count; that is why a key that no stale route touched sits at its hash.  *)
RoutedType == [key : Key, part : Nat, fresh : BOOLEAN]

RouterTypeOK ==
  /\ partitions \in Counts
  /\ cache \in [Key -> Nat \cup {Unrouted}]
  /\ parts \in [0..(partitions - 1) -> [Key -> Nat]]
  /\ routed = NoRoute \/ routed \in RoutedType
  /\ added \in [Key -> Nat]
  /\ strays \subseteq Key

RoutesAreHashes ==
  /\ \A k \in Key : cache[k] # Unrouted => cache[k] = Home[k][partitions]
  /\ routed # NoRoute /\ routed.fresh =>
       routed.part = Home[routed.key][partitions]

RouterInv ==
  /\ RouterTypeOK
  /\ RoutesAreHashes
  /\ SplitOnlyByStaleRoute
  /\ TotalsKept

(* The partitions of a router. *)
LEMMA Slots ==
  ASSUME NEW n \in Nat
  PROVE  IsFiniteSet(0..(n - 1)) /\ Cardinality(0..(n - 1)) = n
<1>1. 0 \in Int /\ n - 1 \in Int
  OBVIOUS
<1>2. /\ IsFiniteSet(0..(n - 1))
      /\ Cardinality(0..(n - 1)) = IF 0 > n - 1 THEN 0 ELSE (n - 1) - 0 + 1
  BY <1>1, FS_Interval
<1> QED BY <1>2

LEMMA HashIsSlot ==
  ASSUME NEW k \in Key, NEW n \in Counts
  PROVE  n \in Nat /\ n > 0 /\ Home[k][n] \in Nat /\ Home[k][n] \in 0..(n - 1)
BY RouterAssumption

(* The column of one key. *)
Column(k) == [p \in DOMAIN parts |-> parts[p][k]]

LEMMA ColumnTotal ==
  ASSUME RouterTypeOK, NEW k \in Key
  PROVE  /\ IsFiniteSet(DOMAIN parts)
         /\ DOMAIN parts = 0..(partitions - 1)
         /\ Column(k) \in [DOMAIN parts -> Nat]
         /\ Total(k) = SumFunctionOnSet(Column(k), DOMAIN parts)
<1>1. partitions \in Nat
  BY RouterAssumption DEF RouterTypeOK
<1>2. DOMAIN parts = 0..(partitions - 1)
  BY DEF RouterTypeOK
<1>3. IsFiniteSet(DOMAIN parts)
  BY <1>1, <1>2, Slots
<1>4. Column(k) \in [DOMAIN parts -> Nat]
  BY DEF RouterTypeOK, Column
<1>5. Total(k) = SumFunctionOnSet(Column(k), DOMAIN Column(k))
  BY DEF Total, SumFunction, Column
<1>6. DOMAIN Column(k) = DOMAIN parts
  BY DEF Column
<1> QED BY <1>2, <1>3, <1>4, <1>5, <1>6
-----------------------------------------------------------------------------
LEMMA RouterStartInv == RouterInit => RouterInv
<1> SUFFICES ASSUME RouterInit PROVE RouterInv
  OBVIOUS
<1>1. RouterTypeOK
  BY RouterAssumption DEF RouterInit, RouterTypeOK, EmptyParts
<1>2. RoutesAreHashes
  BY DEF RouterInit, RoutesAreHashes
<1>3. SplitOnlyByStaleRoute
  BY DEF RouterInit, SplitOnlyByStaleRoute, EmptyParts
<1>4. TotalsKept
  <2> SUFFICES ASSUME NEW k \in Key PROVE Total(k) = 0
    BY DEF TotalsKept, RouterInit
  <2>1. PICK n \in Nat : n = partitions /\ n > 0
    BY RouterAssumption DEF RouterInit
  <2>2. /\ IsFiniteSet(DOMAIN parts)
        /\ DOMAIN parts = 0..(partitions - 1)
        /\ Total(k) = SumFunctionOnSet(Column(k), DOMAIN parts)
    BY <1>1, ColumnTotal
  <2>3. \A p \in DOMAIN parts : Column(k)[p] = 0
    BY <2>2 DEF RouterInit, EmptyParts, Column
  <2>4. 0 \in DOMAIN parts
    BY <2>1, <2>2
  <2>5. SumFunctionOnSet(Column(k), DOMAIN parts) = Column(k)[0]
    <3>1. Column(k)[0] \in Int
      BY <2>3, <2>4
    <3> QED BY <2>2, <2>3, <2>4, <3>1, SumSingle
  <2> QED BY <2>2, <2>3, <2>4, <2>5
<1> QED BY <1>1, <1>2, <1>3, <1>4 DEF RouterInv
-----------------------------------------------------------------------------
(* Router.Route *)
LEMMA RouteKeeps ==
  ASSUME RouterInv, NEW k \in Key, Route(k)
  PROVE  RouterInv'
<1> DEFINE part == IF cache[k] # Unrouted THEN cache[k]
                                          ELSE PartitionForKey(k, partitions)
<1>1. partitions \in Counts
  BY DEF RouterInv, RouterTypeOK
<1>2. part = Home[k][partitions] /\ part \in Nat
  BY <1>1, HashIsSlot DEF RouterInv, RoutesAreHashes, PartitionForKey
<1>3. /\ cache' = [cache EXCEPT ![k] = part]
      /\ routed' = [key |-> k, part |-> part, fresh |-> TRUE]
      /\ UNCHANGED <<partitions, parts, crashed, added, strays>>
  BY DEF Route
<1> HIDE DEF part
<1>4. RouterTypeOK'
  <2>1. routed' \in RoutedType
    BY <1>2, <1>3 DEF RoutedType
  <2>2. cache' \in [Key -> Nat \cup {Unrouted}]
    BY <1>2, <1>3 DEF RouterInv, RouterTypeOK
  <2> QED BY <1>3, <2>1, <2>2 DEF RouterInv, RouterTypeOK
<1>5. RoutesAreHashes'
  BY <1>2, <1>3 DEF RouterInv, RouterTypeOK, RoutesAreHashes
<1>6. SplitOnlyByStaleRoute'
  BY <1>3 DEF RouterInv, SplitOnlyByStaleRoute, PartitionForKey
<1>7. TotalsKept'
  BY <1>3 DEF RouterInv, TotalsKept, Total
<1> QED BY <1>4, <1>5, <1>6, <1>7 DEF RouterInv

(* PartitionedStore.Add *)
LEMMA AddKeeps ==
  ASSUME RouterInv, Add
  PROVE  RouterInv'
<1> DEFINE q == routed.part
           j == routed.key
<1>1. /\ routed \in RoutedType /\ routed # NoRoute
      /\ routed' = NoRoute /\ UNCHANGED <<partitions, cache>>
  BY DEF Add, RouterInv, RouterTypeOK
<1>2. RouterTypeOK /\ RoutesAreHashes /\ SplitOnlyByStaleRoute /\ TotalsKept
  BY DEF RouterInv
<1>3. CASE UNCHANGED <<parts, added, strays>>
  BY <1>1, <1>2, <1>3 DEF RouterInv, RouterTypeOK, RoutesAreHashes,
     SplitOnlyByStaleRoute, PartitionForKey, TotalsKept, Total
<1>4. CASE /\ q \in DOMAIN parts
           /\ parts' = [parts EXCEPT ![q][j] = @ + 1]
           /\ added' = [added EXCEPT ![j] = @ + 1]
           /\ strays' = IF routed.fresh THEN strays ELSE strays \cup {j}
  <2>1. j \in Key /\ q \in Nat
    BY <1>1 DEF RoutedType
  <2>2. /\ parts' \in [0..(partitions - 1) -> [Key -> Nat]]
        /\ \A p \in DOMAIN parts, k \in Key :
             parts'[p][k] = IF p = q /\ k = j THEN parts[p][k] + 1
                                              ELSE parts[p][k]
    BY <1>2, <1>4, <2>1 DEF RouterTypeOK
  <2>3. /\ added' \in [Key -> Nat]
        /\ \A k \in Key : added'[k] = IF k = j THEN added[k] + 1 ELSE added[k]
    BY <1>2, <1>4, <2>1 DEF RouterTypeOK
  <2>4. strays' \subseteq Key /\ strays \subseteq strays'
    BY <1>2, <1>4, <2>1 DEF RouterTypeOK
  <2>5. RouterTypeOK'
    BY <1>1, <1>2, <2>2, <2>3, <2>4 DEF RouterTypeOK
  <2>6. RoutesAreHashes'
    BY <1>1, <1>2 DEF RoutesAreHashes
  <2>7. DOMAIN parts' = DOMAIN parts
    BY <1>4
  <2>8. SplitOnlyByStaleRoute'
    <3> SUFFICES ASSUME NEW k \in Key, k \notin strays', NEW p \in DOMAIN parts,
                        parts'[p][k] > 0
                 PROVE  p = Home[k][partitions]
      BY <1>1, <2>7 DEF SplitOnlyByStaleRoute, PartitionForKey
    <3>1. k \notin strays
      BY <2>4
    <3>2. CASE p = q /\ k = j
      <4>1. routed.fresh
        BY <1>4, <3>2
      <4> QED BY <1>1, <1>2, <3>2, <4>1 DEF RoutesAreHashes
    <3>3. CASE ~(p = q /\ k = j)
      <4>1. parts[p][k] > 0
        BY <2>2, <3>3
      <4> QED BY <1>2, <3>1, <4>1 DEF SplitOnlyByStaleRoute, PartitionForKey
    <3> QED BY <3>2, <3>3
  <2>9. TotalsKept'
    <3> SUFFICES ASSUME NEW k \in Key PROVE Total(k)' = added'[k]
      BY DEF TotalsKept
    <3> DEFINE D == DOMAIN parts
               f == Column(k)
               g == Column(k)'
    <3>1. /\ IsFiniteSet(D) /\ f \in [D -> Nat]
          /\ Total(k) = SumFunctionOnSet(f, D)
      BY <1>2, ColumnTotal
    <3>2. g \in [D -> Nat] /\ Total(k)' = SumFunctionOnSet(g, D)
      <4>1. g = [p \in D |-> parts'[p][k]]
        BY <2>7 DEF Column
      <4>2. Total(k)' = SumFunctionOnSet(g, DOMAIN g)
        BY DEF Total, SumFunction, Column
      <4>3. g \in [D -> Nat]
        BY <1>2, <2>2, <4>1 DEF RouterTypeOK
      <4> QED BY <4>1, <4>2, <4>3
    <3>3. \A p \in D : g[p] = IF p = q /\ k = j THEN f[p] + 1 ELSE f[p]
      BY <2>2, <2>7 DEF Column
    <3>4. Total(k) = added[k]
      BY <1>2 DEF TotalsKept
    <3> HIDE DEF D, f, g
    <3>5. CASE k # j
      <4>1. \A p \in D : f[p] \in Int /\ g[p] = f[p]
        BY <3>1, <3>3, <3>5
      <4>2. SumFunctionOnSet(g, D) = SumFunctionOnSet(f, D)
        BY <3>1, <4>1, SumAgrees
      <4> QED BY <2>3, <3>1, <3>2, <3>4, <3>5, <4>2
    <3>6. CASE k = j
      <4> DEFINE R == D \ {q}
      <4>1. q \in D
        BY <1>4 DEF D
      <4>2. IsFiniteSet(R) /\ \A p \in R : f[p] \in Int /\ g[p] = f[p]
        BY <3>1, <3>3, FS_Subset
      <4>3. /\ \A p \in D : f[p] \in Int /\ g[p] \in Int
            /\ g[q] = f[q] + 1
        BY <3>1, <3>2, <3>3, <3>6, <4>1
      <4>4. SumFunctionOnSet(f, D) = f[q] + SumFunctionOnSet(f, R)
        BY <3>1, <4>1, <4>3, SumRemove
      <4>5. SumFunctionOnSet(g, D) = g[q] + SumFunctionOnSet(g, R)
        BY <3>1, <4>1, <4>3, SumRemove
      <4> HIDE DEF R
      <4>6. /\ SumFunctionOnSet(g, R) = SumFunctionOnSet(f, R)
            /\ SumFunctionOnSet(f, R) \in Int
        BY <4>2, SumAgrees, SumType
      <4>7. f[q] \in Int
        BY <4>1, <4>3
      <4>8. SumFunctionOnSet(g, D) = SumFunctionOnSet(f, D) + 1
        BY <4>3, <4>4, <4>5, <4>6, <4>7
      <4> QED BY <2>3, <3>1, <3>2, <3>4, <3>6, <4>8
    <3> QED BY <3>5, <3>6
  <2> QED BY <2>5, <2>6, <2>8, <2>9 DEF RouterInv
<1> QED BY <1>3, <1>4 DEF Add

(* Router.Resize: the migrated store holds each key once, at its hash. *)
LEMMA ResizeKeeps ==
  ASSUME RouterInv, NEW n \in Counts, Resize(n)
  PROVE  RouterInv'
<1>1. RouterTypeOK /\ TotalsKept /\ partitions \in Nat /\ n \in Nat
  BY RouterAssumption DEF RouterInv, RouterTypeOK
<1>2. /\ n # partitions /\ partitions' = n /\ strays' = {}
      /\ cache' = [k \in Key |-> Unrouted]
      /\ routed' = [routed EXCEPT !.fresh = FALSE]
      /\ UNCHANGED added
  BY DEF Resize, ClearCache
<1>3. DOMAIN parts = 0..(partitions - 1)
  BY <1>1 DEF RouterTypeOK
<1>4. Cardinality(DOMAIN parts) = partitions
  BY <1>1, <1>3, Slots
<1>5. parts' = [p \in 0..(n - 1) |-> [k \in Key |->
                  IF Home[k][n] = p THEN Total(k) ELSE 0]]
  BY <1>2, <1>4 DEF Resize, Repartition, PartitionForKey
<1>6. \A k \in Key : Total(k) = added[k] /\ Total(k) \in Nat
  BY <1>1 DEF TotalsKept, RouterTypeOK
<1>7. /\ DOMAIN parts' = 0..(n - 1)
      /\ parts' \in [0..(n - 1) -> [Key -> Nat]]
      /\ \A p \in 0..(n - 1), k \in Key :
           parts'[p][k] = IF Home[k][n] = p THEN added[k] ELSE 0
  BY <1>5, <1>6
<1>8. /\ routed' = NoRoute \/ routed' \in RoutedType
      /\ ~routed'.fresh
  <2>1. CASE routed = NoRoute
    BY <1>2, <2>1 DEF NoRoute
  <2>2. CASE routed \in RoutedType
    BY <1>2, <2>2 DEF RoutedType
  <2> QED BY <1>1, <2>1, <2>2 DEF RouterTypeOK
<1>9. RouterTypeOK'
  BY <1>1, <1>2, <1>7, <1>8 DEF RouterTypeOK
<1>10. RoutesAreHashes'
  BY <1>2, <1>8 DEF RoutesAreHashes
<1>11. SplitOnlyByStaleRoute'
  BY <1>2, <1>7 DEF SplitOnlyByStaleRoute, PartitionForKey
<1>12. TotalsKept'
  <2> SUFFICES ASSUME NEW k \in Key PROVE Total(k)' = added[k]
    BY <1>2 DEF TotalsKept
  <2> DEFINE D == 0..(n - 1)
             g == Column(k)'
             h == Home[k][n]
  <2>1. h \in D /\ added[k] \in Nat
    BY <1>1, HashIsSlot DEF RouterTypeOK
  <2>2. IsFiniteSet(D)
    BY <1>1, Slots
  <2>3. Total(k)' = SumFunctionOnSet(g, D)
    <3>1. g = [p \in D |-> parts'[p][k]]
      BY <1>7 DEF Column
    <3>2. Total(k)' = SumFunctionOnSet(g, DOMAIN g)
      BY DEF Total, SumFunction, Column
    <3> QED BY <3>1, <3>2
  <2>4. \A p \in D : g[p] = IF h = p THEN added[k] ELSE 0
    BY <1>7 DEF Column
  <2> HIDE DEF D, g, h
  <2>5. g[h] = added[k] /\ g[h] \in Int /\ \A p \in D : p # h => g[p] = 0
    BY <2>1, <2>4
  <2>6. SumFunctionOnSet(g, D) = g[h]
    BY <2>1, <2>2, <2>5, SumSingle
  <2> QED BY <2>3, <2>5, <2>6
<1> QED BY <1>9, <1>10, <1>11, <1>12 DEF RouterInv

LEMMA RouterStepInv == RouterInv /\ [RouterNext]_routerVars => RouterInv'
<1> SUFFICES ASSUME RouterInv, [RouterNext]_routerVars PROVE RouterInv'
  OBVIOUS
<1>1. CASE UNCHANGED routerVars
  BY <1>1 DEF routerVars, RouterInv, RouterTypeOK, RoutesAreHashes,
     SplitOnlyByStaleRoute, PartitionForKey, TotalsKept, Total
<1>2. CASE \E k \in Key : Route(k)
  BY <1>2, RouteKeeps
<1>3. CASE Add
  BY <1>3, AddKeeps
<1>4. CASE \E n \in Counts : Resize(n)
  BY <1>4, ResizeKeeps
<1> QED BY <1>1, <1>2, <1>3, <1>4 DEF RouterNext
-----------------------------------------------------------------------------
(* The invariant of every behaviour of the router with its partitioned     *)
(* store (repartition.go, agg.go).                                         *)
THEOREM RouterInvariant == RouterSpec => []RouterInv
BY RouterStartInv, RouterStepInv, PTL DEF RouterSpec

(* No value is lost by a migration, even after a stale route split a key   *)
(* (agg.go, Repartition).                                                  *)
THEOREM TotalsKeptHolds == RouterSpec => []TotalsKept
<1>1. RouterInv => TotalsKept
  BY DEF RouterInv
<1> QED BY <1>1, RouterInvariant, PTL

(* A key is in the partition of its hash unless a route from before the    *)
(* last resize put it elsewhere (repartition.go, Resize and Route).        *)
THEOREM SplitOnlyByStaleRouteHolds == RouterSpec => []SplitOnlyByStaleRoute
<1>1. RouterInv => SplitOnlyByStaleRoute
  BY DEF RouterInv
<1> QED BY <1>1, RouterInvariant, PTL

(* A route taken since the last resize is a partition the store has        *)
(* (agg.go, Add).                                                          *)
THEOREM RouteExistsHolds == RouterSpec => []RouteExists
<1>1. ASSUME RouterInv PROVE RouteExists
  <2>1. partitions \in Counts /\ DOMAIN parts = 0..(partitions - 1)
    BY <1>1 DEF RouterInv, RouterTypeOK
  <2>2. ASSUME routed # NoRoute, routed.fresh
        PROVE  routed.part \in DOMAIN parts
    <3>1. routed.key \in Key /\ routed.part = Home[routed.key][partitions]
      BY <1>1, <2>2 DEF RouterInv, RouterTypeOK, RoutedType, RoutesAreHashes
    <3> QED BY <2>1, <3>1, HashIsSlot
  <2> QED BY <2>1, <2>2 DEF RouteExists
<1> QED BY <1>1, RouterInvariant, PTL
-----------------------------------------------------------------------------
(***************************************************************************)
(* The depth-first search of DAG.Validate.  The stack is a path of marked  *)
(* operators, so an edge back into it closes a cycle; what is finished has *)
(* no edge to anything unfinished and no cycle, so a search that ends has  *)
(* seen there is none.                                                     *)
(***************************************************************************)
Frame == [node : Operator, rest : SUBSET Operator]

DagTypeOK ==
  /\ graph \subseteq Operator \X Operator
  /\ mark \in [Operator -> 0..2]
  /\ roots \subseteq Operator
  /\ stack \in Seq(Frame)
  /\ verdict \in {"running", "valid", "cycle"}

(* An operator is on the stack once, exactly while it is marked 1; a       *)
(* search that has returned left no frame.                                 *)
StackIsMarked ==
  /\ \A i, j \in DOMAIN stack : stack[i].node = stack[j].node => i = j
  /\ \A i \in DOMAIN stack : mark[stack[i].node] = 1
  /\ verdict # "cycle" =>
       \A n \in Operator : mark[n] = 1 => \E i \in DOMAIN stack : stack[i].node = n
  /\ verdict # "running" => stack = <<>>

(* The stack is a path, innermost call first, and the successors a frame   *)
(* no longer has to visit are finished, except the one it is visiting.     *)
StackIsPath ==
  \A i \in DOMAIN stack :
    /\ i > 1 => <<stack[i].node, stack[i - 1].node>> \in graph
    /\ stack[i].rest \subseteq Successors(stack[i].node)
    /\ \A m \in Successors(stack[i].node) \ stack[i].rest :
         mark[m] = 2 \/ (i > 1 /\ m = stack[i - 1].node)

(* An edge out of a finished operator ends in a finished one, and no       *)
(* finished operators form a cycle.                                        *)
FinishedClosed ==
  \A n \in Operator : mark[n] = 2 => \A m \in Successors(n) : mark[m] = 2

FinishedAcyclic ==
  \A S \in SUBSET Operator :
    S # {} /\ (\A n \in S : mark[n] = 2)
      => \E n \in S : \A m \in S : <<n, m>> \notin graph

(* The outer loop has reached every operator with an edge that is not      *)
(* among the roots.                                                        *)
RootsReached ==
  \A n \in Operator : Successors(n) # {} => n \in roots \/ mark[n] # 0

DagInv ==
  /\ DagTypeOK
  /\ StackIsMarked
  /\ StackIsPath
  /\ FinishedClosed
  /\ FinishedAcyclic
  /\ RootsReached
  /\ ValidateDecides
-----------------------------------------------------------------------------
(* A frame pushed onto a stack. *)
LEMMA PushFacts ==
  ASSUME NEW f \in Frame, NEW c \in Seq(Frame)
  PROVE  /\ <<f>> \o c \in Seq(Frame)
         /\ Len(<<f>> \o c) = Len(c) + 1
         /\ (<<f>> \o c)[1] = f
         /\ \A i \in 1..(Len(c) + 1) : i > 1 => (<<f>> \o c)[i] = c[i - 1]
OBVIOUS

(* The stack the innermost call leaves behind when it visits n: its own    *)
(* frame no longer has n to visit.                                         *)
Callers(c, n) ==
  /\ c \in Seq(Frame)
  /\ Len(c) = Len(stack)
  /\ \A i \in 1..Len(c) : c[i].node = stack[i].node
  /\ \A i \in 1..Len(c) : i > 1 => c[i].rest = stack[i].rest
  /\ c # <<>> => n \in stack[1].rest /\ c[1].rest = stack[1].rest \ {n}

(* A visit of an operator on the stack has closed a cycle: the operators   *)
(* from the innermost call up to that one.                                 *)
LEMMA StackCycle ==
  ASSUME DagInv, NEW n \in Operator, NEW c, Callers(c, n), mark[n] = 1,
         verdict = "running"
  PROVE  ~Acyclic(graph)
<1>1. stack \in Seq(Frame)
  BY DEF DagInv, DagTypeOK
<1>2. PICK k \in DOMAIN stack : stack[k].node = n
  BY DEF DagInv, StackIsMarked
<1>3. k \in 1..Len(stack) /\ Len(stack) \in Nat /\ DOMAIN stack = 1..Len(stack)
  BY <1>1, <1>2
<1>4. n \in stack[1].rest /\ 1 \in DOMAIN stack
  <2>1. 1 \in DOMAIN stack /\ Len(stack) # 0
    BY <1>3
  <2>2. c # <<>>
    BY <2>1 DEF Callers
  <2> QED BY <2>1, <2>2 DEF Callers
<1> DEFINE S == {stack[i].node : i \in 1..k}
<1>5. S \subseteq Operator /\ n \in S
  <2>1. \A i \in 1..k : stack[i] \in Frame
    BY <1>1, <1>3
  <2>2. \A i \in 1..k : stack[i].node \in Operator
    BY <2>1 DEF Frame
  <2>3. k \in 1..k
    BY <1>3
  <2> QED BY <1>2, <2>2, <2>3
<1>6. \A m \in S : \E p \in S : <<m, p>> \in graph
  <2> SUFFICES ASSUME NEW i \in 1..k
               PROVE  \E p \in S : <<stack[i].node, p>> \in graph
    OBVIOUS
  <2>0. i = 1 \/ i > 1
    BY <1>3
  <2>1. CASE i = 1
    <3>1. n \in Successors(stack[1].node)
      BY <1>4 DEF DagInv, StackIsPath
    <3> QED BY <3>1, <1>5, <2>1 DEF Successors
  <2>2. CASE i > 1
    <3>1. i \in DOMAIN stack /\ i - 1 \in 1..k
      BY <1>3, <2>2
    <3>2. <<stack[i].node, stack[i - 1].node>> \in graph
      BY <2>2, <3>1 DEF DagInv, StackIsPath
    <3> QED BY <3>1, <3>2
  <2> QED BY <2>0, <2>1, <2>2
<1> HIDE DEF S
<1> QED BY <1>5, <1>6 DEF Acyclic

(* A call of visit keeps the invariant. *)
LEMMA VisitKeeps ==
  ASSUME DagInv, NEW n \in Operator, NEW c, Callers(c, n), Visit(n, c),
         verdict = "running", graph' = graph,
         roots' = roots \/ roots' = roots \ {n}
  PROVE  DagInv'
<1>0. /\ stack \in Seq(Frame) /\ mark \in [Operator -> 0..2]
      /\ c \in Seq(Frame) /\ Len(c) = Len(stack)
      /\ DOMAIN stack = 1..Len(stack) /\ DOMAIN c = 1..Len(stack)
      /\ Len(stack) \in Nat
  BY DEF DagInv, DagTypeOK, Callers
<1>1. \A m \in Operator : Successors(m)' = Successors(m)
  BY DEF Successors
<1>2. CASE mark[n] = 1
  <2>1. verdict' = "cycle" /\ stack' = <<>> /\ mark' = mark
    BY <1>2 DEF Visit
  <2>2. ~Acyclic(graph)'
    BY StackCycle, <1>2 DEF Acyclic
  <2>3. DagTypeOK'
    BY <2>1 DEF DagInv, DagTypeOK
  <2>4. StackIsMarked' /\ StackIsPath'
    BY <2>1 DEF StackIsMarked, StackIsPath
  <2>5. FinishedClosed' /\ FinishedAcyclic'
    BY <2>1, <1>1 DEF DagInv, FinishedClosed, FinishedAcyclic
  <2>6. RootsReached'
    BY <2>1, <1>1, <1>2 DEF DagInv, RootsReached
  <2> QED BY <2>1, <2>2, <2>3, <2>4, <2>5, <2>6 DEF DagInv, ValidateDecides
<1>3. CASE mark[n] = 2
  <2>1. verdict' = verdict /\ stack' = c /\ mark' = mark
    BY <1>3 DEF Visit
  <2>2. DagTypeOK'
    BY <2>1, <1>0 DEF DagInv, DagTypeOK
  <2>3. StackIsMarked'
    BY <2>1, <1>0 DEF DagInv, StackIsMarked, Callers
  <2>4. StackIsPath'
    <3> SUFFICES ASSUME NEW i \in 1..Len(stack)
                 PROVE  /\ i > 1 => <<c[i].node, c[i - 1].node>> \in graph
                        /\ c[i].rest \subseteq Successors(c[i].node)
                        /\ \A m \in Successors(c[i].node) \ c[i].rest :
                             mark[m] = 2 \/ (i > 1 /\ m = c[i - 1].node)
      BY <2>1, <1>0, <1>1 DEF StackIsPath, Successors
    <3>1. /\ i > 1 => <<stack[i].node, stack[i - 1].node>> \in graph
          /\ stack[i].rest \subseteq Successors(stack[i].node)
          /\ \A m \in Successors(stack[i].node) \ stack[i].rest :
               mark[m] = 2 \/ (i > 1 /\ m = stack[i - 1].node)
      BY <1>0 DEF DagInv, StackIsPath
    <3>2. c[i].node = stack[i].node /\ (i > 1 => c[i - 1].node = stack[i - 1].node)
      BY <1>0 DEF Callers
    <3>3. CASE i > 1
      BY <3>1, <3>2, <3>3, <1>0 DEF Callers
    <3>4. CASE i = 1
      <4>1. c[1].rest = stack[1].rest \ {n}
        BY <3>4, <1>0 DEF Callers
      <4> QED BY <3>1, <3>2, <3>4, <4>1, <1>3
    <3> QED BY <3>3, <3>4
  <2>5. FinishedClosed' /\ FinishedAcyclic'
    BY <2>1, <1>1 DEF DagInv, FinishedClosed, FinishedAcyclic
  <2>6. RootsReached'
    BY <2>1, <1>1, <1>3 DEF DagInv, RootsReached
  <2> QED BY <2>1, <2>2, <2>3, <2>4, <2>5, <2>6 DEF DagInv, ValidateDecides
<1>4. CASE mark[n] = 0
  <2> DEFINE f == [node |-> n, rest |-> Successors(n)]
  <2>1. verdict' = verdict /\ stack' = <<f>> \o c /\ mark' = [mark EXCEPT ![n] = 1]
    BY <1>4 DEF Visit
  <2>2. f \in Frame /\ f.node = n /\ f.rest = Successors(n)
    BY DEF Frame, Successors
  <2> HIDE DEF f
  <2>3. /\ stack' \in Seq(Frame)
        /\ Len(stack') = Len(stack) + 1
        /\ stack'[1] = f
        /\ \A i \in 1..(Len(stack) + 1) : i > 1 => stack'[i] = c[i - 1]
    BY <2>1, <2>2, <1>0, PushFacts
  <2>4. DOMAIN stack' = 1..(Len(stack) + 1)
    BY <2>3
  <2>5. \A i \in 1..(Len(stack) + 1) :
           i > 1 => i - 1 \in 1..Len(stack) /\ stack'[i].node = stack[i - 1].node
    BY <2>3, <1>0 DEF Callers
  <2>6. \A i \in 1..Len(stack) : stack[i].node # n /\ stack[i].node \in Operator
    <3> SUFFICES ASSUME NEW i \in 1..Len(stack)
                 PROVE  stack[i].node # n /\ stack[i].node \in Operator
      OBVIOUS
    <3>1. mark[stack[i].node] = 1
      BY <1>0 DEF DagInv, StackIsMarked
    <3>2. stack[i] \in Frame
      BY <1>0
    <3> QED BY <3>1, <3>2, <1>4 DEF Frame
  <2>7. DagTypeOK'
    BY <2>1, <2>3 DEF DagInv, DagTypeOK
  <2>8. StackIsMarked'
    <3>1. \A i, j \in DOMAIN stack' : stack'[i].node = stack'[j].node => i = j
      <4> SUFFICES ASSUME NEW i \in 1..(Len(stack) + 1), NEW j \in 1..(Len(stack) + 1),
                          stack'[i].node = stack'[j].node
                   PROVE  i = j
        BY <2>4
      <4>0. stack'[1].node = n
        BY <2>2, <2>3
      <4>1. CASE i = 1 \/ j = 1
        <5>1. \A k \in 1..(Len(stack) + 1) : stack'[k].node = n => ~(k > 1)
          BY <2>5, <2>6
        <5> QED BY <4>0, <4>1, <5>1, <1>0
      <4>2. CASE i > 1 /\ j > 1
        <5>1. stack[i - 1].node = stack[j - 1].node
          BY <4>2, <2>5
        <5>2. i - 1 = j - 1
          BY <4>2, <5>1, <2>5, <1>0 DEF DagInv, StackIsMarked
        <5> QED BY <5>2, <1>0
      <4> QED BY <4>1, <4>2
    <3>2. \A i \in DOMAIN stack' : mark'[stack'[i].node] = 1
      <4> SUFFICES ASSUME NEW i \in 1..(Len(stack) + 1)
                   PROVE  mark'[stack'[i].node] = 1
        BY <2>4
      <4>1. CASE i = 1
        BY <4>1, <2>1, <2>2, <2>3, <1>0
      <4>2. CASE i > 1
        <5>1. mark[stack[i - 1].node] = 1
          BY <4>2, <2>5, <1>0 DEF DagInv, StackIsMarked
        <5> QED BY <4>2, <5>1, <2>5, <2>6, <2>1, <1>0
      <4> QED BY <4>1, <4>2
    <3>3. \A m \in Operator : mark'[m] = 1 =>
                                \E i \in DOMAIN stack' : stack'[i].node = m
      <4> SUFFICES ASSUME NEW m \in Operator, mark'[m] = 1
                   PROVE  \E i \in 1..(Len(stack) + 1) : stack'[i].node = m
        BY <2>4
      <4>1. CASE m = n
        BY <4>1, <2>2, <2>3, <1>0
      <4>2. CASE m # n
        <5>1. PICK i \in 1..Len(stack) : stack[i].node = m
          BY <4>2, <2>1, <1>0 DEF DagInv, StackIsMarked
        <5>2. i + 1 \in 1..(Len(stack) + 1) /\ i + 1 > 1 /\ (i + 1) - 1 = i
          BY <1>0
        <5>3. stack'[i + 1].node = m
          BY <5>1, <5>2, <2>5
        <5> QED BY <5>2, <5>3
      <4> QED BY <4>1, <4>2
    <3> QED BY <3>1, <3>2, <3>3, <2>1 DEF StackIsMarked
  <2>9. StackIsPath'
    <3> SUFFICES ASSUME NEW i \in 1..(Len(stack) + 1)
                 PROVE  /\ i > 1 => <<stack'[i].node, stack'[i - 1].node>> \in graph
                        /\ stack'[i].rest \subseteq Successors(stack'[i].node)
                        /\ \A m \in Successors(stack'[i].node) \ stack'[i].rest :
                             mark'[m] = 2 \/ (i > 1 /\ m = stack'[i - 1].node)
      BY <2>4 DEF StackIsPath, Successors
    <3>1. CASE i = 1
      BY <3>1, <2>2, <2>3
    <3>2. CASE i > 1
      <4> DEFINE j == i - 1
      <4>1. j \in 1..Len(stack) /\ stack'[i] = c[j] /\ stack'[i].node = stack[j].node
        BY <3>2, <2>3, <2>5
      <4>2. /\ j > 1 => <<stack[j].node, stack[j - 1].node>> \in graph
            /\ stack[j].rest \subseteq Successors(stack[j].node)
            /\ \A m \in Successors(stack[j].node) \ stack[j].rest :
                 mark[m] = 2 \/ (j > 1 /\ m = stack[j - 1].node)
        BY <4>1, <1>0 DEF DagInv, StackIsPath
      <4>3. \A m \in Operator : mark[m] = 2 => mark'[m] = 2
        BY <2>1, <1>4, <1>0
      <4>4. CASE j = 1
        <5>1. i = 2 /\ stack'[i - 1].node = n
          BY <4>4, <2>2, <2>3, <1>0
        <5>2. n \in stack[1].rest /\ c[1].rest = stack[1].rest \ {n}
          BY <4>1, <4>4, <1>0 DEF Callers
        <5>3. n \in Successors(stack[1].node)
          BY <4>2, <4>4, <5>2
        <5>4. <<stack[1].node, n>> \in graph
          BY <5>3 DEF Successors
        <5>5. \A m \in Successors(stack[1].node) \ c[1].rest : mark'[m] = 2 \/ m = n
          BY <4>2, <4>3, <4>4, <5>2 DEF Successors
        <5> QED BY <4>1, <4>2, <4>4, <5>1, <5>2, <5>4, <5>5
      <4>5. CASE j > 1
        <5>1. i - 1 \in 1..(Len(stack) + 1) /\ i - 1 > 1
          BY <4>5, <4>1, <1>0
        <5>2. stack'[i - 1].node = stack[j - 1].node
          BY <5>1, <2>5
        <5>3. c[j].rest = stack[j].rest
          BY <4>1, <4>5, <1>0 DEF Callers
        <5>4. \A m \in Successors(stack[j].node) \ stack[j].rest :
                 mark'[m] = 2 \/ m = stack[j - 1].node
          BY <4>2, <4>3 DEF Successors
        <5> QED BY <4>1, <4>2, <4>5, <5>2, <5>3, <5>4
      <4> QED BY <4>1, <4>4, <4>5
    <3> QED BY <3>1, <3>2
  <2>10. \A m \in Operator : mark'[m] = 2 <=> mark[m] = 2
    BY <2>1, <1>0, <1>4
  <2>11. FinishedClosed'
    BY <2>10, <1>1 DEF DagInv, FinishedClosed, Successors
  <2>12. FinishedAcyclic'
    BY <2>10 DEF DagInv, FinishedAcyclic
  <2>13. RootsReached'
    BY <2>1, <1>0, <1>1 DEF DagInv, RootsReached
  <2> QED BY <2>1, <2>7, <2>8, <2>9, <2>11, <2>12, <2>13 DEF DagInv, ValidateDecides
<1> QED BY <1>0, <1>2, <1>3, <1>4

(* A call of visit returns: its operator is finished, and so are all its   *)
(* successors.                                                             *)
LEMMA ReturnKeeps ==
  ASSUME DagInv, Return
  PROVE  DagInv'
<1> DEFINE n == stack[1].node
<1>0. /\ stack \in Seq(Frame) /\ mark \in [Operator -> 0..2]
      /\ DOMAIN stack = 1..Len(stack) /\ Len(stack) \in Nat
      /\ 1 \in 1..Len(stack) /\ Head(stack) = stack[1] /\ stack # <<>>
  BY DEF DagInv, DagTypeOK, Return
<1>1. n \in Operator /\ mark[n] = 1
  <2>1. stack[1] \in Frame
    BY <1>0
  <2> QED BY <2>1, <1>0 DEF Frame, DagInv, StackIsMarked
<1>2. /\ mark' = [mark EXCEPT ![n] = 2] /\ stack' = Tail(stack)
      /\ graph' = graph /\ roots' = roots /\ verdict' = verdict
      /\ stack[1].rest = {}
  BY <1>0 DEF Return
<1>3. verdict = "running"
  BY <1>0 DEF DagInv, StackIsMarked
<1>4. /\ stack' \in Seq(Frame) /\ Len(stack') = Len(stack) - 1
      /\ \A i \in 1..(Len(stack) - 1) : stack'[i] = stack[i + 1]
      /\ DOMAIN stack' = 1..(Len(stack) - 1)
  BY <1>0, <1>2
<1>5. \A m \in Successors(n) : mark[m] = 2
  <2>1. \A i \in 1..Len(stack) :
           \A m \in Successors(stack[i].node) \ stack[i].rest :
             mark[m] = 2 \/ (i > 1 /\ m = stack[i - 1].node)
    BY <1>0 DEF DagInv, StackIsPath
  <2>2. \A m \in Successors(stack[1].node) \ stack[1].rest : mark[m] = 2
    BY <2>1, <1>0
  <2> QED BY <2>2, <1>2
<1>6. n \notin Successors(n)
  BY <1>1, <1>5
<1>7. \A m \in Operator : Successors(m)' = Successors(m)
  BY <1>2 DEF Successors
<1> HIDE DEF n
<1>8. \A m \in Operator : IF m = n THEN mark'[m] = 2 ELSE mark'[m] = mark[m]
  BY <1>0, <1>1, <1>2
<1>9. DagTypeOK'
  <2>0. mark \in [Operator -> 0..2] /\ 2 \in 0..2
    BY <1>0
  <2>1. mark' \in [Operator -> 0..2]
    BY <2>0, <1>2
  <2> QED BY <2>1, <1>2, <1>4 DEF DagInv, DagTypeOK
<1>10. \A i \in 1..(Len(stack) - 1) :
          /\ i + 1 \in 1..Len(stack)
          /\ stack[i + 1].node # n
          /\ stack[i + 1].node \in Operator
  <2> SUFFICES ASSUME NEW i \in 1..(Len(stack) - 1)
               PROVE  /\ i + 1 \in 1..Len(stack)
                      /\ stack[i + 1].node # n
                      /\ stack[i + 1].node \in Operator
    OBVIOUS
  <2>1. i + 1 \in 1..Len(stack) /\ i + 1 # 1
    BY <1>0
  <2>2. stack[i + 1].node # n
    BY <2>1, <1>0 DEF n, DagInv, StackIsMarked
  <2>3. stack[i + 1] \in Frame
    BY <2>1, <1>0
  <2> QED BY <2>1, <2>2, <2>3 DEF Frame
<1>11. StackIsMarked'
  <2>1. \A i, j \in DOMAIN stack' : stack'[i].node = stack'[j].node => i = j
    <3> SUFFICES ASSUME NEW i \in 1..(Len(stack) - 1), NEW j \in 1..(Len(stack) - 1),
                        stack[i + 1].node = stack[j + 1].node
                 PROVE  i = j
      BY <1>4
    <3>1. i + 1 = j + 1
      BY <1>0, <1>10 DEF DagInv, StackIsMarked
    <3> QED BY <3>1, <1>0
  <2>2. \A i \in DOMAIN stack' : mark'[stack'[i].node] = 1
    <3> SUFFICES ASSUME NEW i \in 1..(Len(stack) - 1)
                 PROVE  mark'[stack[i + 1].node] = 1
      BY <1>4
    <3>1. mark[stack[i + 1].node] = 1
      BY <1>0, <1>10 DEF DagInv, StackIsMarked
    <3> QED BY <3>1, <1>8, <1>10
  <2>3. \A m \in Operator : mark'[m] = 1 =>
                              \E i \in DOMAIN stack' : stack'[i].node = m
    <3> SUFFICES ASSUME NEW m \in Operator, mark'[m] = 1
                 PROVE  \E i \in 1..(Len(stack) - 1) : stack'[i].node = m
      BY <1>4
    <3>1. m # n /\ mark[m] = 1
      BY <1>1, <1>8
    <3>2. PICK k \in 1..Len(stack) : stack[k].node = m
      BY <3>1, <1>0, <1>3 DEF DagInv, StackIsMarked
    <3>3. k # 1
      BY <3>1, <3>2 DEF n
    <3>4. k - 1 \in 1..(Len(stack) - 1) /\ (k - 1) + 1 = k
      BY <3>3, <1>0
    <3>5. stack'[k - 1] = stack[k]
      BY <3>4, <1>4
    <3> QED BY <3>2, <3>4, <3>5
  <2> QED BY <2>1, <2>2, <2>3, <1>2, <1>3 DEF StackIsMarked
<1>12. StackIsPath'
  <2> SUFFICES ASSUME NEW i \in 1..(Len(stack) - 1)
               PROVE  /\ i > 1 => <<stack'[i].node, stack'[i - 1].node>> \in graph
                      /\ stack'[i].rest \subseteq Successors(stack'[i].node)
                      /\ \A m \in Successors(stack'[i].node) \ stack'[i].rest :
                           mark'[m] = 2 \/ (i > 1 /\ m = stack'[i - 1].node)
    BY <1>2, <1>4 DEF StackIsPath, Successors
  <2> DEFINE j == i + 1
  <2>1. j \in 1..Len(stack) /\ j > 1 /\ j - 1 = i /\ stack'[i] = stack[j]
    BY <1>0, <1>4
  <2>2. /\ <<stack[j].node, stack[i].node>> \in graph
        /\ stack[j].rest \subseteq Successors(stack[j].node)
        /\ \A m \in Successors(stack[j].node) \ stack[j].rest :
             mark[m] = 2 \/ m = stack[i].node
    BY <2>1, <1>0 DEF DagInv, StackIsPath
  <2>3. i > 1 => stack'[i - 1] = stack[i]
    BY <1>0, <1>4
  <2>4. i = 1 => stack[i].node = n
    BY DEF n
  <2>5. \A m \in Successors(stack[j].node) \ stack[j].rest :
           mark'[m] = 2 \/ (i > 1 /\ m = stack[i].node)
    <3> SUFFICES ASSUME NEW m \in Successors(stack[j].node) \ stack[j].rest
                 PROVE  mark'[m] = 2 \/ (i > 1 /\ m = stack[i].node)
      OBVIOUS
    <3>1. m \in Operator
      BY DEF Successors
    <3>2. i = 1 \/ i > 1
      BY <1>0
    <3> QED BY <3>1, <3>2, <2>2, <2>4, <1>8
  <2> HIDE DEF j
  <2> QED BY <2>1, <2>2, <2>3, <2>5
<1>13. FinishedClosed'
  <2> SUFFICES ASSUME NEW p \in Operator, mark'[p] = 2, NEW m \in Successors(p)
               PROVE  mark'[m] = 2
    BY <1>7 DEF FinishedClosed
  <2>1. m \in Operator
    BY DEF Successors
  <2>2. mark[m] = 2
    BY <1>5, <1>8 DEF DagInv, FinishedClosed
  <2> QED BY <2>1, <2>2, <1>8
<1>14. FinishedAcyclic'
  <2> SUFFICES ASSUME NEW S \in SUBSET Operator, S # {}, \A m \in S : mark'[m] = 2
               PROVE  \E m \in S : \A p \in S : <<m, p>> \notin graph
    BY <1>2 DEF FinishedAcyclic
  <2>1. CASE S \subseteq {n}
    <3>1. S = {n}
      BY <2>1
    <3>2. <<n, n>> \notin graph
      BY <1>1, <1>6 DEF Successors
    <3> QED BY <3>1, <3>2
  <2>2. CASE ~(S \subseteq {n})
    <3> DEFINE T == S \ {n}
    <3>1. T \in SUBSET Operator /\ T # {}
      BY <2>2
    <3>2. \A m \in T : m \in Operator /\ mark[m] = 2
      BY <1>8
    <3>3. PICK m \in T : \A p \in T : <<m, p>> \notin graph
      BY <3>1, <3>2 DEF DagInv, FinishedAcyclic
    <3>4. <<m, n>> \notin graph
      <4>1. n \in Successors(m) => mark[n] = 2
        BY <3>2, <3>3 DEF DagInv, FinishedClosed
      <4> QED BY <4>1, <1>1 DEF Successors
    <3> QED BY <3>3, <3>4
  <2> QED BY <2>1, <2>2
<1>15. RootsReached'
  <2> SUFFICES ASSUME NEW m \in Operator, Successors(m) # {}
               PROVE  m \in roots \/ mark'[m] # 0
    BY <1>2, <1>7 DEF RootsReached
  <2>1. m \in roots \/ mark[m] # 0
    BY DEF DagInv, RootsReached
  <2> QED BY <2>1, <1>8
<1>16. ValidateDecides'
  BY <1>2 DEF DagInv, ValidateDecides
<1> QED BY <1>9, <1>11, <1>12, <1>13, <1>14, <1>15, <1>16 DEF DagInv

(* A search that has no root and no call left has finished every operator  *)
(* with an edge, so no operators form a cycle.                             *)
LEMMA FinishKeeps ==
  ASSUME DagInv, Finish
  PROVE  DagInv'
<1>1. /\ verdict = "running" /\ stack = <<>> /\ roots = {} /\ verdict' = "valid"
      /\ graph' = graph /\ mark' = mark /\ roots' = roots /\ stack' = stack
  BY DEF Finish
<1>2. \A n \in Operator : Successors(n) # {} => mark[n] = 2
  <2> SUFFICES ASSUME NEW n \in Operator, Successors(n) # {}
               PROVE  mark[n] = 2
    OBVIOUS
  <2>1. mark[n] # 0
    BY <1>1 DEF DagInv, RootsReached
  <2>2. mark[n] # 1
    BY <1>1 DEF DagInv, StackIsMarked
  <2>3. mark[n] \in 0..2
    BY DEF DagInv, DagTypeOK
  <2> QED BY <2>1, <2>2, <2>3
<1>3. Acyclic(graph)
  <2> SUFFICES ASSUME NEW S \in SUBSET Operator, S # {}
               PROVE  \E n \in S : \A m \in S : <<n, m>> \notin graph
    BY DEF Acyclic
  <2>1. CASE \E n \in S : Successors(n) = {}
    BY <2>1 DEF Successors
  <2>2. CASE \A n \in S : Successors(n) # {}
    BY <2>2, <1>2 DEF DagInv, FinishedAcyclic
  <2> QED BY <2>1, <2>2
<1>4. \A n \in Operator : Successors(n)' = Successors(n)
  BY <1>1 DEF Successors
<1>5. DagTypeOK' /\ StackIsMarked' /\ StackIsPath'
  BY <1>1 DEF DagInv, DagTypeOK, StackIsMarked, StackIsPath
<1>6. FinishedClosed' /\ FinishedAcyclic' /\ RootsReached'
  BY <1>1, <1>4 DEF DagInv, FinishedClosed, FinishedAcyclic, RootsReached
<1>7. ValidateDecides'
  BY <1>1, <1>3 DEF ValidateDecides, Acyclic
<1> QED BY <1>5, <1>6, <1>7 DEF DagInv

LEMMA DagStartInv == ValidateInit => DagInv
<1> SUFFICES ASSUME ValidateInit PROVE DagInv
  OBVIOUS
<1>1. DagTypeOK
  BY DEF ValidateInit, DagTypeOK
<1>2. StackIsMarked /\ StackIsPath
  BY DEF ValidateInit, StackIsMarked, StackIsPath
<1>3. FinishedClosed /\ FinishedAcyclic
  BY DEF ValidateInit, FinishedClosed, FinishedAcyclic
<1>4. RootsReached /\ ValidateDecides
  BY DEF ValidateInit, RootsReached, ValidateDecides
<1> QED BY <1>1, <1>2, <1>3, <1>4 DEF DagInv

LEMMA DagStepInv == DagInv /\ [ValidateNext]_dagVars => DagInv'
<1> SUFFICES ASSUME DagInv, [ValidateNext]_dagVars PROVE DagInv'
  OBVIOUS
<1>0. stack \in Seq(Frame)
  BY DEF DagInv, DagTypeOK
<1>1. ASSUME NEW n \in Operator, VisitRoot(n) PROVE DagInv'
  <2>1. Callers(<<>>, n)
    BY <1>1 DEF VisitRoot, Callers
  <2> QED BY <1>1, <2>1, VisitKeeps DEF VisitRoot
<1>2. ASSUME NEW n \in Operator, VisitNext(n) PROVE DagInv'
  <2> DEFINE top == [Head(stack) EXCEPT !.rest = @ \ {n}]
  <2>1. PICK c : c = <<top>> \o Tail(stack)
    OBVIOUS
  <2>2. /\ stack # <<>> /\ Len(stack) \in Nat /\ Head(stack) = stack[1]
        /\ stack[1] \in Frame /\ n \in stack[1].rest
    BY <1>0, <1>2 DEF VisitNext
  <2>3. top \in Frame /\ top.node = stack[1].node /\ top.rest = stack[1].rest \ {n}
    BY <2>2 DEF Frame
  <2>4. /\ Tail(stack) \in Seq(Frame) /\ Len(Tail(stack)) = Len(stack) - 1
        /\ \A i \in 1..(Len(stack) - 1) : Tail(stack)[i] = stack[i + 1]
    BY <1>0, <2>2
  <2>5. Visit(n, c) /\ graph' = graph /\ roots' = roots
    BY <1>2, <2>1 DEF VisitNext
  <2> HIDE DEF top
  <2>6. /\ c \in Seq(Frame) /\ Len(c) = Len(stack) /\ c[1] = top
        /\ \A i \in 1..Len(stack) : i > 1 => c[i] = Tail(stack)[i - 1]
    BY <2>1, <2>2, <2>3, <2>4, PushFacts
  <2>7. \A i \in 1..Len(stack) : i > 1 => c[i] = stack[i]
    BY <2>2, <2>4, <2>6
  <2>8. Callers(c, n)
    BY <2>2, <2>3, <2>6, <2>7 DEF Callers
  <2>9. verdict = "running"
    BY <2>2 DEF DagInv, StackIsMarked
  <2> QED BY <2>5, <2>8, <2>9, VisitKeeps
<1>3. CASE UNCHANGED dagVars
  <2>1. /\ graph' = graph /\ mark' = mark /\ roots' = roots /\ stack' = stack
        /\ verdict' = verdict
    BY <1>3 DEF dagVars
  <2>2. \A n : Successors(n)' = Successors(n)
    BY <2>1 DEF Successors
  <2>3. DagTypeOK' /\ StackIsMarked' /\ StackIsPath'
    BY <2>1, <2>2 DEF DagInv, DagTypeOK, StackIsMarked, StackIsPath
  <2>4. FinishedClosed' /\ FinishedAcyclic' /\ RootsReached'
    BY <2>1, <2>2 DEF DagInv, FinishedClosed, FinishedAcyclic, RootsReached
  <2>5. ValidateDecides'
    BY <2>1 DEF DagInv, ValidateDecides
  <2> QED BY <2>3, <2>4, <2>5 DEF DagInv
<1> QED BY <1>1, <1>2, <1>3, ReturnKeeps, FinishKeeps DEF ValidateNext

(***************************************************************************)
(* The invariant of the search holds in every state of every search.       *)
(***************************************************************************)
THEOREM DagInvariant == ValidateSpec => []DagInv
BY DagStartInv, DagStepInv, PTL DEF ValidateSpec

(***************************************************************************)
(* DAG.Validate decides acyclicity (dag.go): for every set of operators,   *)
(* every graph over it and every order of the search, it returns an error  *)
(* exactly if the edges close a cycle.                                     *)
(***************************************************************************)
THEOREM ValidateDecidesHolds == ValidateSpec => []ValidateDecides
<1>1. DagInv => ValidateDecides
  BY DEF DagInv
<1> QED BY <1>1, DagInvariant, PTL
=============================================================================
