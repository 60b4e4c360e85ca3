------------------------------ MODULE MCKeyed -------------------------------
(***************************************************************************)
(* A small instance of Keyed.  Four data events and a ping share one key,  *)
(* two of the data events at the same time and the last a gap of 2 away;   *)
(* another key has one event of its own.  The keys share a partition under *)
(* two partitions and move apart under three.                              *)
(***************************************************************************)
EXTENDS Keyed, TLC

CONSTANTS e1, e2, e3, e4, f1, p1, k1, k2

MCTs == e1 :> 1 @@ e2 :> 1 @@ p1 :> 3 @@ e3 :> 5 @@ e4 :> 8 @@ f1 :> 2

MCKeyOf == f1 :> k2 @@ [e \in Event \ {f1} |-> k1]

MCHome == k1 :> (1 :> 0 @@ 2 :> 1 @@ 3 :> 2)
          @@ k2 :> (1 :> 0 @@ 2 :> 1 @@ 3 :> 0)
=============================================================================
