-------------------------------- MODULE Dag ---------------------------------
(***************************************************************************)
(* The operator graph of internal/topology/dag.go and what it means for it *)
(* to be valid.                                                            *)
(***************************************************************************)
CONSTANT Operator     \* names of the operators

(* No operators can be chained into a cycle: in every nonempty set of them *)
(* some operator has no edge back into the set.                            *)
Acyclic(E) ==
  \A S \in SUBSET Operator :
    S # {} => \E n \in S : \A m \in S : <<n, m>> \notin E
=============================================================================
