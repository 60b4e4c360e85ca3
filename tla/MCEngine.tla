------------------------------ MODULE MCEngine ------------------------------
(***************************************************************************)
(* Small instances of Engine: two events that share the only window, of    *)
(* size 2, delivered against their offset order.  The goroutines are       *)
(* interchangeable.                                                        *)
(***************************************************************************)
EXTENDS Engine

CONSTANTS e1, e2, o1, o2

MCTs == [e \in Event |-> 1]

MCOff == [e \in Event |-> IF e = e1 THEN 1 ELSE 0]

MCVal == [e \in Event |-> IF e = e1 THEN 3 ELSE 5]

MCEdges == {<<o1, o2>>}

Symmetry == Permutations(Thread)
=============================================================================
