----------------------------- MODULE MCTopology -----------------------------
(***************************************************************************)
(* Small instances of Topology: offsets in an order of their own, so that  *)
(* the arrival order and the offset order differ.                          *)
(***************************************************************************)
EXTENDS Topology

CONSTANTS e1, e2, e3

MCTs == [e \in Event |-> 0]

MCOff == [e \in Event |-> IF e = e1 THEN 2 ELSE IF e = e2 THEN 0 ELSE 1]

MCVal == [e \in Event |-> 1]
=============================================================================
