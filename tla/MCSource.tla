------------------------------ MODULE MCSource ------------------------------
(***************************************************************************)
(* Small instances of Source: three events of which two share a timestamp, *)
(* so that ties, overtaking and late arrivals all happen.                  *)
(***************************************************************************)
EXTENDS Source

CONSTANTS e1, e2, e3

MCTs == [e \in Event |-> IF e = e1 THEN 1 ELSE 2]

MCOff == [e \in Event |-> IF e = e1 THEN 2 ELSE IF e = e2 THEN 0 ELSE 1]

MCVal == [e \in Event |-> 1]
=============================================================================
