---------------------------- MODULE MCCheckpoint ----------------------------
(***************************************************************************)
(* A small instance of Checkpoint: three events, two keys and rounds of    *)
(* two keys.  The goroutines are interchangeable.                          *)
(***************************************************************************)
EXTENDS Checkpoint

CONSTANTS k1, k2

MCKeyOf == [offset \in 0..(MaxEvents - 1) |-> IF offset = 1 THEN k2 ELSE k1]

Symmetry == Permutations(Thread)
=============================================================================
