-------------------------------- MODULE Keys --------------------------------
(***************************************************************************)
(* The keys of the events, by which sessions and partitions are kept.      *)
(***************************************************************************)
CONSTANT Key
=============================================================================
