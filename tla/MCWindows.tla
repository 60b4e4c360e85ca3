----------------------------- MODULE MCWindows ------------------------------
(***************************************************************************)
(* A small instance of the window layer with windows of size 2.  e1, e2    *)
(* and e3 share the window at 0, e1 from before 0 since the division       *)
(* truncates toward zero, and e4 is alone in the next window.  Values have *)
(* both signs.                                                             *)
(***************************************************************************)
EXTENDS WindowLayer

CONSTANTS e1, e2, e3, e4

MCTs == e1 :> -1 @@ e2 :> 1 @@ e3 :> 0 @@ e4 :> 3

MCOff == MCTs

MCVal == e1 :> -3 @@ e2 :> 5 @@ e3 :> 4 @@ e4 :> -2
=============================================================================
