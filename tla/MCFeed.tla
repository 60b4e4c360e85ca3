------------------------------- MODULE MCFeed -------------------------------
(***************************************************************************)
(* The demo with its own script, for long enough that four pauses, three   *)
(* retries and the step back of the jitter at event 86 occur, and with a   *)
(* stop at any moment.  The buffer has 8 places where the demo has 256, so *)
(* that an event would be evicted if more of them waited.                  *)
(***************************************************************************)
EXTENDS Feed

CONSTANTS aggregate, track, commit

MCEvent == 0..(MaxEvents - 1)

MCTs == [i \in MCEvent |-> GeneratedTs(i)]

MCOff == [i \in MCEvent |-> i]

MCVal == [i \in MCEvent |-> GeneratedValue(i)]

MCPing == {i \in MCEvent : IsPing(i)}

MCTarget == 0..(60 * MaxEvents + 12000)

MCEdges == {<<aggregate, commit>>, <<track, commit>>}
=============================================================================
