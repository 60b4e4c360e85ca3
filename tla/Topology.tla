------------------------------ MODULE Topology ------------------------------
(***************************************************************************)
(* The operator manager with its pause buffer, the operator graph and the  *)
(* set of applied offsets: internal/topology/topology.go, dag.go,          *)
(* internal/model/operator.go and the applied set of internal/state.       *)
(*                                                                         *)
(* Manager.mu is held for the whole of every method.  Resume applies the   *)
(* buffered events one by one, and the operators behind apply have locks   *)
(* of their own, so other components run between two of its iterations:    *)
(* Resume is a begin, one step per event and an end, and `replaying' says  *)
(* that it holds Manager.mu.                                               *)
(***************************************************************************)
EXTENDS Dag, Events, Sequences, Functions

VARIABLES
  instances,   \* state of each operator instance, "absent" if unregistered
  edges,       \* DAG.edges
  paused,      \* Manager.paused
  parked,      \* Manager.buffer as a set: a second copy is always skipped
  applied,     \* Store.applied, the offsets passed to apply
  replaying,   \* Resume is inside its loop and holds Manager.mu
  todo,        \* events of `sorted' the loop has not reached
  replayed,    \* Resume's result
  received,    \* history: events Process accepted
  outputs      \* history: events passed to apply, in order

resumeVars == <<replaying, todo, replayed>>
topologyVars == <<instances, edges, paused, parked, applied, resumeVars,
                  received, outputs>>

(* NewManager, with operators and edges already registered. *)
TopologyStart(ops, E) ==
  /\ instances = ops
  /\ edges = E
  /\ paused = FALSE
  /\ parked = {}
  /\ applied = {}
  /\ replaying = FALSE
  /\ todo = {}
  /\ replayed = <<>>
  /\ received = {}
  /\ outputs = <<>>

TopologyInit == TopologyStart([o \in Operator |-> "absent"], {})
-----------------------------------------------------------------------------
(* Manager.AddOperator: a second registration replaces the instance. *)
AddOperator(o) ==
  /\ ~replaying
  /\ instances' = [instances EXCEPT ![o] = "running"]
  /\ UNCHANGED <<edges, paused, parked, applied, resumeVars, received,
                 outputs>>

(* Manager.Connect: an edge that closes a cycle is reported, and kept. *)
Connect(from, to) ==
  /\ ~replaying
  /\ instances[from] # "absent"
  /\ instances[to] # "absent"
  /\ edges' = edges \cup {<<from, to>>}
  /\ UNCHANGED <<instances, paused, parked, applied, resumeVars, received,
                 outputs>>

(* Store.IsApplied *)
IsApplied(e) == Off[e] \in applied

(* Store.MarkApplied *)
MarkApplied(e) == applied' = applied \cup {Off[e]}

(* Manager.applyLocked *)
MutApplyLocked(e) == MarkApplied(e) /\ outputs' = Append(outputs, e)

MutMarkOnly(e) == MarkApplied(e) /\ UNCHANGED outputs

ApplyLocked(e) ==
  \/ /\ IsApplied(e)
     /\ UNCHANGED <<applied, outputs>>
  \/ /\ ~IsApplied(e)
     /\ MarkApplied(e)
     /\ outputs' = Append(outputs, e)

(* Manager.Process *)
Process(e) ==
  /\ ~replaying
  /\ received' = received \cup {e}
  /\ \/ /\ paused
        /\ parked' = parked \cup {e}
        /\ UNCHANGED <<applied, outputs>>
     \/ /\ ~paused
        /\ ApplyLocked(e)
        /\ UNCHANGED parked
  /\ UNCHANGED <<instances, edges, paused, resumeVars>>

(* Manager.ApplyNow: applies even while paused. *)
ApplyNow(e) ==
  /\ ~replaying
  /\ received' = received \cup {e}
  /\ ApplyLocked(e)
  /\ UNCHANGED <<instances, edges, paused, parked, resumeVars>>

(* Moves every instance in state `from' to state `to'. *)
Shift(from, to) ==
  [o \in Operator |-> IF instances[o] = from THEN to ELSE instances[o]]

(* Manager.Pause *)
Pause ==
  /\ ~replaying
  /\ paused' = TRUE
  /\ instances' = Shift("running", "pausing")
  /\ UNCHANGED <<edges, parked, applied, resumeVars, received, outputs>>

(* Manager.Resume on a cyclic graph: the buffer is dropped, the topology   *)
(* runs again and the instances keep their state.                          *)
ResumeCyclic ==
  /\ ~replaying
  /\ paused
  /\ ~Acyclic(edges)
  /\ parked' = {}
  /\ paused' = FALSE
  /\ UNCHANGED <<instances, edges, applied, resumeVars, received, outputs>>

(* Manager.Resume up to its loop. *)
ResumeBegin ==
  /\ ~replaying
  /\ paused
  /\ Acyclic(edges)
  /\ replaying' = TRUE
  /\ todo' = parked
  /\ replayed' = <<>>
  /\ UNCHANGED <<instances, edges, paused, parked, applied, received, outputs>>

(* The least offset comes first: sort.Slice over the buffer's copy. *)
MutFirst(S) == S

First(S) == {e \in S : \A f \in S : Off[e] <= Off[f]}

(* One iteration of the loop of Resume. *)
ReplayNext(e) ==
  /\ replaying
  /\ e \in First(todo)
  /\ todo' = todo \ {e}
  /\ ApplyLocked(e)
  /\ replayed' = IF IsApplied(e) THEN replayed ELSE Append(replayed, e)
  /\ UNCHANGED <<instances, edges, paused, parked, replaying, received>>

(* Resume after its loop. *)
MutResumeEnd ==     \* the loop ends at a record that is already applied
  /\ replaying
  /\ \A e \in First(todo) : IsApplied(e)
  /\ replaying' = FALSE
  /\ parked' = {}
  /\ paused' = FALSE
  /\ instances' = Shift("pausing", "resumed")
  /\ UNCHANGED <<edges, applied, todo, replayed, received, outputs>>

ResumeEnd ==
  /\ replaying
  /\ todo = {}
  /\ replaying' = FALSE
  /\ parked' = {}
  /\ paused' = FALSE
  /\ instances' = Shift("pausing", "resumed")
  /\ UNCHANGED <<edges, applied, todo, replayed, received, outputs>>

TopologyNext ==
  \/ \E o \in Operator : AddOperator(o)
  \/ \E from, to \in Operator : Connect(from, to)
  \/ \E e \in Event : Process(e) \/ ApplyNow(e) \/ ReplayNext(e)
  \/ Pause
  \/ ResumeCyclic
  \/ ResumeBegin
  \/ ResumeEnd

TopologySpec == TopologyInit /\ [][TopologyNext]_topologyVars
-----------------------------------------------------------------------------
TopologyTypeOK ==
  /\ instances \in [Operator -> {"absent", "running", "pausing", "resumed"}]
  /\ edges \subseteq Operator \X Operator
  /\ paused \in BOOLEAN
  /\ parked \subseteq Event
  /\ applied \subseteq Int
  /\ replaying \in BOOLEAN
  /\ todo \subseteq parked
  /\ replayed \in Seq(Event)
  /\ received \subseteq Event
  /\ outputs \in Seq(Event)

(***************************************************************************)
(* Applied at most once (topology.go, applyLocked and Resume): however     *)
(* Process, ApplyNow and resumes interleave, and however often a record is *)
(* handed in, apply sees it at most once, and the applied offsets are      *)
(* exactly those of the records apply saw.                                 *)
(***************************************************************************)
AppliedOnce ==
  /\ applied = {Off[e] : e \in Range(outputs)}
  /\ \A i, j \in DOMAIN outputs : outputs[i] = outputs[j] => i = j

(***************************************************************************)
(* Nothing is stranded (topology.go, Process and Resume): as long as the   *)
(* graph is acyclic, a received record was applied or waits in the buffer; *)
(* a running topology has an empty buffer; and during a resume a buffered  *)
(* record was applied or is still to come.  Of a topology that was given a *)
(* cycle only the last two are said: see NoneSkipped.                      *)
(***************************************************************************)
Accounted ==
  /\ Acyclic(edges) => received \subseteq Range(outputs) \cup parked
  /\ ~paused => parked = {}
  /\ replaying => \A e \in parked : e \in todo \/ IsApplied(e)

(***************************************************************************)
(* What topology.go says of the Manager: on resume, records are neither    *)
(* replayed twice nor skipped.  Every received record was applied or waits *)
(* in the buffer.                                                          *)
(***************************************************************************)
NoneSkipped == received \subseteq Range(outputs) \cup parked

(***************************************************************************)
(* Replay in offset order (topology.go, Resume): the replayed records are  *)
(* in increasing offset order, and no record still to be replayed comes    *)
(* before one that was.                                                    *)
(***************************************************************************)
ReplayInOffsetOrder ==
  /\ \A i, j \in DOMAIN replayed : i < j => Off[replayed[i]] < Off[replayed[j]]
  /\ \A e \in todo : \A f \in Range(replayed) : Off[f] < Off[e]
=============================================================================
