---------------------------- MODULE DagValidate -----------------------------
(***************************************************************************)
(* The depth-first search of DAG.Validate (internal/topology/dag.go) with  *)
(* its recursion as an explicit stack.  A frame is an operator and the     *)
(* successors its loop has not visited.  Go iterates over the map adj in   *)
(* any order, so the choice of the next root is free; successors come in   *)
(* the order the edges were added, which is any order too.                 *)
(***************************************************************************)
EXTENDS Dag, Naturals, Sequences

VARIABLES
  graph,     \* DAG.edges when Validate is called
  mark,      \* state[node]: 0 unvisited, 1 on the stack, 2 finished
  roots,     \* keys of adj the outer loop has not reached
  stack,     \* the active calls of visit, innermost first
  verdict    \* "running", "valid" or "cycle"

dagVars == <<graph, mark, roots, stack, verdict>>

Successors(n) == {m \in Operator : <<n, m>> \in graph}

ValidateInit ==
  /\ graph \in SUBSET (Operator \X Operator)
  /\ mark = [n \in Operator |-> 0]
  /\ roots = {n \in Operator : Successors(n) # {}}
  /\ stack = <<>>
  /\ verdict = "running"

(* A call visit(n) made with `callers' on the stack. *)
Visit(n, callers) ==
  \/ /\ mark[n] = 1
     /\ verdict' = "cycle"
     /\ stack' = <<>>
     /\ UNCHANGED mark
  \/ /\ mark[n] = 2
     /\ stack' = callers
     /\ UNCHANGED <<mark, verdict>>
  \/ /\ mark[n] = 0
     /\ mark' = [mark EXCEPT ![n] = 1]
     /\ stack' = <<[node |-> n, rest |-> Successors(n)]>> \o callers
     /\ UNCHANGED verdict

(* for node := range adj { visit(node) } *)
VisitRoot(n) ==
  /\ verdict = "running"
  /\ stack = <<>>
  /\ n \in roots
  /\ roots' = roots \ {n}
  /\ Visit(n, <<>>)
  /\ UNCHANGED graph

(* for _, next := range adj[node] { visit(next) } *)
MutVisitNext(n) ==
  /\ stack # <<>>
  /\ n \in Head(stack).rest
  /\ Visit(n, stack)
  /\ UNCHANGED <<graph, roots>>

VisitNext(n) ==
  /\ stack # <<>>
  /\ n \in Head(stack).rest
  /\ Visit(n, <<[Head(stack) EXCEPT !.rest = @ \ {n}]>> \o Tail(stack))
  /\ UNCHANGED <<graph, roots>>

(* state[node] = 2; return nil *)
MutReturn ==
  /\ stack # <<>>
  /\ Head(stack).rest = {}
  /\ stack' = Tail(stack)
  /\ UNCHANGED <<graph, mark, roots, verdict>>

Return ==
  /\ stack # <<>>
  /\ Head(stack).rest = {}
  /\ mark' = [mark EXCEPT ![Head(stack).node] = 2]
  /\ stack' = Tail(stack)
  /\ UNCHANGED <<graph, roots, verdict>>

(* The outer loop ends without an error. *)
Finish ==
  /\ verdict = "running"
  /\ stack = <<>>
  /\ roots = {}
  /\ verdict' = "valid"
  /\ UNCHANGED <<graph, mark, roots, stack>>

ValidateNext ==
  \/ \E n \in Operator : VisitRoot(n) \/ VisitNext(n)
  \/ Return
  \/ Finish

(* One goroutine runs the search to its end. *)
ValidateSpec ==
  ValidateInit /\ [][ValidateNext]_dagVars /\ WF_dagVars(ValidateNext)
-----------------------------------------------------------------------------
(***************************************************************************)
(* DAG.Validate decides acyclicity: whatever the graph and the order of    *)
(* the search, it reports a cycle exactly if there is one (dag.go).        *)
(***************************************************************************)
ValidateDecides ==
  /\ verdict = "valid" => Acyclic(graph)
  /\ verdict = "cycle" => ~Acyclic(graph)

(***************************************************************************)
(* DAG.Validate returns on every graph, cyclic ones included (dag.go).     *)
(***************************************************************************)
ValidateReturns == <>(verdict # "running")
=============================================================================
