------------------------------ MODULE Catalog -------------------------------
(***************************************************************************)
(* The monitoring catalog of the windows: internal/window/catalog.go.      *)
(*                                                                         *)
(* The window manager makes its catalog calls while it holds Manager.mu,   *)
(* but the catalog has a lock of its own and the monitoring page reads it  *)
(* with that lock only: a call is a step that follows the change it        *)
(* reports.  The window's name and OpenedAt are left out.                  *)
(***************************************************************************)
EXTENDS Integers

VARIABLES
  catalog,    \* Catalog.entries; a missing entry is the row NoEntry
  call        \* the call the holder of Manager.mu makes next

catalogVars == <<catalog, call>>

NoEntry == [state |-> "absent", events |-> 0, late |-> 0, closedAt |-> 0]

NoCall == [op |-> "none", window |-> 0, at |-> 0]

CatalogInit(Windows) ==
  /\ catalog = [w \in Windows |-> NoEntry]
  /\ call = NoCall

(* A call looks its row up and creates it in the given state if it is      *)
(* missing.                                                                *)
Entry(row, state) ==
  IF row.state = "absent" THEN [row EXCEPT !.state = state] ELSE row

OpenEntry(row) == [Entry(row, "open") EXCEPT !.state = "open"]

RecordEvent(row) == [Entry(row, "open") EXCEPT !.events = @ + 1]

RecordLate(row) == [Entry(row, "closed") EXCEPT !.late = @ + 1]

(* The state of the new row in Close's lookup is taken for enough. *)
MutCloseEntry(row, at) == [Entry(row, "closed") EXCEPT !.closedAt = at]

CloseEntry(row, at) ==
  [Entry(row, "closed") EXCEPT !.state = "closed", !.closedAt = at]
-----------------------------------------------------------------------------
(* Catalog.Open; Ingest goes on to RecordEvent. *)
Open ==
  /\ call.op = "open"
  /\ catalog' = [catalog EXCEPT ![call.window] = OpenEntry(@)]
  /\ call' = [call EXCEPT !.op = "event"]

(* The other calls are the last one of their round. *)
Record(op, row) ==
  /\ call.op = op
  /\ catalog' = [catalog EXCEPT ![call.window] = row]
  /\ call' = NoCall

CatalogCall ==
  LET row == catalog[call.window] IN
  \/ Open
  \/ Record("event", RecordEvent(row))
  \/ Record("late", RecordLate(row))
  \/ Record("close", CloseEntry(row, call.at))
=============================================================================
