-------------------------------- MODULE Sink --------------------------------
(***************************************************************************)
(* The sink (internal/sink/sink.go): records wait in a pending list and    *)
(* are committed up to a sequence barrier.  A record is its sequence       *)
(* number; nothing looks at its key and value.                             *)
(***************************************************************************)
EXTENDS Integers, SequencesExt

VARIABLES
  unflushed,   \* Sink.pending
  flushed,     \* Sink.committed
  nextSeq      \* Sink.nextSeq

sinkVars == <<unflushed, flushed, nextSeq>>

SinkInit ==
  /\ unflushed = <<>>
  /\ flushed = <<>>
  /\ nextSeq = 1

(* Sink.Write *)
Write ==
  /\ unflushed' = Append(unflushed, nextSeq)
  /\ nextSeq' = nextSeq + 1
  /\ UNCHANGED flushed

(* One turn of the loop of Sink.CommitUpTo: a record is committed or kept. *)
MutDeliver(acc, rec, barrier) ==
  IF rec = barrier THEN [acc EXCEPT !.done = Append(@, rec)]
                   ELSE [acc EXCEPT !.kept = Append(@, rec)]

Deliver(acc, rec, barrier) ==
  IF rec <= barrier THEN [acc EXCEPT !.done = Append(@, rec)]
                    ELSE [acc EXCEPT !.kept = Append(@, rec)]

(* The loop over the records, starting from the committed list. *)
DeliverAll(done, recs, barrier) ==
  FoldLeft(LAMBDA acc, rec : Deliver(acc, rec, barrier),
           [done |-> done, kept |-> <<>>], recs)

(* Sink.CommitUpTo *)
CommitUpTo(barrier) ==
  LET end == DeliverAll(flushed, unflushed, barrier) IN
  /\ flushed' = end.done
  /\ unflushed' = end.kept
  /\ UNCHANGED nextSeq
=============================================================================
