------------------------------ MODULE Results -------------------------------
(***************************************************************************)
(* Window results (internal/model/result.go), what the aggregation store   *)
(* does to one (internal/agg/agg.go) and how the combiner merges two of    *)
(* the same window (internal/agg/combiner.go).                             *)
(***************************************************************************)
EXTENDS Integers, SequencesExt

(* The zero WindowResult the store creates on demand. *)
NewResult == [count |-> 0, sum |-> 0, min |-> 0, max |-> 0,
              emitted |-> FALSE, lateCount |-> 0, lateSum |-> 0]

(* WindowResult.Apply *)
MutApply(r, value) ==
  [r EXCEPT !.count = @ + 1, !.sum = @ + value,
            !.min = IF value < @ THEN value ELSE @,
            !.max = IF value > @ THEN value ELSE @]

Apply(r, value) ==
  [r EXCEPT !.count = @ + 1, !.sum = @ + value,
            !.min = IF r.count = 0 \/ value < @ THEN value ELSE @,
            !.max = IF value > @ THEN value ELSE @]

(* WindowResult.ApplyLate *)
MutApplyLate(r, value) ==
  [r EXCEPT !.sum = @ + value, !.lateCount = @ + 1, !.lateSum = @ + value]

ApplyLate(r, value) ==
  [r EXCEPT !.lateCount = @ + 1, !.lateSum = @ + value]

(* Store.LateUpdate: the published fields of the result stay. *)
LateUpdate(r, value) == ApplyLate(r, value)

(* The loop of Store.EmitResult. *)
ApplyAll(r, vals) == FoldLeft(Apply, r, vals)

(* Store.EmitResult: an emitted result is left as it is. *)
EmitResult(r, vals) ==
  IF r.emitted THEN r ELSE [ApplyAll(r, vals) EXCEPT !.emitted = TRUE]

(* One step of Combiner.Combine: result r joins the target of its window.  *)
(* The count is added before Min is decided.                               *)
MutMerge(target, r) ==
  [target EXCEPT !.count = @ + r.count, !.sum = @ + r.sum,
                 !.lateCount = @ + r.lateCount, !.lateSum = @ + r.lateSum,
                 !.min = IF r.min < @ THEN r.min ELSE @,
                 !.max = IF r.max > @ THEN r.max ELSE @,
                 !.emitted = @ \/ r.emitted]

Merge(target, r) ==
  [target EXCEPT !.count = @ + r.count, !.sum = @ + r.sum,
                 !.lateCount = @ + r.lateCount, !.lateSum = @ + r.lateSum,
                 !.min = IF r.min < @ \/ target.count + r.count = r.count
                         THEN r.min ELSE @,
                 !.max = IF r.max > @ THEN r.max ELSE @,
                 !.emitted = @ \/ r.emitted]
=============================================================================
