---------------------------- MODULE WindowProofs ----------------------------
(***************************************************************************)
(* The window layer publishes, for every window and exactly once, the      *)
(* aggregate of the events it accepted, never before the watermark has     *)
(* passed its end: an inductive invariant of WindowLayer and its proof,    *)
(* for any events, goroutines and watermarks, and the facts about folding  *)
(* and merging results that it rests on; and what the catalog shows of it. *)
(***************************************************************************)
EXTENDS WindowLayer, DataTheorems
-----------------------------------------------------------------------------
(***************************************************************************)
(* Folding values into a result (result.go, Apply; agg.go, EmitResult).    *)
(***************************************************************************)
LEMMA ApplyType ==
  ASSUME NEW r \in ResultType, NEW v \in Int
  PROVE  /\ Apply(r, v) \in ResultType
         /\ Apply(r, v).count = r.count + 1
         /\ Apply(r, v).sum = r.sum + v
         /\ Apply(r, v).min = IF r.count = 0 \/ v < r.min THEN v ELSE r.min
         /\ Apply(r, v).max = IF v > r.max THEN v ELSE r.max
         /\ Apply(r, v).emitted = r.emitted
         /\ Apply(r, v).lateCount = r.lateCount
         /\ Apply(r, v).lateSum = r.lateSum
<1> DEFINE least == IF r.count = 0 \/ v < r.min THEN v ELSE r.min
           most == IF v > r.max THEN v ELSE r.max
           next == [count |-> r.count + 1, sum |-> r.sum + v, min |-> least,
                    max |-> most, emitted |-> r.emitted,
                    lateCount |-> r.lateCount, lateSum |-> r.lateSum]
<1>1. Apply(r, v) = [r EXCEPT !.count = r.count + 1, !.sum = r.sum + v,
                              !.min = least, !.max = most]
  BY DEF Apply
<1>2. least \in Int /\ most \in Int
  BY DEF ResultType
<1> HIDE DEF least, most
<1>3. Apply(r, v) = next
  BY <1>1 DEF ResultType
<1>4. next \in ResultType
  BY <1>2 DEF ResultType
<1> USE DEF least, most
<1> QED BY <1>3, <1>4

LEMMA LateType ==
  ASSUME NEW r \in ResultType, NEW v \in Int
  PROVE  /\ LateUpdate(r, v) \in ResultType
         /\ LateUpdate(r, v).lateCount = r.lateCount + 1
         /\ LateUpdate(r, v).lateSum = r.lateSum + v
         /\ LateUpdate(r, v).count = r.count
         /\ LateUpdate(r, v).sum = r.sum
         /\ LateUpdate(r, v).min = r.min
         /\ LateUpdate(r, v).max = r.max
         /\ LateUpdate(r, v).emitted = r.emitted
<1> DEFINE more == r.lateCount + 1
           total == r.lateSum + v
           next == [count |-> r.count, sum |-> r.sum, min |-> r.min,
                    max |-> r.max, emitted |-> r.emitted,
                    lateCount |-> more, lateSum |-> total]
<1>1. LateUpdate(r, v) = [r EXCEPT !.lateCount = more, !.lateSum = total]
  BY DEF LateUpdate, ApplyLate
<1>2. more \in Nat /\ total \in Int
  BY DEF ResultType
<1> HIDE DEF more, total
<1>3. LateUpdate(r, v) = next
  BY <1>1 DEF ResultType
<1>4. next \in ResultType
  BY <1>2 DEF ResultType
<1> USE DEF more, total
<1> QED BY <1>3, <1>4

(* Applies the value at an index to a result. *)
Applier(vals, S) == [i \in S |-> [r \in ResultType |-> Apply(r, vals[i])]]

LEMMA ApplyCanFold ==
  ASSUME NEW n \in Nat, NEW vals, \A i \in 1..n : vals[i] \in Int,
         NEW r \in ResultType
  PROVE  CanFold(1..n, ResultType, r, LastPicker(1..n), Applier(vals, 1..n))
<1>1. IsChoice(LastPicker(1..n), 1..n)
  BY LastPickerChoice
<1>2. IsOperation(Applier(vals, 1..n), 1..n, ResultType)
  BY ApplyType DEF IsOperation, Applier
<1>3. IsFiniteSet(1..n)
  BY FS_Interval
<1> QED BY <1>1, <1>2, <1>3 DEF CanFold

(* What EmitResult computes is a fold. *)
LEMMA ApplyIsFold ==
  ASSUME NEW n \in Nat, NEW vals, DOMAIN vals = 1..n,
         \A i \in 1..n : vals[i] \in Int, NEW r \in ResultType
  PROVE  \E g \in [SUBSET (1..n) -> ResultType] :
           /\ IsFold(g, LastPicker(1..n), Applier(vals, 1..n), r, 1..n)
           /\ ApplyAll(r, vals) = g[1..n]
<1> DEFINE S == 1..n
           Body(g) == [s \in SUBSET S |->
                         IF s = {} THEN r ELSE Apply(g[s \ {Max(s)}], vals[Max(s)])]
           it == CHOOSE iter : iter = Body(iter)
<1>1. PICK g \in [SUBSET S -> ResultType] :
        IsFold(g, LastPicker(S), Applier(vals, S), r, S)
  <2>1. HasFold(S, ResultType, r, LastPicker(S), Applier(vals, S))
    BY ApplyCanFold, FoldExists
  <2> QED BY <2>1 DEF HasFold
<1>2. \A s \in SUBSET S : s # {} =>
        /\ LastPicker(S)[s] = Max(s)
        /\ Max(s) \in s
        /\ Max(s) \in S
        /\ s \ {Max(s)} \in SUBSET S
  BY MaxIndex DEF LastPicker
<1>3. \A s \in SUBSET S : g[s] = Body(g)[s]
  <2> SUFFICES ASSUME NEW s \in SUBSET S PROVE g[s] = Body(g)[s]
    OBVIOUS
  <2>1. CASE s = {}
    BY <1>1, <2>1 DEF IsFold
  <2>2. CASE s # {}
    <3>1. g[s] = Applier(vals, S)[Max(s)][g[s \ {Max(s)}]]
      BY <1>1, <1>2, <2>2 DEF IsFold
    <3>2. g[s \ {Max(s)}] \in ResultType
      BY <1>1, <1>2, <2>2
    <3>3. g[s] = Apply(g[s \ {Max(s)}], vals[Max(s)])
      BY <1>2, <2>2, <3>1, <3>2 DEF Applier
    <3> QED BY <2>2, <3>3
  <2> QED BY <2>1, <2>2
<1>4. g = Body(g)
  BY <1>1, <1>3
<1>5. it = Body(it)
  <2> HIDE DEF Body
  <2> QED BY <1>4
<1>6. ApplyAll(r, vals) = it[S]
  BY DEF ApplyAll, FoldLeft, MapThenFoldSet
<1>7. it[S] = g[S]
  <2> DEFINE G == {s \in SUBSET S : it[s] = g[s]}
  <2>1. /\ \A s \in SUBSET S : s # {} =>
             /\ it[s] = Apply(it[s \ {Max(s)}], vals[Max(s)])
             /\ g[s] = Apply(g[s \ {Max(s)}], vals[Max(s)])
        /\ it[{}] = r /\ g[{}] = r
    <3>1. ASSUME NEW i, i = Body(i)
          PROVE  /\ \A s \in SUBSET S : s # {} =>
                      i[s] = Apply(i[s \ {Max(s)}], vals[Max(s)])
                 /\ i[{}] = r
      BY <1>2, <3>1
    <3> HIDE DEF Body, it
    <3> QED BY <1>4, <1>5, <3>1
  <2> HIDE DEF it
  <2>2. ASSUME NEW s \in SUBSET S, \A t \in SUBSET s : t # s => t \in G
        PROVE  s \in G
    <3>1. CASE s = {}
      BY <2>1, <3>1
    <3>2. CASE s # {}
      <4>1. s \ {Max(s)} \in SUBSET s /\ s \ {Max(s)} # s
        BY <1>2, <3>2
      <4>2. it[s \ {Max(s)}] = g[s \ {Max(s)}]
        BY <2>2, <4>1
      <4> QED BY <2>1, <3>2, <4>2
    <3> QED BY <3>1, <3>2
  <2>3. S \in G
    <3>1. Hereditary(G, S)
      BY <2>2 DEF Hereditary
    <3>2. IsFiniteSet(S)
      BY FS_Interval
    <3> HIDE DEF G, S
    <3> QED BY <3>1, <3>2, AllSubsets
  <2> QED BY <2>3
<1> HIDE DEF it
<1> QED BY <1>1, <1>6, <1>7

LEMMA FoldEmpty ==
  ASSUME NEW r \in ResultType
  PROVE  ApplyAll(r, <<>>) = r
<1>1. /\ DOMAIN <<>> = 1..0 /\ 1..0 = {} /\ 0 \in Nat
      /\ \A i \in 1..0 : <<>>[i] \in Int
  OBVIOUS
<1>2. PICK g \in [SUBSET (1..0) -> ResultType] :
        /\ IsFold(g, LastPicker(1..0), Applier(<<>>, 1..0), r, 1..0)
        /\ ApplyAll(r, <<>>) = g[1..0]
  BY <1>1, ApplyIsFold
<1> QED BY <1>1, <1>2 DEF IsFold

LEMMA FoldResultType ==
  ASSUME NEW r \in ResultType, NEW vals \in Seq(Int)
  PROVE  ApplyAll(r, vals) \in ResultType
<1> DEFINE n == Len(vals)
           S == 1..n
<1>1. n \in Nat /\ DOMAIN vals = S /\ \A i \in S : vals[i] \in Int
  BY LenProperties, ElementOfSeq
<1> HIDE DEF n
<1>2. PICK g \in [SUBSET S -> ResultType] : ApplyAll(r, vals) = g[S]
  BY <1>1, ApplyIsFold
<1> HIDE DEF S
<1>3. S \in SUBSET S
  OBVIOUS
<1> QED BY <1>2, <1>3

(* One value more is one Apply more. *)
LEMMA FoldAppend ==
  ASSUME NEW r \in ResultType, NEW vals \in Seq(Int), NEW v \in Int
  PROVE  ApplyAll(r, Append(vals, v)) = Apply(ApplyAll(r, vals), v)
<1> DEFINE n == Len(vals)
           m == n + 1
           all == Append(vals, v)
           S == 1..m
           R == 1..n
<1>1. n \in Nat /\ DOMAIN vals = R /\ \A i \in R : vals[i] \in Int
  BY LenProperties, ElementOfSeq
<1>2. /\ all \in Seq(Int) /\ Len(all) = m /\ all[m] = v
      /\ \A i \in R : all[i] = vals[i]
  BY AppendProperties
<1>3. m \in Nat /\ DOMAIN all = S /\ \A i \in S : all[i] \in Int
  BY <1>1, <1>2, LenProperties, ElementOfSeq
<1> HIDE DEF n, all
<1>4. R \subseteq S /\ m \in S
  BY <1>1
<1>5. PICK g \in [SUBSET S -> ResultType] :
        /\ IsFold(g, LastPicker(S), Applier(all, S), r, S)
        /\ ApplyAll(r, all) = g[S]
  BY <1>3, ApplyIsFold
<1>6. PICK h \in [SUBSET R -> ResultType] :
        /\ IsFold(h, LastPicker(R), Applier(vals, R), r, R)
        /\ ApplyAll(r, vals) = h[R]
  BY <1>1, ApplyIsFold
<1>7. \A i \in R : Applier(all, S)[i] = Applier(vals, R)[i]
  BY <1>2, <1>4 DEF Applier
<1>8. g[S] = Applier(all, S)[m][h[R]] /\ h[R] \in ResultType
  <2>1. /\ IsSeqFold(g, n + 1, ResultType, r, Applier(all, S))
        /\ IsSeqFold(h, n, ResultType, r, Applier(vals, R))
    BY <1>5, <1>6 DEF IsSeqFold
  <2> QED BY <1>1, <1>7, <2>1, FoldLast
<1>9. g[S] = Apply(h[R], all[m])
  BY <1>4, <1>8 DEF Applier
<1>10. ApplyAll(r, all) = Apply(ApplyAll(r, vals), v)
  BY <1>2, <1>5, <1>6, <1>9
<1> QED BY <1>10 DEF all
-----------------------------------------------------------------------------
(***************************************************************************)
(* Result r is the aggregate of the events in S.                           *)
(***************************************************************************)
Tally(r, S) ==
  /\ r.count = Cardinality(S)
  /\ r.sum = SumFunctionOnSet(Val, S)
  /\ \A e \in S : r.min <= Val[e] /\ Val[e] <= r.max
  /\ S # {} => \E e \in S : r.min = Val[e]
  /\ r.max >= 0
  /\ r.max = 0 \/ \E e \in S : r.max = Val[e]

LEMMA NewResultFacts ==
  NewResult \in ResultType /\ Tally(NewResult, {})
<1>1. Cardinality({}) = 0 /\ SumFunctionOnSet(Val, {}) = 0
  BY FS_EmptySet, SumEmpty
<1> QED BY <1>1 DEF NewResult, ResultType, Tally

LEMMA TallyAdd ==
  ASSUME NEW S, IsFiniteSet(S), S \subseteq Event, NEW e \in Event, e \notin S,
         NEW r \in ResultType, Tally(r, S)
  PROVE  Tally(Apply(r, Val[e]), S \cup {e})
<1> DEFINE T == S \cup {e}
           q == Apply(r, Val[e])
<1>1. Cardinality(T) = Cardinality(S) + 1 /\ Cardinality(S) \in Nat
  BY FS_AddElement, FS_CardinalityType
<1>2. \A f \in T : Val[f] \in Int
  BY EventAssumption
<1>3. SumFunctionOnSet(Val, T) = Val[e] + SumFunctionOnSet(Val, S)
  BY <1>2, SumAdd
<1>4. SumFunctionOnSet(Val, S) \in Int
  BY <1>2, SumType
<1>5. /\ q.count = r.count + 1
      /\ q.sum = r.sum + Val[e]
      /\ q.min = IF r.count = 0 \/ Val[e] < r.min THEN Val[e] ELSE r.min
      /\ q.max = IF Val[e] > r.max THEN Val[e] ELSE r.max
  BY <1>2, ApplyType
<1>6. r.min \in Int /\ r.max \in Int /\ r.sum \in Int
  BY DEF ResultType
<1>7. r.count = 0 <=> S = {}
  BY FS_EmptySet DEF Tally
<1> HIDE DEF q
<1>8. q.count = Cardinality(T) /\ q.sum = SumFunctionOnSet(Val, T)
  BY <1>1, <1>2, <1>3, <1>4, <1>5 DEF Tally
<1>9. \A f \in T : q.min <= Val[f] /\ Val[f] <= q.max
  BY <1>2, <1>5, <1>6, <1>7 DEF Tally
<1>10. \E f \in T : q.min = Val[f]
  BY <1>2, <1>5, <1>6, <1>7 DEF Tally
<1>11. q.max >= 0 /\ (q.max = 0 \/ \E f \in T : q.max = Val[f])
  BY <1>2, <1>5, <1>6 DEF Tally
<1> QED BY <1>8, <1>9, <1>10, <1>11 DEF Tally, q

(* Least and greatest element, as a tally knows them. *)
LEMMA MinMaxOf ==
  ASSUME NEW S, S \subseteq Int, NEW m \in S
  PROVE  /\ (\A y \in S : m <= y) => Min(S) = m
         /\ (\A y \in S : m >= y) => Max(S) = m
<1>1. ASSUME \A y \in S : m <= y PROVE Min(S) = m
  <2>1. Min(S) \in S /\ \A y \in S : Min(S) <= y
    BY <1>1 DEF Min
  <2>2. Min(S) \in Int /\ m \in Int /\ Min(S) <= m /\ m <= Min(S)
    BY <1>1, <2>1
  <2> QED BY <2>2
<1>2. ASSUME \A y \in S : m >= y PROVE Max(S) = m
  <2>1. Max(S) \in S /\ \A y \in S : Max(S) >= y
    BY <1>2 DEF Max
  <2>2. Max(S) \in Int /\ m \in Int /\ Max(S) >= m /\ m >= Max(S)
    BY <1>2, <2>1
  <2> QED BY <2>2
<1> QED BY <1>1, <1>2

LEMMA TallyMinMax ==
  ASSUME NEW S, S \subseteq Event, S # {}, NEW r \in ResultType, Tally(r, S)
  PROVE  /\ r.min = Min({Val[e] : e \in S})
         /\ (\E e \in S : Val[e] >= 0) => r.max = Max({Val[e] : e \in S})
<1> DEFINE A == {Val[e] : e \in S}
<1>1. A \subseteq Int
  BY EventAssumption
<1>2. r.min \in A /\ \A y \in A : r.min <= y
  BY DEF Tally
<1>3. ASSUME NEW e \in S, Val[e] >= 0
      PROVE  r.max \in A /\ \A y \in A : r.max >= y
  <2>1. r.max \in Int /\ \A f \in S : Val[f] \in Int
    BY EventAssumption DEF ResultType
  <2>2. \A f \in S : Val[f] <= r.max
    BY DEF Tally
  <2>3. r.max \in A
    <3>1. CASE r.max = 0
      <4>1. Val[e] = r.max
        BY <1>3, <2>1, <2>2, <3>1
      <4> QED BY <4>1
    <3>2. CASE r.max # 0
      BY <3>2 DEF Tally
    <3> QED BY <3>1, <3>2
  <2>4. \A y \in A : r.max >= y
    BY <2>1, <2>2
  <2> QED BY <2>3, <2>4
<1> HIDE DEF A
<1>4. r.min = Min(A) /\ ((\E e \in S : Val[e] >= 0) => r.max = Max(A))
  BY <1>1, <1>2, <1>3, MinMaxOf
<1> QED BY <1>4 DEF A
-----------------------------------------------------------------------------
(***************************************************************************)
(* Merging two partial results (combiner.go, Combine).                     *)
(***************************************************************************)
LEMMA ResultEqual ==
  ASSUME NEW r \in ResultType, NEW q \in ResultType,
         r.count = q.count, r.sum = q.sum, r.min = q.min, r.max = q.max,
         r.emitted = q.emitted, r.lateCount = q.lateCount, r.lateSum = q.lateSum
  PROVE  r = q
BY DEF ResultType

LEMMA MergeType ==
  ASSUME NEW r \in ResultType, NEW q \in ResultType
  PROVE  LET m == Merge(r, q) IN
         /\ m \in ResultType
         /\ m.count = r.count + q.count /\ m.sum = r.sum + q.sum
         /\ m.lateCount = r.lateCount + q.lateCount
         /\ m.lateSum = r.lateSum + q.lateSum
         /\ m.min = IF q.min < r.min \/ r.count = 0 THEN q.min ELSE r.min
         /\ m.max = IF q.max > r.max THEN q.max ELSE r.max
         /\ m.emitted = (r.emitted \/ q.emitted)
<1> DEFINE c == r.count + q.count
           a == r.sum + q.sum
           d == r.lateCount + q.lateCount
           b == r.lateSum + q.lateSum
           least == IF q.min < r.min \/ r.count + q.count = q.count
                    THEN q.min ELSE r.min
           most == IF q.max > r.max THEN q.max ELSE r.max
           out == r.emitted \/ q.emitted
           m == Merge(r, q)
           next == [count |-> c, sum |-> a, min |-> least, max |-> most,
                    emitted |-> out, lateCount |-> d, lateSum |-> b]
<1>1. m = [r EXCEPT !.count = c, !.sum = a, !.lateCount = d, !.lateSum = b,
                    !.min = least, !.max = most, !.emitted = out]
  BY DEF Merge
<1>2. c \in Nat /\ a \in Int /\ d \in Nat /\ b \in Int
  BY DEF ResultType
<1>3. least \in Int /\ most \in Int
  BY DEF ResultType
<1>4. out \in BOOLEAN
  BY Zenon DEF ResultType
<1>5. least = IF q.min < r.min \/ r.count = 0 THEN q.min ELSE r.min
  BY DEF ResultType
<1> HIDE DEF c, a, d, b, least, most, out, m
<1>6. m = next
  BY <1>1 DEF ResultType
<1>7. next \in ResultType
  BY <1>2, <1>3, <1>4 DEF ResultType
<1>8. /\ m.count = c /\ m.sum = a /\ m.lateCount = d /\ m.lateSum = b
      /\ m.min = least /\ m.max = most
  BY <1>6
<1>9. m.emitted = out
  BY <1>6
<1> QED BY <1>5, <1>6, <1>7, <1>8, <1>9 DEF c, a, d, b, most, out, m

(* Merging a nonempty partial result commutes with one more value. *)
LEMMA MergeApply ==
  ASSUME NEW r \in ResultType, NEW q \in ResultType, q.count > 0, NEW v \in Int
  PROVE  Merge(r, Apply(q, v)) = Apply(Merge(r, q), v)
<1> DEFINE s == Apply(q, v)
           m == Merge(r, q)
           one == Merge(r, s)
           two == Apply(m, v)
<1>1. /\ s \in ResultType /\ s.count = q.count + 1 /\ s.sum = q.sum + v
      /\ s.min = (IF q.count = 0 \/ v < q.min THEN v ELSE q.min)
      /\ s.max = (IF v > q.max THEN v ELSE q.max)
      /\ s.emitted = q.emitted
      /\ s.lateCount = q.lateCount /\ s.lateSum = q.lateSum
  BY ApplyType
<1>2. /\ m \in ResultType
      /\ m.count = r.count + q.count /\ m.sum = r.sum + q.sum
      /\ m.lateCount = r.lateCount + q.lateCount
      /\ m.lateSum = r.lateSum + q.lateSum
      /\ m.min = (IF q.min < r.min \/ r.count = 0 THEN q.min ELSE r.min)
      /\ m.max = (IF q.max > r.max THEN q.max ELSE r.max)
      /\ m.emitted = (r.emitted \/ q.emitted)
  BY MergeType
<1> HIDE DEF s, m
<1>3. /\ one \in ResultType
      /\ one.count = r.count + s.count /\ one.sum = r.sum + s.sum
      /\ one.lateCount = r.lateCount + s.lateCount
      /\ one.lateSum = r.lateSum + s.lateSum
      /\ one.min = (IF s.min < r.min \/ r.count = 0 THEN s.min ELSE r.min)
      /\ one.max = (IF s.max > r.max THEN s.max ELSE r.max)
      /\ one.emitted = (r.emitted \/ s.emitted)
  BY <1>1, MergeType
<1>4. /\ two \in ResultType /\ two.count = m.count + 1 /\ two.sum = m.sum + v
      /\ two.min = (IF m.count = 0 \/ v < m.min THEN v ELSE m.min)
      /\ two.max = (IF v > m.max THEN v ELSE m.max)
      /\ two.emitted = m.emitted
      /\ two.lateCount = m.lateCount /\ two.lateSum = m.lateSum
  BY <1>2, ApplyType
<1> HIDE DEF one, two
<1>5. /\ r.count \in Nat /\ q.count \in Nat /\ r.sum \in Int /\ q.sum \in Int
      /\ r.min \in Int /\ q.min \in Int /\ r.max \in Int /\ q.max \in Int
  BY DEF ResultType
<1>6. one.count = two.count /\ one.sum = two.sum
  BY <1>1, <1>2, <1>3, <1>4, <1>5
<1>7. one.min = two.min
  BY <1>1, <1>2, <1>3, <1>4, <1>5
<1>8. one.max = two.max
  BY <1>1, <1>2, <1>3, <1>4, <1>5
<1>9. one.lateCount = two.lateCount /\ one.lateSum = two.lateSum
  BY <1>1, <1>2, <1>3, <1>4
<1>10. one.emitted = two.emitted
  BY <1>1, <1>2, <1>3, <1>4
<1>11. one = two
  BY <1>3, <1>4, <1>6, <1>7, <1>8, <1>9, <1>10, ResultEqual
<1> QED BY <1>11 DEF one, two, s, m

(* Merging a partial result of one value is applying that value. *)
LEMMA MergeFirst ==
  ASSUME NEW r \in ResultType, r.max >= 0, NEW v \in Int
  PROVE  Merge(r, Apply(NewResult, v)) = Apply(r, v)
<1> DEFINE s == Apply(NewResult, v)
           one == Merge(r, s)
           two == Apply(r, v)
<1>1. /\ s \in ResultType /\ s.count = 1 /\ s.sum = v /\ s.min = v
      /\ s.max = (IF v > 0 THEN v ELSE 0)
      /\ s.lateCount = 0 /\ s.lateSum = 0
  <2>1. NewResult \in ResultType
    BY NewResultFacts
  <2>2. /\ NewResult.count = 0 /\ NewResult.sum = 0 /\ NewResult.max = 0
        /\ NewResult.lateCount = 0 /\ NewResult.lateSum = 0
    BY DEF NewResult
  <2>3. /\ s \in ResultType /\ s.count = NewResult.count + 1
        /\ s.sum = NewResult.sum + v
        /\ s.min = (IF NewResult.count = 0 \/ v < NewResult.min
                    THEN v ELSE NewResult.min)
        /\ s.max = (IF v > NewResult.max THEN v ELSE NewResult.max)
        /\ s.lateCount = NewResult.lateCount /\ s.lateSum = NewResult.lateSum
    BY <2>1, ApplyType
  <2> HIDE DEF s
  <2> QED BY <2>2, <2>3
<1>2. ~s.emitted
  <2>1. NewResult \in ResultType /\ s.emitted = NewResult.emitted
    BY NewResultFacts, ApplyType
  <2> QED BY <2>1 DEF NewResult
<1> HIDE DEF s
<1>3. /\ one \in ResultType
      /\ one.count = r.count + s.count /\ one.sum = r.sum + s.sum
      /\ one.lateCount = r.lateCount + s.lateCount
      /\ one.lateSum = r.lateSum + s.lateSum
      /\ one.min = (IF s.min < r.min \/ r.count = 0 THEN s.min ELSE r.min)
      /\ one.max = (IF s.max > r.max THEN s.max ELSE r.max)
      /\ one.emitted = (r.emitted \/ s.emitted)
  BY <1>1, MergeType
<1>4. /\ two \in ResultType /\ two.count = r.count + 1 /\ two.sum = r.sum + v
      /\ two.min = (IF r.count = 0 \/ v < r.min THEN v ELSE r.min)
      /\ two.max = (IF v > r.max THEN v ELSE r.max)
      /\ two.emitted = r.emitted
      /\ two.lateCount = r.lateCount /\ two.lateSum = r.lateSum
  BY ApplyType
<1> HIDE DEF one, two
<1>5. /\ r.count \in Nat /\ r.sum \in Int /\ r.min \in Int /\ r.max \in Int
      /\ r.lateCount \in Nat /\ r.lateSum \in Int
  BY DEF ResultType
<1>6. one.count = two.count /\ one.sum = two.sum
  BY <1>1, <1>3, <1>4, <1>5
<1>7. one.min = two.min /\ one.max = two.max
  BY <1>1, <1>3, <1>4, <1>5
<1>8. one.lateCount = two.lateCount /\ one.lateSum = two.lateSum
  BY <1>1, <1>3, <1>4, <1>5
<1>9. one.emitted = two.emitted
  <2>1. r.emitted \in BOOLEAN
    BY DEF ResultType
  <2> QED BY <1>2, <1>3, <1>4, <2>1
<1>10. one = two
  BY <1>3, <1>4, <1>6, <1>7, <1>8, <1>9, ResultEqual
<1> QED BY <1>10 DEF one, two, s

(* The aggregate of the values m .. n of a sequence. *)
Partial(vals, m, n) == ApplyAll(NewResult, SubSeq(vals, m, n))

LEMMA PartialStep ==
  ASSUME NEW vals \in Seq(Int), NEW m \in 1..Len(vals), NEW n \in m..Len(vals)
  PROVE  /\ Partial(vals, m, n) = Apply(Partial(vals, m, n - 1), vals[n])
         /\ Partial(vals, m, n) \in ResultType
         /\ Partial(vals, m, n - 1) \in ResultType
         /\ vals[n] \in Int
<1>1. /\ SubSeq(vals, m, n) = Append(SubSeq(vals, m, n - 1), vals[n])
      /\ SubSeq(vals, m, n - 1) \in Seq(Int)
      /\ vals[n] \in Int
  BY SubSeqAppend
<1>2. NewResult \in ResultType
  BY NewResultFacts
<1>3. Partial(vals, m, n) = Apply(Partial(vals, m, n - 1), vals[n])
  BY <1>1, <1>2, FoldAppend DEF Partial
<1>4. Partial(vals, m, n - 1) \in ResultType
  BY <1>1, <1>2, FoldResultType DEF Partial
<1> QED BY <1>1, <1>3, <1>4, ApplyType

LEMMA PartialEmpty ==
  ASSUME NEW vals, NEW m \in Int
  PROVE  Partial(vals, m, m - 1) = NewResult
<1>1. SubSeq(vals, m, m - 1) = <<>>
  BY SubSeqEmpty
<1> QED BY <1>1, NewResultFacts, FoldEmpty DEF Partial

(* The maximum starts at zero and only grows. *)
LEMMA PartialMax ==
  ASSUME NEW vals \in Seq(Int), NEW n \in 0..Len(vals)
  PROVE  Partial(vals, 1, n) \in ResultType /\ Partial(vals, 1, n).max >= 0
<1> DEFINE Good == {k \in Nat : k <= Len(vals) =>
                      /\ Partial(vals, 1, k) \in ResultType
                      /\ Partial(vals, 1, k).max >= 0}
<1>1. Len(vals) \in Nat
  BY LenProperties
<1>2. 0 \in Good
  <2>1. Partial(vals, 1, 0) = NewResult
    <3>1. 1 \in Int /\ 1 - 1 = 0
      OBVIOUS
    <3>2. Partial(vals, 1, 1 - 1) = NewResult
      BY <3>1, PartialEmpty
    <3> QED BY <3>1, <3>2
  <2>2. NewResult.max >= 0 /\ NewResult \in ResultType
    BY NewResultFacts DEF NewResult
  <2> QED BY <2>1, <2>2
<1>3. ASSUME NEW k \in Nat, k \in Good PROVE k + 1 \in Good
  <2> SUFFICES ASSUME k + 1 <= Len(vals)
               PROVE  /\ Partial(vals, 1, k + 1) \in ResultType
                      /\ Partial(vals, 1, k + 1).max >= 0
    OBVIOUS
  <2>1. 1 \in 1..Len(vals) /\ k + 1 \in 1..Len(vals) /\ (k + 1) - 1 = k
    BY <1>1
  <2>2. /\ Partial(vals, 1, k + 1) = Apply(Partial(vals, 1, k), vals[k + 1])
        /\ Partial(vals, 1, k + 1) \in ResultType
        /\ Partial(vals, 1, k) \in ResultType
        /\ vals[k + 1] \in Int
    BY <2>1, PartialStep
  <2> DEFINE r == Partial(vals, 1, k)
             v == vals[k + 1]
  <2>3. r.max >= 0 /\ r.max \in Int
    BY <1>1, <1>3, <2>2 DEF ResultType
  <2>4. Apply(r, v).max = IF v > r.max THEN v ELSE r.max
    BY <2>2, ApplyType
  <2> HIDE DEF r, v
  <2>5. Apply(r, v).max >= 0
    BY <2>2, <2>3, <2>4 DEF v
  <2> QED BY <2>2, <2>5 DEF r, v
<1>4. Nat \subseteq Good
  <2> HIDE DEF Good
  <2> QED BY <1>2, <1>3, AllNumbers
<1> QED BY <1>1, <1>4

(* Merging the aggregates of both parts of a sequence. *)
LEMMA MergePartials ==
  ASSUME NEW vals \in Seq(Int), NEW i \in 0..(Len(vals) - 1)
  PROVE  Merge(Partial(vals, 1, i), Partial(vals, i + 1, Len(vals)))
           = Partial(vals, 1, Len(vals))
<1> DEFINE L == Len(vals)
           A == Partial(vals, 1, i)
           B(n) == Partial(vals, i + 1, n)
           C(n) == Partial(vals, 1, n)
           Good == {k \in Nat : i + 1 + k <= L =>
                      /\ Merge(A, B(i + 1 + k)) = C(i + 1 + k)
                      /\ B(i + 1 + k).count > 0}
<1>1. L \in Nat /\ i \in Nat /\ i + 1 <= L
  BY LenProperties
<1>2. A \in ResultType /\ A.max >= 0
  BY <1>1, PartialMax
<1>3. \A n \in (i + 1)..L :
        /\ B(n) = Apply(B(n - 1), vals[n]) /\ B(n) \in ResultType
        /\ B(n - 1) \in ResultType /\ vals[n] \in Int
        /\ C(n) = Apply(C(n - 1), vals[n])
  <2> TAKE n \in (i + 1)..L
  <2>1. i + 1 \in 1..L /\ 1 \in 1..L /\ n \in 1..L
    BY <1>1
  <2> QED BY <2>1, PartialStep
<1>4. B(i) = NewResult
  <2>1. i + 1 \in Int /\ (i + 1) - 1 = i
    BY <1>1
  <2> QED BY <2>1, PartialEmpty
<1> HIDE DEF L, A, B, C
<1>5. 0 \in Good
  <2> DEFINE n == i + 1
  <2>1. n \in (i + 1)..L /\ n - 1 = i /\ i + 1 + 0 = n
    BY <1>1
  <2>2. B(n) = Apply(NewResult, vals[n]) /\ vals[n] \in Int
        /\ C(n) = Apply(C(i), vals[n])
    BY <1>3, <1>4, <2>1
  <2>3. C(i) = A
    BY DEF C, A
  <2>4. Merge(A, B(n)) = C(n)
    BY <1>2, <2>2, <2>3, MergeFirst
  <2>5. B(n).count > 0
    <3>1. NewResult \in ResultType /\ NewResult.count = 0
      BY NewResultFacts DEF NewResult
    <3>2. Apply(NewResult, vals[n]).count = NewResult.count + 1
      BY <2>2, <3>1, ApplyType
    <3>3. B(n).count = 1
      BY <2>2, <3>1, <3>2
    <3> QED BY <3>3
  <2> QED BY <2>1, <2>4, <2>5
<1>6. ASSUME NEW k \in Nat, k \in Good PROVE k + 1 \in Good
  <2> DEFINE n == i + 1 + k
             p == n + 1
  <2>1. i + 1 + (k + 1) = p /\ k + 1 \in Nat
    BY <1>1
  <2>2. ASSUME p <= L PROVE Merge(A, B(p)) = C(p) /\ B(p).count > 0
    <3>1. p \in (i + 1)..L /\ p - 1 = n /\ n <= L /\ n \in Int
      BY <1>1, <2>2
    <3>2. Merge(A, B(n)) = C(n) /\ B(n).count > 0
      BY <1>6, <3>1
    <3>3. /\ B(p) = Apply(B(n), vals[p]) /\ B(n) \in ResultType
          /\ vals[p] \in Int /\ C(p) = Apply(C(n), vals[p])
      BY <1>3, <3>1
    <3> HIDE DEF n, p
    <3>4. Merge(A, B(p)) = C(p)
      BY <1>2, <3>2, <3>3, MergeApply
    <3>5. B(p).count = B(n).count + 1
      <4>1. Apply(B(n), vals[p]).count = B(n).count + 1
        BY <3>3, ApplyType
      <4> QED BY <3>3, <4>1
    <3>6. B(n).count \in Nat
      BY <3>3 DEF ResultType
    <3> QED BY <3>2, <3>4, <3>5, <3>6
  <2> HIDE DEF p
  <2> QED BY <2>1, <2>2
<1>7. Nat \subseteq Good
  <2> HIDE DEF Good
  <2> QED BY <1>5, <1>6, AllNumbers
<1>8. Merge(A, B(L)) = C(L)
  <2> DEFINE k == L - (i + 1)
  <2>1. k \in Nat /\ i + 1 + k = L
    BY <1>1
  <2> HIDE DEF k
  <2>2. k \in Good
    <3> HIDE DEF Good
    <3> QED BY <1>7, <2>1
  <2>3. i + 1 + k <= L => Merge(A, B(i + 1 + k)) = C(i + 1 + k)
    BY <2>2
  <2>4. Merge(A, B(i + 1 + k)) = C(i + 1 + k)
    BY <1>1, <2>1, <2>3
  <2> QED BY <2>1, <2>4
<1> QED BY <1>8 DEF A, B, C, L
-----------------------------------------------------------------------------
(***************************************************************************)
(* The inductive invariant.  What a window has collected is the tally of   *)
(* the events accepted into it, published or not; an unpublished result is *)
(* untouched; a published one is that tally.                               *)
(***************************************************************************)
Collected(w) == ApplyAll(NewResult, values[w])

WindowOK(w) ==
  /\ Tally(Collected(w), Members(w, accepted))
  /\ Collected(w).lateCount = 0 /\ Collected(w).lateSum = 0
  /\ wstate[w] = "absent" <=> Members(w, accepted) = {}
  /\ results[w].lateCount = Cardinality(Members(w, late))
  /\ results[w].lateSum = SumFunctionOnSet(Val, Members(w, late))
  /\ wstate[w] # "closed" => results[w] = NewResult
  /\ wstate[w] = "closed" => /\ results[w].emitted
                             /\ Tally(results[w], Members(w, accepted))
                             /\ End(w) <= confirmed

(* A goroutine acts on a watermark that was confirmed. *)
ObservedConfirmed ==
  \A t \in Thread :
    wpc[t] \in {"trigger", "closing"} => observed[t] <= confirmed

WindowInv ==
  /\ WindowTypeOK
  /\ IsFiniteSet(accepted) /\ IsFiniteSet(late) /\ accepted \cap late = {}
  /\ ObservedConfirmed
  /\ \A w \in Window : WindowOK(w)
-----------------------------------------------------------------------------
LEMMA WindowType ==
  /\ \A e \in Event : WindowFor(Ts[e]) \in Window
  /\ Window \subseteq Int
<1>1. \A e \in Event : Ts[e] \in Int
  BY EventAssumption
<1>2. \A ts \in Int : WindowFor(ts) \in Int
  BY WindowAssumption DEF WindowFor
<1> QED BY <1>1, <1>2 DEF Window

LEMMA WindowStartInv ==
  ASSUME current \in Int, confirmed \in Int, WindowInit
  PROVE  WindowInv
<1> USE DEF WindowInit
<1>1. NewResult \in ResultType /\ Tally(NewResult, {})
  BY NewResultFacts
<1>2. WindowTypeOK
  BY <1>1 DEF WindowTypeOK
<1>3. IsFiniteSet({}) /\ Cardinality({}) = 0 /\ SumFunctionOnSet(Val, {}) = 0
  BY FS_EmptySet, SumEmpty
<1>4. ASSUME NEW w \in Window PROVE WindowOK(w)
  <2>1. Members(w, accepted) = {} /\ Members(w, late) = {}
    BY DEF Members
  <2>2. Collected(w) = NewResult
    BY <1>1, FoldEmpty DEF Collected
  <2>3. wstate[w] = "absent" /\ results[w] = NewResult
    OBVIOUS
  <2>4. /\ Tally(Collected(w), Members(w, accepted))
        /\ Collected(w).lateCount = 0 /\ Collected(w).lateSum = 0
    <3>1. NewResult.lateCount = 0 /\ NewResult.lateSum = 0
      BY DEF NewResult
    <3> QED BY <1>1, <2>1, <2>2, <3>1
  <2>5. /\ results[w].lateCount = Cardinality(Members(w, late))
        /\ results[w].lateSum = SumFunctionOnSet(Val, Members(w, late))
    BY <1>3, <2>1, <2>3 DEF NewResult
  <2> QED BY <2>1, <2>3, <2>4, <2>5 DEF WindowOK
<1>5. ObservedConfirmed
  BY DEF ObservedConfirmed
<1> QED BY <1>2, <1>3, <1>4, <1>5 DEF WindowInv

(* The tracker only moves forward under the windows. *)
LEMMA TrackerKeeps ==
  ASSUME WindowInv, UNCHANGED windowVars, current' \in Int, confirmed' \in Int,
         confirmed <= confirmed'
  PROVE  WindowInv'
<1>1. UNCHANGED <<wstate, values, results, wpc, observed, accepted, late>>
  BY DEF windowVars
<1>2. WindowTypeOK' /\ confirmed \in Int
  BY <1>1 DEF WindowInv, WindowTypeOK
<1>3. ObservedConfirmed'
  BY <1>1, <1>2 DEF WindowInv, WindowTypeOK, ObservedConfirmed
<1>4. ASSUME NEW w \in Window PROVE WindowOK(w)'
  <2>1. WindowOK(w) /\ End(w) \in Int
    BY WindowType, WindowAssumption DEF WindowInv, End
  <2> QED BY <1>1, <1>2, <2>1 DEF WindowOK, Collected
<1>5. (\A w \in Window : WindowOK(w))'
  BY <1>4 DEF Window
<1> QED BY <1>1, <1>2, <1>3, <1>5 DEF WindowInv
-----------------------------------------------------------------------------
(* What an event adds to the sets of the windows. *)
LEMMA MembersAdd ==
  ASSUME NEW S, S \subseteq Event, IsFiniteSet(S), NEW e \in Event, e \notin S,
         NEW w
  PROVE  /\ IsFiniteSet(Members(w, S)) /\ Members(w, S) \subseteq Event
         /\ Members(w, S \cup {e}) =
              IF w = WindowFor(Ts[e]) THEN Members(w, S) \cup {e} ELSE Members(w, S)
         /\ e \notin Members(w, S)
<1>1. Members(w, S) \subseteq S
  BY DEF Members
<1>2. IsFiniteSet(Members(w, S))
  BY <1>1, FS_Subset
<1> QED BY <1>1, <1>2 DEF Members

(* An event for a closed window leaves the published fields alone. *)
LEMMA LateKeeps ==
  ASSUME WindowInv, UNCHANGED trackerVars, NEW e \in Event,
         e \notin accepted \cup late,
         wstate[WindowFor(Ts[e])] = "closed", IngestWindow(e)
  PROVE  WindowInv' /\ KeepsPublished
<1> DEFINE v == WindowFor(Ts[e])
           r == results[v]
           q == LateUpdate(r, Val[e])
<1>1. /\ results' = [results EXCEPT ![v] = q]
      /\ late' = late \cup {e}
      /\ UNCHANGED <<wstate, values, accepted, wpc, observed>>
  BY DEF IngestWindow
<1>2. v \in Window /\ Val[e] \in Int
  BY WindowType, EventAssumption
<1>3. r \in ResultType /\ WindowOK(v)
  BY <1>2 DEF WindowInv, WindowTypeOK
<1>4. /\ q \in ResultType
      /\ q.lateCount = r.lateCount + 1 /\ q.lateSum = r.lateSum + Val[e]
      /\ q.count = r.count /\ q.sum = r.sum /\ q.min = r.min /\ q.max = r.max
      /\ q.emitted = r.emitted
  BY <1>2, <1>3, LateType
<1>6. /\ UNCHANGED <<current, confirmed>>
      /\ results \in [Window -> ResultType]
      /\ late \subseteq Event /\ IsFiniteSet(late) /\ e \notin late
  BY DEF trackerVars, WindowInv, WindowTypeOK
<1> HIDE DEF v, q
<1>7. WindowTypeOK'
  <2>1. results' \in [Window -> ResultType]
    BY <1>1, <1>2, <1>4, <1>6
  <2>2. late' \subseteq Event
    BY <1>1, <1>6
  <2> QED BY <1>1, <1>6, <2>1, <2>2 DEF WindowInv, WindowTypeOK
<1>8. IsFiniteSet(late') /\ accepted' \cap late' = {}
  BY <1>1, <1>6, FS_AddElement DEF WindowInv
<1>9. ASSUME NEW w \in Window PROVE WindowOK(w)'
  <2>1. WindowOK(w)
    BY DEF WindowInv
  <2>2. CASE w # v
    <3>1. results'[w] = results[w]
      BY <1>1, <1>6, <2>2
    <3>2. Members(w, late') = Members(w, late)
      BY <1>1, <1>6, <2>2, MembersAdd DEF v
    <3> QED BY <1>1, <1>6, <2>1, <3>1, <3>2 DEF WindowOK, Collected
  <2>3. CASE w = v
    <3>1. results'[w] = q
      BY <1>1, <1>2, <1>6, <2>3
    <3> DEFINE M == Members(w, late)
    <3>2. /\ Members(w, late') = M \cup {e} /\ e \notin M
          /\ IsFiniteSet(M) /\ M \subseteq Event
      BY <1>1, <1>6, <2>3, MembersAdd DEF v
    <3> HIDE DEF M
    <3>3. Cardinality(M \cup {e}) = Cardinality(M) + 1 /\ Cardinality(M) \in Nat
      BY <3>2, FS_AddElement, FS_CardinalityType
    <3>4. SumFunctionOnSet(Val, M \cup {e}) = Val[e] + SumFunctionOnSet(Val, M)
      <4>1. \A x \in M \cup {e} : Val[x] \in Int
        BY <3>2, EventAssumption
      <4> QED BY <3>2, <4>1, SumAdd
    <3>5. SumFunctionOnSet(Val, M) \in Int
      BY <3>2, SumType, EventAssumption
    <3>6. r.lateCount = Cardinality(M) /\ r.lateSum = SumFunctionOnSet(Val, M)
      BY <1>3, <2>3 DEF WindowOK, M
    <3>7. /\ q.lateCount = Cardinality(Members(w, late'))
          /\ q.lateSum = SumFunctionOnSet(Val, Members(w, late'))
      BY <1>2, <1>4, <3>2, <3>3, <3>4, <3>5, <3>6
    <3>8. wstate[w] = "closed"
      BY <2>3 DEF v
    <3>9. Tally(q, Members(w, accepted)) /\ q.emitted
      BY <1>3, <1>4, <2>3, <3>8 DEF WindowOK, Tally
    <3>10. Collected(w)' = Collected(w)
      BY <1>1 DEF Collected
    <3> QED BY <1>1, <1>6, <2>1, <3>1, <3>7, <3>8, <3>9, <3>10 DEF WindowOK
  <2> QED BY <2>2, <2>3
<1>10. (\A w \in Window : WindowOK(w))'
  BY <1>9 DEF Window
<1>11. ObservedConfirmed'
  BY <1>1, <1>6 DEF WindowInv, ObservedConfirmed
<1>12. KeepsPublished
  BY <1>1, <1>2, <1>4, <1>6 DEF KeepsPublished
<1> QED BY <1>1, <1>7, <1>8, <1>10, <1>11, <1>12 DEF WindowInv

(* An event for a window that is not closed joins its values. *)
LEMMA AcceptKeeps ==
  ASSUME WindowInv, UNCHANGED trackerVars, NEW e \in Event,
         e \notin accepted \cup late,
         wstate[WindowFor(Ts[e])] # "closed", IngestWindow(e)
  PROVE  WindowInv' /\ KeepsPublished
<1> DEFINE v == WindowFor(Ts[e])
<1>1. /\ wstate' = [wstate EXCEPT ![v] = "open"]
      /\ values' = [values EXCEPT ![v] = Append(values[v], Val[e])]
      /\ accepted' = accepted \cup {e}
      /\ UNCHANGED <<results, late, wpc, observed>>
  BY DEF IngestWindow
<1>2. v \in Window /\ Val[e] \in Int
  BY WindowType, EventAssumption
<1>3. /\ WindowOK(v) /\ values[v] \in Seq(Int)
      /\ wstate[v] \in {"absent", "open"}
  BY <1>2 DEF WindowInv, WindowTypeOK
<1>5. /\ UNCHANGED <<current, confirmed>>
      /\ wstate \in [Window -> {"absent", "open", "closed"}]
      /\ values \in [Window -> Seq(Int)]
      /\ results \in [Window -> ResultType]
      /\ accepted \subseteq Event /\ IsFiniteSet(accepted) /\ e \notin accepted
  BY DEF trackerVars, WindowInv, WindowTypeOK
<1>6. Append(values[v], Val[e]) \in Seq(Int)
  BY <1>2, <1>3, AppendProperties
<1> HIDE DEF v
<1>7. WindowTypeOK'
  <2>1. /\ wstate' \in [Window -> {"absent", "open", "closed"}]
        /\ values' \in [Window -> Seq(Int)]
    BY <1>1, <1>2, <1>5, <1>6
  <2>2. accepted' \subseteq Event
    BY <1>1, <1>5
  <2> QED BY <1>1, <1>5, <2>1, <2>2 DEF WindowInv, WindowTypeOK
<1>8. IsFiniteSet(accepted') /\ accepted' \cap late' = {}
  BY <1>1, <1>5, FS_AddElement DEF WindowInv
<1>9. ASSUME NEW w \in Window PROVE WindowOK(w)'
  <2>1. WindowOK(w)
    BY DEF WindowInv
  <2>2. CASE w # v
    <3>1. wstate'[w] = wstate[w] /\ values'[w] = values[w]
      BY <1>1, <1>5, <2>2
    <3>2. Members(w, accepted') = Members(w, accepted)
      BY <1>1, <1>5, <2>2, MembersAdd DEF v
    <3> QED BY <1>1, <1>5, <2>1, <3>1, <3>2 DEF WindowOK, Collected
  <2>3. CASE w = v
    <3>1. /\ wstate'[w] = "open"
          /\ values'[w] = Append(values[w], Val[e])
      BY <1>1, <1>2, <1>5, <2>3
    <3> DEFINE M == Members(w, accepted)
               r == Collected(w)
    <3>2. /\ Members(w, accepted') = M \cup {e} /\ e \notin M
          /\ IsFiniteSet(M) /\ M \subseteq Event
      BY <1>1, <1>5, <2>3, MembersAdd DEF v
    <3>3. r \in ResultType /\ Tally(r, M) /\ r.lateCount = 0 /\ r.lateSum = 0
      BY <1>3, <2>1, <2>3, NewResultFacts, FoldResultType DEF WindowOK, Collected
    <3>4. Collected(w)' = Apply(r, Val[e])
      BY <1>2, <1>3, <2>3, <3>1, NewResultFacts, FoldAppend DEF Collected
    <3> HIDE DEF M, r
    <3>5. Tally(Apply(r, Val[e]), M \cup {e})
      BY <3>2, <3>3, TallyAdd
    <3>6. Apply(r, Val[e]).lateCount = 0 /\ Apply(r, Val[e]).lateSum = 0
      BY <1>2, <3>3, ApplyType
    <3>7. wstate[w] # "closed"
      BY <1>3, <2>3
    <3>8. Members(w, accepted') # {}
      BY <3>2
    <3> QED BY <1>1, <2>1, <3>1, <3>2, <3>4, <3>5, <3>6, <3>7, <3>8
            DEF WindowOK
  <2> QED BY <2>2, <2>3
<1>10. (\A w \in Window : WindowOK(w))'
  BY <1>9 DEF Window
<1>11. ObservedConfirmed'
  BY <1>1, <1>5 DEF WindowInv, ObservedConfirmed
<1>12. KeepsPublished
  BY <1>1 DEF KeepsPublished
<1> QED BY <1>1, <1>7, <1>8, <1>10, <1>11, <1>12 DEF WindowInv

LEMMA IngestWindowKeeps ==
  ASSUME WindowInv, UNCHANGED trackerVars, NEW e \in Event,
         e \notin accepted \cup late, IngestWindow(e)
  PROVE  WindowInv' /\ KeepsPublished
BY LateKeeps, AcceptKeeps

(* MaybeTrigger is about to be called, reads the watermark, or returns. *)
LEMMA LocationKeeps ==
  ASSUME WindowInv, UNCHANGED trackerVars, NEW t \in Thread,
         UNCHANGED <<wstate, values, results, accepted, late>>,
         \/ /\ wpc' = [wpc EXCEPT ![t] = "notify"] /\ UNCHANGED observed
         \/ /\ wpc' = [wpc EXCEPT ![t] = "idle"] /\ UNCHANGED observed
         \/ /\ wpc' = [wpc EXCEPT ![t] = "trigger"]
            /\ observed' = [observed EXCEPT ![t] = confirmed]
  PROVE  WindowInv' /\ KeepsPublished
<1>1. UNCHANGED <<current, confirmed>> /\ confirmed \in Int
  BY DEF trackerVars, WindowInv, WindowTypeOK
<1>2. /\ wpc' \in [Thread -> {"idle", "notify", "trigger", "closing"}]
      /\ observed' \in [Thread -> Int]
  BY <1>1 DEF WindowInv, WindowTypeOK
<1>3. WindowTypeOK'
  BY <1>1, <1>2 DEF WindowInv, WindowTypeOK
<1>4. ObservedConfirmed'
  BY <1>1 DEF WindowInv, WindowTypeOK, ObservedConfirmed
<1>5. ASSUME NEW w \in Window PROVE WindowOK(w)'
  <2>1. WindowOK(w)
    BY DEF WindowInv
  <2> QED BY <1>1, <2>1 DEF WindowOK, Collected
<1>6. (\A w \in Window : WindowOK(w))'
  BY <1>5 DEF Window
<1>7. KeepsPublished
  BY DEF KeepsPublished
<1> QED BY <1>3, <1>4, <1>6, <1>7 DEF WindowInv

(* What EmitResult makes of an untouched result. *)
LEMMA EmitFresh ==
  ASSUME NEW vals \in Seq(Int)
  PROVE  LET r == ApplyAll(NewResult, vals)
             q == EmitResult(NewResult, vals) IN
         /\ q \in ResultType /\ q.emitted
         /\ q.count = r.count /\ q.sum = r.sum /\ q.min = r.min /\ q.max = r.max
         /\ q.lateCount = r.lateCount /\ q.lateSum = r.lateSum
<1> DEFINE r == ApplyAll(NewResult, vals)
           q == EmitResult(NewResult, vals)
<1>1. r \in ResultType
  BY NewResultFacts, FoldResultType
<1>2. q = [r EXCEPT !.emitted = TRUE]
  BY DEF EmitResult, NewResult
<1> HIDE DEF r, q
<1>3. q = [count |-> r.count, sum |-> r.sum, min |-> r.min, max |-> r.max,
           emitted |-> TRUE, lateCount |-> r.lateCount, lateSum |-> r.lateSum]
  BY <1>1, <1>2 DEF ResultType
<1>4. q \in ResultType
  BY <1>1, <1>3 DEF ResultType
<1>5. q.emitted
  BY <1>3
<1>6. /\ q.count = r.count /\ q.sum = r.sum /\ q.min = r.min /\ q.max = r.max
      /\ q.lateCount = r.lateCount /\ q.lateSum = r.lateSum
  BY <1>3
<1> QED BY <1>4, <1>5, <1>6 DEF r, q

(* The loop of MaybeTrigger publishes and closes a window. *)
LEMMA CloseWindowKeeps ==
  ASSUME WindowInv, UNCHANGED trackerVars, NEW t \in Thread, NEW v \in Window,
         CloseWindow(t, v)
  PROVE  WindowInv' /\ KeepsPublished
<1> DEFINE q == EmitResult(results[v], values[v])
<1>1. /\ wpc[t] \in {"trigger", "closing"} /\ End(v) <= observed[t]
      /\ CanClose(wstate[v])
      /\ wpc' = [wpc EXCEPT ![t] = "closing"]
      /\ wstate' = [wstate EXCEPT ![v] = "closed"]
      /\ results' = [results EXCEPT ![v] = q]
      /\ UNCHANGED <<values, observed, accepted, late>>
  BY DEF CloseWindow, InLoop, DueFor
<1>2. /\ UNCHANGED <<current, confirmed>> /\ confirmed \in Int
      /\ wpc \in [Thread -> {"idle", "notify", "trigger", "closing"}]
      /\ observed[t] \in Int
      /\ wstate \in [Window -> {"absent", "open", "closed"}]
      /\ values[v] \in Seq(Int)
      /\ results \in [Window -> ResultType]
  BY DEF trackerVars, WindowInv, WindowTypeOK
<1>3. observed[t] <= confirmed
  BY <1>1 DEF WindowInv, ObservedConfirmed
<1>4. wstate[v] = "open" /\ results[v] = NewResult /\ WindowOK(v)
  BY <1>1, <1>2 DEF CanClose, WindowInv, WindowOK
<1>5. LET r == Collected(v) IN
      /\ q \in ResultType /\ q.emitted
      /\ q.count = r.count /\ q.sum = r.sum /\ q.min = r.min /\ q.max = r.max
      /\ q.lateCount = r.lateCount /\ q.lateSum = r.lateSum
  BY <1>2, <1>4, EmitFresh DEF Collected
<1> HIDE DEF q
<1>6. WindowTypeOK'
  <2>1. wstate' \in [Window -> {"absent", "open", "closed"}]
    BY <1>1, <1>2
  <2>2. results' \in [Window -> ResultType]
    BY <1>1, <1>2, <1>5
  <2>3. wpc' \in [Thread -> {"idle", "notify", "trigger", "closing"}]
    BY <1>1, <1>2
  <2> QED BY <1>1, <1>2, <2>1, <2>2, <2>3 DEF WindowInv, WindowTypeOK
<1>7. ObservedConfirmed'
  BY <1>1, <1>2, <1>3 DEF WindowInv, ObservedConfirmed
<1>8. ASSUME NEW w \in Window PROVE WindowOK(w)'
  <2>1. WindowOK(w) /\ Collected(w)' = Collected(w)
    BY <1>1 DEF WindowInv, Collected
  <2>2. CASE w # v
    <3>1. wstate'[w] = wstate[w] /\ results'[w] = results[w]
      BY <1>1, <1>2, <2>2
    <3> QED BY <1>1, <1>2, <2>1, <3>1 DEF WindowOK
  <2>3. CASE w = v
    <3>1. wstate'[w] = "closed" /\ results'[w] = q
      BY <1>1, <1>2, <2>3
    <3>2. q.lateCount = 0 /\ q.lateSum = 0 /\ Tally(q, Members(w, accepted))
      BY <1>5, <2>1, <2>3 DEF WindowOK, Tally
    <3>3. results[w].lateCount = 0 /\ results[w].lateSum = 0
      BY <1>4, <2>3 DEF NewResult
    <3>4. Members(w, accepted) # {}
      BY <1>4, <2>3 DEF WindowOK
    <3>5. End(w) <= confirmed
      <4>1. End(w) \in Int
        BY WindowType, WindowAssumption DEF End
      <4> QED BY <1>1, <1>2, <1>3, <2>3, <4>1
    <3> QED BY <1>1, <1>2, <1>5, <2>1, <3>1, <3>2, <3>3, <3>4, <3>5
            DEF WindowOK
  <2> QED BY <2>2, <2>3
<1>9. (\A w \in Window : WindowOK(w))'
  BY <1>8 DEF Window
<1>10. KeepsPublished
  <2>1. ASSUME NEW w \in Window, results[w].emitted PROVE w # v
    BY <1>4, <2>1 DEF NewResult
  <2> QED BY <1>1, <1>2, <2>1 DEF KeepsPublished
<1> QED BY <1>1, <1>6, <1>7, <1>9, <1>10 DEF WindowInv
-----------------------------------------------------------------------------
(* The invariant is inductive, and no step disturbs a published result. *)
LEMMA LayerStepInv ==
  ASSUME WindowInv, [LayerNext]_layerVars
  PROVE  WindowInv' /\ KeepsPublished
<1>1. current \in Int /\ confirmed \in Int
  BY DEF WindowInv, WindowTypeOK
<1>2. CASE UNCHANGED layerVars \/ UpdateCatalog
  <2>1. UNCHANGED windowVars /\ current' = current /\ confirmed' = confirmed
    BY <1>2 DEF layerVars, trackerVars, UpdateCatalog
  <2>2. WindowInv'
    BY <1>1, <2>1, TrackerKeeps
  <2>3. KeepsPublished
    BY <2>1 DEF windowVars, KeepsPublished
  <2> QED BY <2>2, <2>3
<1>3. CASE (\E ts \in Frontier : AdvanceFrontier(ts)) \/ ConfirmFrontier
  <2>1. /\ UNCHANGED windowVars /\ current' \in Int /\ confirmed' \in Int
        /\ confirmed <= confirmed'
    BY <1>1, <1>3, FrontierAssumption
       DEF AdvanceFrontier, ConfirmFrontier, Advance, Confirm, Larger
  <2>2. KeepsPublished
    BY <2>1 DEF windowVars, KeepsPublished
  <2> QED BY <2>1, <2>2, TrackerKeeps
<1>4. CASE \E e \in Event : Arrive(e)
  BY <1>4, IngestWindowKeeps DEF Arrive
<1>5. CASE \E t \in Thread : BeginTrigger(t)
  BY <1>5, LocationKeeps DEF BeginTrigger, ReadConfirmed
<1>6. CASE \E t \in Thread : Trigger(t)
  <2>1. PICK t \in Thread : Trigger(t)
    BY <1>6
  <2>2. CASE EndTrigger(t)
    BY <2>1, <2>2, LocationKeeps DEF Trigger, EndTrigger
  <2>3. CASE \E w \in Window : CloseWindow(t, w)
    BY <2>1, <2>3, CloseWindowKeeps DEF Trigger
  <2> QED BY <2>1, <2>2, <2>3 DEF Trigger
<1> QED BY <1>2, <1>3, <1>4, <1>5, <1>6 DEF LayerNext

(* What the invariant says of published results. *)
LEMMA InvImpliesResult ==
  ASSUME WindowInv
  PROVE  ResultMatchesOutcome
<1> SUFFICES ASSUME NEW w \in Window
             PROVE  LET in == Members(w, accepted)
                        out == Members(w, late)
                        r == results[w] IN
                    /\ r.lateCount = Cardinality(out)
                    /\ r.lateSum = SumFunctionOnSet(Val, out)
                    /\ wstate[w] = "closed" =>
                         /\ r.emitted
                         /\ r.count = Cardinality(in)
                         /\ r.sum = SumFunctionOnSet(Val, in)
                         /\ r.min = Min({Val[e] : e \in in})
                         /\ (\E e \in in : Val[e] >= 0) => r.max = Max({Val[e] : e \in in})
  BY DEF ResultMatchesOutcome
<1> DEFINE in == Members(w, accepted)
           r == results[w]
<1>1. WindowOK(w) /\ r \in ResultType /\ in \subseteq Event
  BY DEF WindowInv, WindowTypeOK, Members
<1>2. ASSUME wstate[w] = "closed"
      PROVE  /\ r.emitted /\ r.count = Cardinality(in)
             /\ r.sum = SumFunctionOnSet(Val, in)
             /\ r.min = Min({Val[e] : e \in in})
             /\ (\E e \in in : Val[e] >= 0) => r.max = Max({Val[e] : e \in in})
  <2>1. Tally(r, in) /\ r.emitted /\ in # {}
    BY <1>1, <1>2 DEF WindowOK
  <2>2. r.count = Cardinality(in) /\ r.sum = SumFunctionOnSet(Val, in)
    BY <2>1 DEF Tally
  <2> HIDE DEF in, r
  <2> QED BY <1>1, <2>1, <2>2, TallyMinMax
<1> QED BY <1>1, <1>2 DEF WindowOK

LEMMA InvImpliesWindows ==
  ASSUME WindowInv
  PROVE  NoEarlyClose /\ ResultMatchesOutcome
<1>1. NoEarlyClose
  BY DEF WindowInv, WindowOK, NoEarlyClose
<1> QED BY <1>1, InvImpliesResult

(* The invariant of every behaviour of the window layer (window.go). *)
THEOREM WindowInvariant == LayerSpec => []WindowInv
<1>1. LayerInit => WindowInv
  BY WindowStartInv DEF LayerInit, TrackerInit
<1>2. WindowInv /\ [LayerNext]_layerVars => WindowInv'
  BY LayerStepInv
<1> QED BY <1>1, <1>2, PTL DEF LayerSpec

(* Every variable of the window layer keeps its type (window.go).          *)
THEOREM WindowTypeCorrect == LayerSpec => []WindowTypeOK
<1>1. WindowInv => WindowTypeOK
  BY DEF WindowInv
<1> QED BY <1>1, WindowInvariant, PTL

(* MaybeTrigger closes a window only behind the confirmed watermark, on    *)
(* however old a reading it acts.                                          *)
THEOREM NoEarlyCloseHolds == LayerSpec => []NoEarlyClose
<1>1. WindowInv => NoEarlyClose
  BY InvImpliesWindows
<1> QED BY <1>1, WindowInvariant, PTL

(* A published result is the aggregate of the accepted events, its late    *)
(* fields that of the late ones (EmitResult, LateUpdate, Ingest); Max is   *)
(* left open for windows of negative values only.                          *)
THEOREM ResultMatchesOutcomeHolds == LayerSpec => []ResultMatchesOutcome
<1>1. WindowInv => ResultMatchesOutcome
  BY InvImpliesWindows
<1> QED BY <1>1, WindowInvariant, PTL

(* What downstream saw of a window never changes (agg.go, Store).          *)
THEOREM PublishedImmutableHolds == LayerSpec => PublishedImmutable
<1>1. WindowInv /\ [LayerNext]_layerVars => [KeepsPublished]_layerVars
  BY LayerStepInv
<1> QED BY <1>1, WindowInvariant, PTL DEF LayerSpec, PublishedImmutable

(* Two results that downstream cannot tell apart. *)
SameResult(r, q) ==
  /\ r \in ResultType /\ q \in ResultType
  /\ r.count = q.count /\ r.sum = q.sum /\ r.min = q.min /\ r.max = q.max
  /\ r.lateCount = q.lateCount /\ r.lateSum = q.lateSum

LEMMA MergeSame ==
  ASSUME NEW r, NEW q, NEW s, NEW t, SameResult(r, s), SameResult(q, t)
  PROVE  SameResult(Merge(r, q), Merge(s, t))
<1>1. /\ r \in ResultType /\ q \in ResultType
      /\ s \in ResultType /\ t \in ResultType
  BY DEF SameResult
<1>2. Merge(r, q) \in ResultType /\ Merge(s, t) \in ResultType
  BY <1>1, MergeType
<1>3. /\ Merge(r, q).count = Merge(s, t).count
      /\ Merge(r, q).sum = Merge(s, t).sum
  BY <1>1, MergeType DEF SameResult
<1>4. /\ Merge(r, q).lateCount = Merge(s, t).lateCount
      /\ Merge(r, q).lateSum = Merge(s, t).lateSum
  BY <1>1, MergeType DEF SameResult
<1>5. Merge(r, q).min = Merge(s, t).min
  <2>1. Merge(r, q).min = IF q.min < r.min \/ r.count = 0 THEN q.min ELSE r.min
    BY <1>1, MergeType
  <2>2. Merge(s, t).min = IF t.min < s.min \/ s.count = 0 THEN t.min ELSE s.min
    BY <1>1, MergeType
  <2> QED BY <2>1, <2>2 DEF SameResult
<1>6. Merge(r, q).max = Merge(s, t).max
  <2>1. Merge(r, q).max = IF q.max > r.max THEN q.max ELSE r.max
    BY <1>1, MergeType
  <2>2. Merge(s, t).max = IF t.max > s.max THEN t.max ELSE s.max
    BY <1>1, MergeType
  <2> QED BY <2>1, <2>2 DEF SameResult
<1> QED BY <1>2, <1>3, <1>4, <1>5, <1>6 DEF SameResult

(* Combining the published parts of a window gives its published result,   *)
(* however its values were split (combiner.go, Combine).                   *)
THEOREM CombineIsFoldHolds == LayerSpec => []CombineIsFold
<1>1. ASSUME WindowTypeOK PROVE CombineIsFold
  <2> DEFINE Part(w, from, to) == EmitResult(NewResult, SubSeq(values[w], from, to))
  <2> SUFFICES ASSUME NEW w \in Window, NEW i \in 0..(Len(values[w]) - 1)
               PROVE  Merge(Part(w, 1, i), Part(w, i + 1, Len(values[w])))
                        = Part(w, 1, Len(values[w]))
    BY DEF CombineIsFold
  <2> DEFINE vals == values[w]
             L == Len(vals)
             Sub(from, to) == SubSeq(vals, from, to)
  <2>1. vals \in Seq(Int)
    BY <1>1 DEF WindowTypeOK
  <2>2. L \in Nat /\ i \in Nat /\ i + 1 <= L /\ i \in 0..L
    BY <2>1, LenProperties
  <2>3. \A from \in 1..L, to \in 0..L :
          /\ SameResult(Part(w, from, to), Partial(vals, from, to))
          /\ Part(w, from, to).emitted
    <3> TAKE from \in 1..L, to \in 0..L
    <3>1. Sub(from, to) \in Seq(Int)
      <4>1. \A j \in from..to : vals[j] \in Int
        BY <2>1, <2>2
      <4>2. from \in Int /\ to \in Int
        BY <2>2
      <4> HIDE DEF vals
      <4> QED BY <2>1, <4>1, <4>2, SubSeqProperties
    <3>2. ApplyAll(NewResult, Sub(from, to)) \in ResultType
      BY <3>1, NewResultFacts, FoldResultType
    <3> QED BY <3>1, <3>2, EmitFresh DEF SameResult, Partial
  <2> DEFINE P == Part(w, 1, i)
             Q == Part(w, i + 1, L)
             R == Part(w, 1, L)
             X == Partial(vals, 1, i)
             Y == Partial(vals, i + 1, L)
             Z == Partial(vals, 1, L)
  <2>4. 1 \in 1..L /\ i + 1 \in 1..L /\ L \in 0..L
    BY <2>2
  <2>5. /\ SameResult(P, X) /\ SameResult(Q, Y) /\ SameResult(R, Z)
        /\ P.emitted /\ R.emitted
    <3> HIDE DEF Part, L
    <3> QED BY <2>2, <2>3, <2>4
  <2>6. Merge(X, Y) = Z
    BY <2>1, MergePartials
  <2> HIDE DEF P, Q, R, X, Y, Z
  <2>7. SameResult(Merge(P, Q), Z)
    BY <2>5, <2>6, MergeSame
  <2>8. P \in ResultType /\ Q \in ResultType
    BY <2>5 DEF SameResult
  <2>9. Merge(P, Q).emitted = R.emitted
    <3>1. Merge(P, Q).emitted = (P.emitted \/ Q.emitted)
      BY <2>8, MergeType
    <3>2. R.emitted \in BOOLEAN
      BY <2>5 DEF SameResult, ResultType
    <3>3. R.emitted = TRUE
      BY <2>5, <3>2
    <3> QED BY <2>5, <3>1, <3>3
  <2>10. Merge(P, Q) = R
    <3> DEFINE M == Merge(P, Q)
    <3> HIDE DEF M
    <3>1. M \in ResultType /\ R \in ResultType
      BY <2>5, <2>7 DEF SameResult, M
    <3>2. /\ M.count = R.count /\ M.sum = R.sum /\ M.min = R.min
          /\ M.max = R.max /\ M.lateCount = R.lateCount
          /\ M.lateSum = R.lateSum
      BY <2>5, <2>7 DEF SameResult, M
    <3>3. M.emitted = R.emitted
      BY <2>9 DEF M
    <3>4. M = R
      BY <3>1, <3>2, <3>3, ResultEqual
    <3> QED BY <3>4 DEF M
  <2> QED BY <2>10 DEF P, Q, R
<1> QED BY <1>1, WindowTypeCorrect, PTL
-----------------------------------------------------------------------------
(***************************************************************************)
(* The catalog, which hears of a change after the change (catalog.go).     *)
(***************************************************************************)
EntryType == [state : {"absent", "open", "closed"}, events : Nat, late : Nat,
              closedAt : Int]

CallType == [op : {"none", "open", "event", "late", "close"}, window : Int,
             at : Int]

(* A row of window w in a state, with so many events and late events. *)
Shows(row, w, state, events, lates) ==
  /\ row.state = state /\ row.events = events /\ row.late = lates
  /\ state = "closed" => End(w) <= row.closedAt /\ row.closedAt <= confirmed

Counted(w) == Cardinality(Members(w, accepted))

Lates(w) == Cardinality(Members(w, late))

(* No catalog call about window w is still to be made. *)
Settled(w) == call.op = "none" \/ call.window # w

(* What the catalog shows of window w before the call still to be made. *)
RowOK(w) ==
  /\ Settled(w) => Shows(catalog[w], w, wstate[w], Counted(w), Lates(w))
  /\ ~Settled(w) =>
       /\ call.op = "open" =>
            /\ wstate[w] = "open"
            /\ Shows(catalog[w], w, "absent", Counted(w) - 1, Lates(w))
       /\ call.op = "event" =>
            /\ wstate[w] = "open"
            /\ Shows(catalog[w], w, "open", Counted(w) - 1, Lates(w))
       /\ call.op = "late" =>
            /\ wstate[w] = "closed"
            /\ Shows(catalog[w], w, "closed", Counted(w), Lates(w) - 1)
       /\ call.op = "close" =>
            /\ wstate[w] = "closed"
            /\ Shows(catalog[w], w, "open", Counted(w), Lates(w))
            /\ End(w) <= call.at /\ call.at <= confirmed

CatalogInv ==
  /\ catalog \in [Window -> EntryType]
  /\ call \in CallType
  /\ call.op # "none" => call.window \in Window
  /\ \A w \in Window : RowOK(w)

LEMMA EntryOps ==
  ASSUME NEW r \in EntryType, NEW at \in Int
  PROVE  /\ OpenEntry(r) = [state |-> "open", events |-> r.events,
                            late |-> r.late, closedAt |-> r.closedAt]
         /\ r.state # "absent" =>
              /\ RecordEvent(r) = [state |-> r.state, events |-> r.events + 1,
                                   late |-> r.late, closedAt |-> r.closedAt]
              /\ RecordLate(r) = [state |-> r.state, events |-> r.events,
                                  late |-> r.late + 1, closedAt |-> r.closedAt]
         /\ CloseEntry(r, at) = [state |-> "closed", events |-> r.events,
                                 late |-> r.late, closedAt |-> at]
<1>1. \A s : Entry(r, s) = [state |-> IF r.state = "absent" THEN s ELSE r.state,
                            events |-> r.events, late |-> r.late,
                            closedAt |-> r.closedAt]
  BY DEF Entry, EntryType
<1>2. OpenEntry(r) = [state |-> "open", events |-> r.events,
                      late |-> r.late, closedAt |-> r.closedAt]
  BY <1>1 DEF OpenEntry
<1>3. ASSUME r.state # "absent"
      PROVE  /\ RecordEvent(r) = [state |-> r.state, events |-> r.events + 1,
                                  late |-> r.late, closedAt |-> r.closedAt]
             /\ RecordLate(r) = [state |-> r.state, events |-> r.events,
                                 late |-> r.late + 1, closedAt |-> r.closedAt]
  BY <1>1, <1>3 DEF RecordEvent, RecordLate
<1>4. CloseEntry(r, at) = [state |-> "closed", events |-> r.events,
                           late |-> r.late, closedAt |-> at]
  <2> DEFINE s == IF r.state = "absent" THEN "closed" ELSE r.state
             b == [state |-> s, events |-> r.events, late |-> r.late,
                   closedAt |-> r.closedAt]
  <2>1. CloseEntry(r, at) = [b EXCEPT !.state = "closed", !.closedAt = at]
    BY <1>1 DEF CloseEntry
  <2> HIDE DEF s
  <2> QED BY <2>1
<1> QED BY <1>2, <1>3, <1>4

LEMMA CatalogStartInv ==
  ASSUME LayerInit
  PROVE  CatalogInv
<1> USE DEF LayerInit, CatalogInit
<1>1. catalog \in [Window -> EntryType]
  BY DEF NoEntry, EntryType
<1>2. call \in CallType /\ call.op = "none"
  BY DEF NoCall, CallType
<1>3. ASSUME NEW w \in Window PROVE RowOK(w)
  <2>1. Counted(w) = 0 /\ Lates(w) = 0
    <3>1. Members(w, accepted) = {} /\ Members(w, late) = {}
      BY DEF WindowInit, Members
    <3> QED BY <3>1, FS_EmptySet DEF Counted, Lates
  <2>2. wstate[w] = "absent" /\ catalog[w] = NoEntry
    BY DEF WindowInit
  <2> QED BY <1>2, <2>1, <2>2 DEF RowOK, Settled, Shows, NoEntry
<1> QED BY <1>1, <1>2, <1>3 DEF CatalogInv

(* The catalog is left alone, and so are the windows. *)
LEMMA IdleCatalog ==
  ASSUME CatalogInv, confirmed \in Int, confirmed' \in Int,
         confirmed <= confirmed', UNCHANGED <<catalogVars, wstate, accepted, late>>
  PROVE  CatalogInv'
<1>1. UNCHANGED <<catalog, call>>
  BY DEF catalogVars
<1>2. ASSUME NEW w \in Window PROVE RowOK(w)'
  <2>1. /\ RowOK(w) /\ Counted(w)' = Counted(w) /\ Lates(w)' = Lates(w)
        /\ Settled(w)' = Settled(w) /\ End(w) \in Int
    BY <1>1, WindowType, WindowAssumption
       DEF CatalogInv, Counted, Lates, Settled, End
  <2>2. /\ catalog[w].closedAt \in Int /\ call.at \in Int
    BY DEF CatalogInv, EntryType, CallType
  <2>3. \A s, n, l : Shows(catalog[w], w, s, n, l) => Shows(catalog[w], w, s, n, l)'
    BY <1>1, <2>1, <2>2 DEF Shows
  <2> HIDE DEF Shows
  <2> QED BY <1>1, <2>1, <2>2, <2>3 DEF RowOK
<1>3. (\A w \in Window : RowOK(w))'
  BY <1>2 DEF Window
<1> QED BY <1>1, <1>3 DEF CatalogInv, Window

(* Manager.Ingest changes its window, and the catalog will hear of it. *)
LEMMA ArriveCatalog ==
  ASSUME WindowInv, CatalogInv, NEW e \in Event, Arrive(e)
  PROVE  CatalogInv'
<1> DEFINE v == WindowFor(Ts[e])
<1>1. /\ e \notin accepted \cup late /\ call = NoCall
      /\ IngestWindow(e)
      /\ call' = [op |-> IngestCall(wstate[v]), window |-> v, at |-> Ts[e]]
      /\ catalog' = catalog /\ confirmed' = confirmed
  BY DEF Arrive, trackerVars
<1>2. v \in Window /\ v \in Int /\ Ts[e] \in Int
  BY WindowType, EventAssumption
<1>3. /\ wstate \in [Window -> {"absent", "open", "closed"}]
      /\ wstate[v] \in {"absent", "open", "closed"}
      /\ accepted \subseteq Event /\ IsFiniteSet(accepted) /\ e \notin accepted
      /\ late \subseteq Event /\ IsFiniteSet(late) /\ e \notin late
      /\ confirmed \in Int
  BY <1>1, <1>2 DEF WindowInv, WindowTypeOK
<1>4. /\ wstate[v] = "closed" =>
           /\ late' = late \cup {e} /\ UNCHANGED <<wstate, accepted>>
      /\ wstate[v] # "closed" =>
           /\ wstate' = [wstate EXCEPT ![v] = "open"]
           /\ accepted' = accepted \cup {e} /\ late' = late
  BY <1>1 DEF IngestWindow
<1> HIDE DEF v
<1>5. call'.op = IngestCall(wstate[v]) /\ call'.window = v
  BY <1>1
<1>6. /\ wstate[v] = "absent" => IngestCall(wstate[v]) = "open"
      /\ wstate[v] = "open" => IngestCall(wstate[v]) = "event"
      /\ wstate[v] = "closed" => IngestCall(wstate[v]) = "late"
  BY DEF IngestCall
<1>7. call' \in CallType
  BY <1>1, <1>2, <1>3, <1>6 DEF CallType
<1>8. ASSUME NEW w \in Window PROVE RowOK(w)'
  <2>a. /\ Counted(w)' = Cardinality(Members(w, accepted'))
        /\ Lates(w)' = Cardinality(Members(w, late'))
    BY DEF Counted, Lates, Members
  <2>1. RowOK(w) /\ Settled(w)
    BY <1>1 DEF CatalogInv, Settled, NoCall
  <2>2. Shows(catalog[w], w, wstate[w], Counted(w), Lates(w))
    BY <2>1 DEF RowOK
  <2>3. \A s, n, l : Shows(catalog[w], w, s, n, l) = Shows(catalog[w], w, s, n, l)'
    BY <1>1 DEF Shows
  <2>4. CASE w # v
    <3>1. /\ Settled(w)' /\ wstate'[w] = wstate[w]
      BY <1>3, <1>4, <1>5, <2>4 DEF Settled
    <3>2. Counted(w)' = Counted(w) /\ Lates(w)' = Lates(w)
      <4>1. /\ Members(w, accepted \cup {e}) = Members(w, accepted)
            /\ Members(w, late \cup {e}) = Members(w, late)
        BY <1>3, <2>4, MembersAdd DEF v
      <4> QED BY <1>4, <2>a, <4>1 DEF Counted, Lates
    <3> QED BY <1>1, <2>2, <2>3, <3>1, <3>2 DEF RowOK
  <2>5. CASE w = v
    <3>1. ~Settled(w)'
      BY <1>3, <1>5, <1>6, <2>5 DEF Settled
    <3> DEFINE M == Members(w, accepted)
               L == Members(w, late)
    <3>2. /\ IsFiniteSet(M) /\ e \notin M /\ IsFiniteSet(L) /\ e \notin L
          /\ Members(w, accepted \cup {e}) = M \cup {e}
          /\ Members(w, late \cup {e}) = L \cup {e}
      BY <1>3, <2>5, MembersAdd DEF v
    <3> HIDE DEF M, L
    <3>3. /\ Cardinality(M \cup {e}) = Cardinality(M) + 1
          /\ Cardinality(L \cup {e}) = Cardinality(L) + 1
          /\ Cardinality(M) \in Nat /\ Cardinality(L) \in Nat
      BY <3>2, FS_AddElement, FS_CardinalityType
    <3>4. /\ Counted(w) = Cardinality(M) /\ Lates(w) = Cardinality(L)
      BY DEF Counted, Lates, M, L
    <3>5. CASE wstate[v] = "closed"
      <4>1. Counted(w)' = Counted(w) /\ Lates(w) = Lates(w)' - 1
        <5>1. accepted' = accepted /\ late' = late \cup {e}
          BY <1>4, <3>5
        <5>2. Counted(w)' = Counted(w)
          BY <2>a, <5>1 DEF Counted
        <5>3. Lates(w)' = Cardinality(L) + 1
          BY <2>a, <3>2, <3>3, <5>1
        <5> QED BY <3>3, <3>4, <5>2, <5>3
      <4>2. wstate'[w] = "closed" /\ call'.op = "late"
        BY <1>4, <1>5, <1>6, <2>5, <3>5
      <4> QED BY <1>1, <2>2, <2>3, <2>5, <3>1, <3>5, <4>1, <4>2 DEF RowOK
    <3>6. CASE wstate[v] # "closed"
      <4>1. Lates(w)' = Lates(w) /\ Counted(w) = Counted(w)' - 1
        <5>1. late' = late /\ accepted' = accepted \cup {e}
          BY <1>4, <3>6
        <5>2. Lates(w)' = Lates(w)
          BY <2>a, <5>1 DEF Lates
        <5>3. Counted(w)' = Cardinality(M) + 1
          BY <2>a, <3>2, <3>3, <5>1
        <5> QED BY <3>3, <3>4, <5>2, <5>3
      <4>2. wstate'[w] = "open"
        BY <1>2, <1>3, <1>4, <2>5, <3>6
      <4>3. \/ call'.op = "open" /\ wstate[w] = "absent"
            \/ call'.op = "event" /\ wstate[w] = "open"
        BY <1>3, <1>5, <1>6, <2>5, <3>6
      <4> QED BY <1>1, <2>2, <2>3, <3>1, <4>1, <4>2, <4>3 DEF RowOK
    <3> QED BY <3>5, <3>6
  <2> QED BY <2>4, <2>5
<1>9. (\A w \in Window : RowOK(w))'
  BY <1>8 DEF Window
<1>10. Window' = Window
  BY DEF Window
<1> QED BY <1>1, <1>2, <1>5, <1>7, <1>9, <1>10 DEF CatalogInv

(* MaybeTrigger publishes a window, and the catalog will hear of it. *)
LEMMA CloseCatalog ==
  ASSUME WindowInv, CatalogInv, NEW t \in Thread, NEW v \in Window,
         CloseWindow(t, v), UNCHANGED <<trackerVars, catalog>>, call = NoCall,
         call' = [op |-> "close", window |-> v, at |-> observed[t]]
  PROVE  CatalogInv'
<1>1. /\ wpc[t] \in {"trigger", "closing"} /\ End(v) <= observed[t]
      /\ CanClose(wstate[v])
      /\ wstate' = [wstate EXCEPT ![v] = "closed"]
      /\ UNCHANGED <<accepted, late, observed>> /\ confirmed' = confirmed
  BY DEF CloseWindow, InLoop, DueFor, trackerVars
<1>2. /\ wstate \in [Window -> {"absent", "open", "closed"}]
      /\ observed[t] \in Int /\ observed[t] <= confirmed /\ confirmed \in Int
  BY <1>1 DEF WindowInv, WindowTypeOK, ObservedConfirmed
<1>3. wstate[v] = "open" /\ v \in Int
  BY <1>1, <1>2, WindowType DEF CanClose
<1>4. call'.op = "close" /\ call'.window = v /\ call'.at = observed[t]
  OBVIOUS
<1>5. call' \in CallType
  BY <1>2, <1>3 DEF CallType
<1>6. ASSUME NEW w \in Window PROVE RowOK(w)'
  <2>1. RowOK(w) /\ Settled(w)
    BY DEF CatalogInv, Settled, NoCall
  <2>2. Shows(catalog[w], w, wstate[w], Counted(w), Lates(w))
    BY <2>1 DEF RowOK
  <2>3. \A s, n, l : Shows(catalog[w], w, s, n, l) = Shows(catalog[w], w, s, n, l)'
    BY <1>1 DEF Shows
  <2>4. Counted(w)' = Counted(w) /\ Lates(w)' = Lates(w)
    BY <1>1 DEF Counted, Lates
  <2>5. CASE w # v
    <3>1. Settled(w)' /\ wstate'[w] = wstate[w]
      BY <1>1, <1>2, <1>4, <2>5 DEF Settled
    <3> QED BY <2>2, <2>3, <2>4, <3>1 DEF RowOK
  <2>6. CASE w = v
    <3>1. ~Settled(w)' /\ wstate'[w] = "closed" /\ wstate[w] = "open"
      BY <1>1, <1>2, <1>3, <1>4, <2>6 DEF Settled
    <3>2. (End(w) <= call.at /\ call.at <= confirmed)'
      BY <1>1, <1>2, <1>4, <2>6 DEF End
    <3> QED BY <1>4, <2>2, <2>3, <2>4, <3>1, <3>2 DEF RowOK
  <2> QED BY <2>5, <2>6
<1>7. (\A w \in Window : RowOK(w))'
  BY <1>6 DEF Window
<1>8. Window' = Window
  BY DEF Window
<1> QED BY <1>4, <1>5, <1>7, <1>8 DEF CatalogInv

(* The catalog hears of a change. *)
LEMMA CallCatalog ==
  ASSUME WindowInv, CatalogInv, UpdateCatalog
  PROVE  CatalogInv'
<1>a. PICK v, r : v = call.window /\ r = catalog[v]
  OBVIOUS
<1>1. /\ UNCHANGED <<wstate, accepted, late, confirmed>>
      /\ CatalogCall
  BY DEF UpdateCatalog, windowVars, trackerVars
<1>2. call.op # "none"
  BY <1>1 DEF CatalogCall, Open, Record
<1>3. /\ v \in Window /\ call \in CallType /\ catalog \in [Window -> EntryType]
      /\ r \in EntryType /\ call.at \in Int
  BY <1>a, <1>2 DEF CatalogInv, CallType
<1>4. ~Settled(v) /\ RowOK(v)
  BY <1>a, <1>2, <1>3 DEF Settled, CatalogInv
<1>5. NoCall \in CallType /\ NoCall.op = "none"
  BY DEF NoCall, CallType
<1>6. /\ Counted(v) \in Int /\ Lates(v) \in Int
  <2>1. /\ IsFiniteSet(accepted) /\ IsFiniteSet(late)
        /\ Members(v, accepted) \subseteq accepted
        /\ Members(v, late) \subseteq late
    BY DEF WindowInv, Members
  <2>2. IsFiniteSet(Members(v, accepted)) /\ IsFiniteSet(Members(v, late))
    BY <2>1, FS_Subset
  <2> QED BY <2>2, FS_CardinalityType DEF Counted, Lates
<1>7. /\ \A w : Counted(w)' = Counted(w) /\ Lates(w)' = Lates(w)
      /\ \A c, w, s, n, l : Shows(c, w, s, n, l)' = Shows(c, w, s, n, l)
  BY <1>1 DEF Counted, Lates, Shows
(* The other windows, whatever row the call leaves. *)
<1>8. ASSUME NEW q \in EntryType, catalog' = [catalog EXCEPT ![v] = q],
             call' \in CallType, call'.op # "none" => call'.window = v,
             RowOK(v)'
      PROVE  CatalogInv'
  <2>1. ASSUME NEW w \in Window, w # v PROVE RowOK(w)'
    <3>1. RowOK(w) /\ Settled(w) /\ Settled(w)' /\ catalog'[w] = catalog[w]
      BY <1>a, <1>3, <1>8, <2>1 DEF CatalogInv, Settled
    <3> QED BY <1>1, <1>7, <3>1 DEF RowOK
  <2>2. \A w \in Window : RowOK(w)'
    BY <1>8, <2>1
  <2>3. catalog' \in [Window -> EntryType]
    BY <1>3, <1>8
  <2>4. Window' = Window
    BY DEF Window
  <2> QED BY <1>3, <1>8, <2>2, <2>3, <2>4 DEF CatalogInv
<1>9. CASE Open
  <2> DEFINE q == OpenEntry(r)
  <2>1. /\ call.op = "open" /\ catalog' = [catalog EXCEPT ![v] = q]
        /\ call' = [call EXCEPT !.op = "event"]
    BY <1>a, <1>9 DEF Open
  <2>2. q = [state |-> "open", events |-> r.events, late |-> r.late,
             closedAt |-> r.closedAt]
    BY <1>3, EntryOps
  <2>3. call' \in CallType /\ call'.op = "event" /\ call'.window = v
    BY <1>a, <1>3, <2>1 DEF CallType
  <2>4. q \in EntryType
    BY <1>3, <2>2 DEF EntryType
  <2>5. wstate[v] = "open" /\ Shows(r, v, "absent", Counted(v) - 1, Lates(v))
    BY <1>a, <1>4, <2>1 DEF RowOK
  <2>6. Shows(q, v, "open", Counted(v) - 1, Lates(v))
    BY <2>2, <2>5 DEF Shows
  <2> HIDE DEF q
  <2>7. catalog'[v] = q /\ ~Settled(v)'
    BY <1>3, <2>1, <2>3 DEF Settled
  <2>8. RowOK(v)'
    BY <1>1, <1>7, <2>3, <2>5, <2>6, <2>7 DEF RowOK
  <2> QED BY <1>8, <2>1, <2>3, <2>4, <2>8
<1>10. ASSUME NEW q \in EntryType, catalog' = [catalog EXCEPT ![v] = q],
              call' = NoCall, Shows(q, v, wstate[v], Counted(v), Lates(v))
       PROVE  CatalogInv'
  <2>1. catalog'[v] = q /\ Settled(v)'
    BY <1>3, <1>5, <1>10 DEF Settled
  <2>2. RowOK(v)'
    BY <1>1, <1>7, <1>10, <2>1 DEF RowOK
  <2> QED BY <1>5, <1>8, <1>10, <2>2
<1>11. CASE Record("event", RecordEvent(r))
  <2> DEFINE q == RecordEvent(r)
  <2>1. /\ call.op = "event" /\ catalog' = [catalog EXCEPT ![v] = q]
        /\ call' = NoCall
    BY <1>a, <1>11 DEF Record
  <2>2. wstate[v] = "open" /\ Shows(r, v, "open", Counted(v) - 1, Lates(v))
    BY <1>a, <1>4, <2>1 DEF RowOK
  <2>3. q = [state |-> r.state, events |-> r.events + 1, late |-> r.late,
             closedAt |-> r.closedAt]
    BY <1>3, <2>2, EntryOps DEF Shows
  <2>4. q \in EntryType
    BY <1>3, <2>3 DEF EntryType
  <2>5. Shows(q, v, "open", Counted(v), Lates(v))
    BY <1>6, <2>2, <2>3 DEF Shows
  <2> HIDE DEF q
  <2> QED BY <1>10, <2>1, <2>2, <2>4, <2>5
<1>12. CASE Record("late", RecordLate(r))
  <2> DEFINE q == RecordLate(r)
  <2>1. /\ call.op = "late" /\ catalog' = [catalog EXCEPT ![v] = q]
        /\ call' = NoCall
    BY <1>a, <1>12 DEF Record
  <2>2. wstate[v] = "closed" /\ Shows(r, v, "closed", Counted(v), Lates(v) - 1)
    BY <1>a, <1>4, <2>1 DEF RowOK
  <2>3. q = [state |-> r.state, events |-> r.events, late |-> r.late + 1,
             closedAt |-> r.closedAt]
    BY <1>3, <2>2, EntryOps DEF Shows
  <2>4. q \in EntryType
    BY <1>3, <2>3 DEF EntryType
  <2>5. Shows(q, v, "closed", Counted(v), Lates(v))
    BY <1>6, <2>2, <2>3 DEF Shows
  <2> HIDE DEF q
  <2> QED BY <1>10, <2>1, <2>2, <2>4, <2>5
<1>13. CASE Record("close", CloseEntry(r, call.at))
  <2> DEFINE q == CloseEntry(r, call.at)
  <2>1. /\ call.op = "close" /\ catalog' = [catalog EXCEPT ![v] = q]
        /\ call' = NoCall
    BY <1>a, <1>13 DEF Record
  <2>2. /\ wstate[v] = "closed" /\ Shows(r, v, "open", Counted(v), Lates(v))
        /\ End(v) <= call.at /\ call.at <= confirmed
    BY <1>a, <1>4, <2>1 DEF RowOK
  <2>3. q = [state |-> "closed", events |-> r.events, late |-> r.late,
             closedAt |-> call.at]
    BY <1>3, EntryOps
  <2>4. q \in EntryType
    BY <1>3, <2>3 DEF EntryType
  <2>5. Shows(q, v, "closed", Counted(v), Lates(v))
    BY <2>2, <2>3 DEF Shows
  <2> HIDE DEF q
  <2> QED BY <1>10, <2>1, <2>2, <2>4, <2>5
<1> QED BY <1>a, <1>1, <1>9, <1>11, <1>12, <1>13 DEF CatalogCall

LEMMA CatalogStepInv ==
  ASSUME WindowInv, CatalogInv, [LayerNext]_layerVars
  PROVE  CatalogInv'
<1>1. current \in Int /\ confirmed \in Int
  BY DEF WindowInv, WindowTypeOK
<1>2. CASE UNCHANGED layerVars
  BY <1>1, <1>2, IdleCatalog DEF layerVars, trackerVars, windowVars
<1>3. CASE (\E ts \in Frontier : AdvanceFrontier(ts)) \/ ConfirmFrontier
  <2>1. /\ UNCHANGED <<catalogVars, windowVars>> /\ confirmed' \in Int
        /\ confirmed <= confirmed'
    BY <1>1, <1>3, FrontierAssumption
       DEF AdvanceFrontier, ConfirmFrontier, Advance, Confirm, Larger
  <2> QED BY <1>1, <2>1, IdleCatalog DEF windowVars
<1>4. CASE \E e \in Event : Arrive(e)
  BY <1>4, ArriveCatalog
<1>5. CASE \E t \in Thread : BeginTrigger(t)
  BY <1>1, <1>5, IdleCatalog DEF BeginTrigger, ReadConfirmed, trackerVars
<1>6. CASE \E t \in Thread : Trigger(t)
  <2>1. PICK t \in Thread : Trigger(t)
    BY <1>6
  <2>2. CASE EndTrigger(t) /\ UNCHANGED call
    BY <1>1, <2>1, <2>2, IdleCatalog
       DEF Trigger, EndTrigger, trackerVars, catalogVars
  <2>3. CASE \E w \in Window :
               /\ CloseWindow(t, w)
               /\ call' = [op |-> "close", window |-> w, at |-> observed[t]]
    BY <2>1, <2>3, CloseCatalog DEF Trigger
  <2> QED BY <2>1, <2>2, <2>3 DEF Trigger
<1>7. CASE UpdateCatalog
  BY <1>7, CallCatalog
<1> QED BY <1>2, <1>3, <1>4, <1>5, <1>6, <1>7 DEF LayerNext

(* What the page shows follows from the invariant. *)
LEMMA InvImpliesCatalog ==
  ASSUME WindowInv, CatalogInv
  PROVE  CatalogAgrees
<1> SUFFICES ASSUME NEW w \in Window
             PROVE  LET row == catalog[w]
                        r == results[w] IN
                    /\ row.state = "closed" => /\ r.emitted
                                               /\ row.events = r.count
                                               /\ End(w) <= row.closedAt
                                               /\ row.closedAt <= confirmed
                    /\ row.late <= r.lateCount
                    /\ call.op = "none" \/ call.window # w =>
                         /\ row.state = wstate[w]
                         /\ row.late = r.lateCount
  BY DEF CatalogAgrees
<1> DEFINE row == catalog[w]
           r == results[w]
<1>1. /\ r \in ResultType /\ WindowOK(w) /\ RowOK(w) /\ row \in EntryType
      /\ call \in CallType
  BY DEF WindowInv, WindowTypeOK, CatalogInv
<1>2. /\ r.lateCount = Lates(w) /\ r.lateCount \in Int
      /\ wstate[w] = "closed" => r.emitted /\ r.count = Counted(w)
  BY <1>1 DEF WindowOK, ResultType, Tally, Lates, Counted
<1>3. CASE Settled(w)
  <2>1. Shows(row, w, wstate[w], Counted(w), Lates(w))
    BY <1>1, <1>3 DEF RowOK
  <2> QED BY <1>2, <2>1 DEF Shows
<1>4. CASE ~Settled(w)
  <2>1. call.op \in {"open", "event", "late", "close"} /\ ~(call.window # w)
    BY <1>1, <1>4 DEF Settled, CallType
  <2>2. CASE call.op \in {"open", "event", "close"}
    <3>1. row.state \in {"absent", "open"} /\ row.late = Lates(w)
      BY <1>1, <1>4, <2>2 DEF RowOK, Shows
    <3> QED BY <1>2, <2>1, <2>2, <3>1
  <2>3. CASE call.op = "late"
    <3>1. wstate[w] = "closed" /\ Shows(row, w, "closed", Counted(w), Lates(w) - 1)
      BY <1>1, <1>4, <2>3 DEF RowOK
    <3> QED BY <1>2, <2>1, <2>3, <3>1 DEF Shows
  <2> QED BY <2>1, <2>2, <2>3
<1> QED BY <1>3, <1>4

(* Whoever reads the catalog and the results, each under its own lock,     *)
(* finds a closed window published and counted alike, and no late event in *)
(* the catalog that the result lacks; once the catalog has heard of the    *)
(* last change, both show the same (catalog.go, RecordEvent, RecordLate    *)
(* and Close).                                                             *)
THEOREM CatalogAgreesHolds == LayerSpec => []CatalogAgrees
<1>1. LayerInit => CatalogInv
  BY CatalogStartInv
<1>2. WindowInv /\ CatalogInv /\ [LayerNext]_layerVars => CatalogInv'
  BY CatalogStepInv
<1>3. WindowInv /\ CatalogInv => CatalogAgrees
  BY InvImpliesCatalog
<1> QED BY <1>1, <1>2, <1>3, WindowInvariant, PTL DEF LayerSpec
=============================================================================
