---------------------------- MODULE DataTheorems ----------------------------
(***************************************************************************)
(* Facts about the data the models are built from, for every size of it:   *)
(* sequences that grow at their end, maxima, and the folds behind results, *)
(* totals and counts.  An induction is written as the absence of a least   *)
(* counterexample, since the provers cannot instantiate an induction       *)
(* theorem that takes the claim as a parameter.                            *)
(***************************************************************************)
EXTENDS SequencesExt, SequenceTheorems, FiniteSetTheorems, TLAPS

(* The elements of a sequence after Append. *)
LEMMA AppendRange ==
  ASSUME NEW S, NEW seq \in Seq(S), NEW x \in S
  PROVE  /\ Append(seq, x) \in Seq(S)
         /\ Range(Append(seq, x)) = Range(seq) \cup {x}
<1>1. /\ Append(seq, x) \in Seq(S)
      /\ Len(Append(seq, x)) = Len(seq) + 1
      /\ \A i \in 1..Len(seq) : Append(seq, x)[i] = seq[i]
      /\ Append(seq, x)[Len(seq) + 1] = x
  BY AppendProperties
<1>2. /\ Len(seq) \in Nat
      /\ DOMAIN seq = 1..Len(seq)
      /\ DOMAIN Append(seq, x) = 1..(Len(seq) + 1)
  BY <1>1, LenProperties
<1>3. 1..(Len(seq) + 1) = 1..Len(seq) \cup {Len(seq) + 1}
  BY <1>2
<1>4. Range(Append(seq, x)) \subseteq Range(seq) \cup {x}
  BY <1>1, <1>2, <1>3 DEF Range
<1>5. Range(seq) \cup {x} \subseteq Range(Append(seq, x))
  BY <1>1, <1>2, <1>3 DEF Range
<1> QED BY <1>1, <1>4, <1>5

(* A sequence without repetitions stays one when a new element is added. *)
LEMMA AppendDistinct ==
  ASSUME NEW S, NEW seq \in Seq(S), NEW x \in S, x \notin Range(seq),
         \A i, j \in DOMAIN seq : seq[i] = seq[j] => i = j
  PROVE  \A i, j \in DOMAIN Append(seq, x) :
           Append(seq, x)[i] = Append(seq, x)[j] => i = j
<1>1. /\ Append(seq, x) \in Seq(S)
      /\ Len(Append(seq, x)) = Len(seq) + 1
      /\ \A i \in 1..Len(seq) : Append(seq, x)[i] = seq[i]
      /\ Append(seq, x)[Len(seq) + 1] = x
  BY AppendProperties
<1>2. /\ Len(seq) \in Nat
      /\ DOMAIN seq = 1..Len(seq)
      /\ DOMAIN Append(seq, x) = 1..(Len(seq) + 1)
  BY <1>1, LenProperties
<1>3. \A i \in 1..Len(seq) : seq[i] # x
  BY <1>2 DEF Range
<1>4. SUFFICES ASSUME NEW i \in 1..(Len(seq) + 1), NEW j \in 1..(Len(seq) + 1),
                      Append(seq, x)[i] = Append(seq, x)[j]
               PROVE  i = j
  BY <1>2
<1>5. i \in 1..Len(seq) \/ i = Len(seq) + 1
  BY <1>2
<1>6. j \in 1..Len(seq) \/ j = Len(seq) + 1
  BY <1>2
<1> QED BY <1>1, <1>2, <1>3, <1>4, <1>5, <1>6
-----------------------------------------------------------------------------
(* A set of natural numbers has a least element. *)
LEMMA LeastElement ==
  ASSUME NEW T, T \subseteq Nat, T # {}
  PROVE  \E m \in T : \A k \in T : m <= k
<1>1. PICK m \in T : \A k \in T : ~ (<<k, m>> \in OpToRel(<, Nat))
  BY NatLessThanWellFounded, WFMin
<1>2. \A k \in T : ~ (k < m)
  BY <1>1 DEF OpToRel
<1>3. \A k \in T : m <= k
  BY <1>2
<1> QED BY <1>3

(* Induction: a set of numbers with 0 and all successors is everything. *)
LEMMA AllNumbers ==
  ASSUME NEW G, 0 \in G, \A n \in Nat : n \in G => n + 1 \in G
  PROVE  Nat \subseteq G
<1>1. SUFFICES ASSUME Nat \ G # {} PROVE FALSE
  OBVIOUS
<1>2. PICK m \in Nat \ G : \A k \in Nat \ G : m <= k
  BY <1>1, LeastElement
<1>3. m # 0 /\ m - 1 \in Nat
  BY <1>2
<1>4. m - 1 \in G
  BY <1>2, <1>3
<1> QED BY <1>2, <1>3, <1>4

(* A set is in G if all its proper subsets are. *)
Hereditary(G, S) ==
  \A s \in SUBSET S : (\A t \in SUBSET s : t # s => t \in G) => s \in G

(* Induction over the subsets of a finite set. *)
LEMMA AllSubsets ==
  ASSUME NEW S, IsFiniteSet(S), NEW G, Hereditary(G, S)
  PROVE  S \in G
<1> DEFINE bad == {s \in SUBSET S : s \notin G}
           sizes == {Cardinality(s) : s \in bad}
<1>1. SUFFICES ASSUME bad # {} PROVE FALSE
  OBVIOUS
<1>2. \A s \in SUBSET S : IsFiniteSet(s) /\ Cardinality(s) \in Nat
  BY FS_Subset, FS_CardinalityType
<1>3. sizes \subseteq Nat /\ sizes # {}
  BY <1>1, <1>2
<1>4. PICK m \in sizes : \A k \in sizes : m <= k
  BY <1>3, LeastElement
<1>5. PICK s \in bad : Cardinality(s) = m
  BY <1>4
<1>6. ASSUME NEW t \in SUBSET s, t # s PROVE t \in G
  <2>1. /\ Cardinality(t) < Cardinality(s)
        /\ Cardinality(t) \in Nat
        /\ Cardinality(s) \in Nat
    BY <1>2, <1>5, <1>6, FS_Subset
  <2>2. Cardinality(t) \notin sizes
    <3> HIDE DEF bad, sizes
    <3> QED BY <1>4, <1>5, <2>1
  <2> QED BY <1>5, <2>2
<1>7. s \in G
  BY <1>5, <1>6 DEF Hereditary
<1> QED BY <1>5, <1>7

-----------------------------------------------------------------------------
(***************************************************************************)
(* Folding a finite set element by element, in the order a choice c gives, *)
(* is well defined: the recursive equation has a solution.                 *)
(***************************************************************************)
IsChoice(c, S) == \A s \in SUBSET S : s # {} => c[s] \in s

IsOperation(op, S, V) == \A x \in S, v \in V : op[x][v] \in V

IsFold(g, c, op, base, S) ==
  \A s \in SUBSET S : g[s] = IF s = {} THEN base ELSE op[c[s]][g[s \ {c[s]}]]

CanFold(S, V, base, c, op) ==
  IsFiniteSet(S) /\ base \in V /\ IsChoice(c, S) /\ IsOperation(op, S, V)

HasFold(S, V, base, c, op) ==
  \E g \in [SUBSET S -> V] : IsFold(g, c, op, base, S)

LEMMA FoldExists ==
  ASSUME NEW S, NEW V, NEW base, NEW c, NEW op, CanFold(S, V, base, c, op)
  PROVE  HasFold(S, V, base, c, op)
<1> USE DEF CanFold, HasFold, IsChoice, IsOperation, IsFold
<1> DEFINE Layer(n) == {s \in SUBSET S : Cardinality(s) <= n}
           Good == {n \in Nat : \E g \in [Layer(n) -> V] : \A s \in Layer(n) :
                      g[s] = IF s = {} THEN base ELSE op[c[s]][g[s \ {c[s]}]]}
<1>1. \A s \in SUBSET S : IsFiniteSet(s) /\ Cardinality(s) \in Nat
  BY FS_Subset, FS_CardinalityType
<1>2. \A s \in SUBSET S : Cardinality(s) = 0 <=> s = {}
  BY <1>1, FS_EmptySet
<1>3. \A s \in SUBSET S : s # {} =>
        /\ c[s] \in S
        /\ s \ {c[s]} \in SUBSET S
        /\ Cardinality(s \ {c[s]}) = Cardinality(s) - 1
  BY <1>1, FS_RemoveElement
<1>4. 0 \in Good
  <2>1. Layer(0) = {{}}
    BY <1>1, <1>2
  <2>2. [s \in Layer(0) |-> base] \in [Layer(0) -> V]
    OBVIOUS
  <2> QED BY <2>1, <2>2
<1>5. ASSUME NEW n \in Nat, n \in Good PROVE n + 1 \in Good
  <2>1. PICK g \in [Layer(n) -> V] : \A s \in Layer(n) :
                g[s] = IF s = {} THEN base ELSE op[c[s]][g[s \ {c[s]}]]
    BY <1>5
  <2> DEFINE h == [s \in Layer(n + 1) |->
                     IF s = {} THEN base ELSE op[c[s]][g[s \ {c[s]}]]]
  <2>2. \A s \in Layer(n + 1) : s # {} => s \ {c[s]} \in Layer(n)
    BY <1>1, <1>3
  <2>3. Layer(n) \subseteq Layer(n + 1)
    BY <1>1
  <2>4. h \in [Layer(n + 1) -> V]
    BY <1>3, <2>2
  <2>5. \A s \in Layer(n) : h[s] = g[s]
    BY <2>1, <2>3
  <2>6. \A s \in Layer(n + 1) :
          h[s] = IF s = {} THEN base ELSE op[c[s]][h[s \ {c[s]}]]
    BY <2>2, <2>5
  <2> HIDE DEF h, Layer
  <2>7. \E f \in [Layer(n + 1) -> V] : \A s \in Layer(n + 1) :
          f[s] = IF s = {} THEN base ELSE op[c[s]][f[s \ {c[s]}]]
    BY <2>4, <2>6
  <2>8. n + 1 \in Nat
    OBVIOUS
  <2> QED BY <2>7, <2>8, Zenon
<1>6. Cardinality(S) \in Nat
  BY FS_CardinalityType
<1>7. Cardinality(S) \in Good
  <2> HIDE DEF Good
  <2> QED BY <1>4, <1>5, <1>6, AllNumbers
<1>8. Layer(Cardinality(S)) = SUBSET S
  <2>1. \A s \in SUBSET S : Cardinality(s) <= Cardinality(S)
    BY FS_Subset
  <2> QED BY <2>1
<1> HIDE DEF Layer
<1> QED BY <1>7, <1>8

(* A fold has only values its operation can give, on every subset. *)
LEMMA FoldType ==
  ASSUME NEW S, NEW V, NEW base, NEW c, NEW op, CanFold(S, V, base, c, op),
         NEW g, IsFold(g, c, op, base, S)
  PROVE  \A s \in SUBSET S : g[s] \in V
<1> USE DEF CanFold
<1> DEFINE G == {s \in SUBSET S : g[s] \in V}
<1>1. ASSUME NEW s \in SUBSET S, \A t \in SUBSET s : t # s => t \in G
      PROVE  s \in G
  <2>1. CASE s = {}
    BY <2>1 DEF IsFold
  <2>2. CASE s # {}
    <3>1. c[s] \in s /\ c[s] \in S
      BY <2>2 DEF IsChoice
    <3>2. s \ {c[s]} \in SUBSET s /\ s \ {c[s]} # s
      BY <3>1
    <3>3. g[s \ {c[s]}] \in V
      BY <1>1, <3>2
    <3>4. g[s] = op[c[s]][g[s \ {c[s]}]]
      BY <2>2 DEF IsFold
    <3> QED BY <3>1, <3>3, <3>4 DEF IsOperation
  <2> QED BY <2>1, <2>2
<1>2. ASSUME NEW s \in SUBSET S PROVE s \in G
  <2>1. IsFiniteSet(s)
    BY FS_Subset
  <2>2. Hereditary(G, s)
    BY <1>1 DEF Hereditary
  <2> HIDE DEF G
  <2> QED BY <2>1, <2>2, AllSubsets
<1> QED BY <1>2

(* Folds that choose and operate alike agree on what they both cover. *)
LEMMA FoldsAgree ==
  ASSUME NEW S, NEW R \in SUBSET S, IsFiniteSet(R), NEW base,
         NEW c, NEW op, NEW g, IsFold(g, c, op, base, S),
         NEW d, NEW o, NEW h, IsFold(h, d, o, base, R),
         IsChoice(d, R),
         \A s \in SUBSET R : s # {} => c[s] = d[s],
         \A x \in R : op[x] = o[x]
  PROVE  g[R] = h[R]
<1> DEFINE G == {s \in SUBSET R : g[s] = h[s]}
<1>1. ASSUME NEW s \in SUBSET R, \A t \in SUBSET s : t # s => t \in G
      PROVE  s \in G
  <2>1. CASE s = {}
    BY <2>1 DEF IsFold
  <2>2. CASE s # {}
    <3>1. d[s] \in s /\ d[s] \in R /\ c[s] = d[s]
      BY <2>2 DEF IsChoice
    <3>2. s \ {d[s]} \in SUBSET s /\ s \ {d[s]} # s
      BY <3>1
    <3>3. g[s \ {d[s]}] = h[s \ {d[s]}]
      BY <1>1, <3>2
    <3>4. g[s] = op[c[s]][g[s \ {c[s]}]]
      BY <2>2 DEF IsFold
    <3>5. h[s] = o[d[s]][h[s \ {d[s]}]]
      BY <2>2 DEF IsFold
    <3>6. op[d[s]] = o[d[s]]
      BY <3>1
    <3> QED BY <3>1, <3>3, <3>4, <3>5, <3>6
  <2> QED BY <2>1, <2>2
<1>2. R \in G
  <2> HIDE DEF G
  <2>1. Hereditary(G, R)
    BY <1>1 DEF Hereditary
  <2> QED BY <2>1, AllSubsets
<1> QED BY <1>2
-----------------------------------------------------------------------------
(***************************************************************************)
(* Sums over a finite set of indices.                                      *)
(***************************************************************************)

(* The element the folds of the community modules take first. *)
Picker(S) == [s \in SUBSET S |-> CHOOSE x \in s : TRUE]

(* Adds f[x] to a sum. *)
Adder(f, S) == [x \in S |-> [v \in Int |-> f[x] + v]]

LEMMA PickerChoice ==
  ASSUME NEW S
  PROVE  IsChoice(Picker(S), S)
BY DEF IsChoice, Picker

LEMMA AdderOperation ==
  ASSUME NEW S, NEW f, \A x \in S : f[x] \in Int
  PROVE  IsOperation(Adder(f, S), S, Int)
BY DEF IsOperation, Adder

(* SumFunctionOnSet is such a fold. *)
LEMMA SumIsFold ==
  ASSUME NEW S, IsFiniteSet(S), NEW f, \A x \in S : f[x] \in Int
  PROVE  \E g \in [SUBSET S -> Int] :
           /\ IsFold(g, Picker(S), Adder(f, S), 0, S)
           /\ SumFunctionOnSet(f, S) = g[S]
<1> DEFINE Body(g) == [s \in SUBSET S |->
                         IF s = {} THEN 0
                         ELSE f[CHOOSE x \in s : TRUE] + g[s \ {CHOOSE x \in s : TRUE}]]
           it == CHOOSE iter : iter = Body(iter)
<1>1. CanFold(S, Int, 0, Picker(S), Adder(f, S))
  BY PickerChoice, AdderOperation DEF CanFold
<1>2. PICK g \in [SUBSET S -> Int] : IsFold(g, Picker(S), Adder(f, S), 0, S)
  <2>1. HasFold(S, Int, 0, Picker(S), Adder(f, S))
    BY <1>1, FoldExists
  <2> QED BY <2>1 DEF HasFold
<1>3. \A s \in SUBSET S : s # {} =>
        /\ Picker(S)[s] = CHOOSE x \in s : TRUE
        /\ Picker(S)[s] \in s
        /\ Picker(S)[s] \in S
        /\ s \ {Picker(S)[s]} \in SUBSET S
  BY DEF Picker
<1>4. \A s \in SUBSET S : g[s] = Body(g)[s]
  <2> SUFFICES ASSUME NEW s \in SUBSET S PROVE g[s] = Body(g)[s]
    OBVIOUS
  <2>1. CASE s = {}
    BY <1>2, <2>1 DEF IsFold
  <2>2. CASE s # {}
    <3>1. g[s] = Adder(f, S)[Picker(S)[s]][g[s \ {Picker(S)[s]}]]
      BY <1>2, <2>2 DEF IsFold
    <3>2. g[s \ {Picker(S)[s]}] \in Int
      BY <1>2, <1>3, <2>2
    <3>3. g[s] = f[Picker(S)[s]] + g[s \ {Picker(S)[s]}]
      BY <1>3, <2>2, <3>1, <3>2 DEF Adder
    <3> QED BY <1>3, <2>2, <3>3
  <2> QED BY <2>1, <2>2
<1>5. g = Body(g)
  BY <1>2, <1>4
<1>6. it = Body(it)
  <2> HIDE DEF Body
  <2> QED BY <1>5
<1>7. SumFunctionOnSet(f, S) = it[S]
  BY DEF SumFunctionOnSet, FoldFunctionOnSet, MapThenFoldSet
<1>8. it[S] = g[S]
  <2> DEFINE G == {s \in SUBSET S : it[s] = g[s]}
  <2>1. /\ \A s \in SUBSET S : s # {} =>
             /\ it[s] = f[Picker(S)[s]] + it[s \ {Picker(S)[s]}]
             /\ g[s] = f[Picker(S)[s]] + g[s \ {Picker(S)[s]}]
        /\ it[{}] = 0 /\ g[{}] = 0
    <3>1. ASSUME NEW i, i = Body(i)
          PROVE  /\ \A s \in SUBSET S : s # {} =>
                      i[s] = f[Picker(S)[s]] + i[s \ {Picker(S)[s]}]
                 /\ i[{}] = 0
      BY <1>3, <3>1
    <3> HIDE DEF Body, it
    <3> QED BY <1>5, <1>6, <3>1
  <2> HIDE DEF it
  <2>2. ASSUME NEW s \in SUBSET S, \A t \in SUBSET s : t # s => t \in G
        PROVE  s \in G
    <3>1. CASE s = {}
      BY <2>1, <3>1
    <3>2. CASE s # {}
      <4>1. s \ {Picker(S)[s]} \in SUBSET s /\ s \ {Picker(S)[s]} # s
        BY <1>3, <3>2
      <4>2. it[s \ {Picker(S)[s]}] = g[s \ {Picker(S)[s]}]
        BY <2>2, <4>1
      <4> QED BY <2>1, <3>2, <4>2
    <3> QED BY <3>1, <3>2
  <2>3. S \in G
    <3> HIDE DEF G
    <3>1. Hereditary(G, S)
      BY <2>2 DEF Hereditary
    <3> QED BY <3>1, AllSubsets
  <2> QED BY <2>3
<1> HIDE DEF it
<1> QED BY <1>2, <1>7, <1>8

LEMMA SumType ==
  ASSUME NEW S, IsFiniteSet(S), NEW f, \A x \in S : f[x] \in Int
  PROVE  SumFunctionOnSet(f, S) \in Int
<1>1. PICK g \in [SUBSET S -> Int] : SumFunctionOnSet(f, S) = g[S]
  BY SumIsFold
<1>2. S \in SUBSET S
  OBVIOUS
<1> QED BY <1>1, <1>2

LEMMA SumEmpty ==
  ASSUME NEW f
  PROVE  SumFunctionOnSet(f, {}) = 0
BY SumIsFold, FS_EmptySet DEF IsFold

(* Functions that agree on the set have the same sum. *)
LEMMA SumAgrees ==
  ASSUME NEW S, IsFiniteSet(S), NEW f, \A x \in S : f[x] \in Int,
         NEW h, \A x \in S : h[x] = f[x]
  PROVE  SumFunctionOnSet(h, S) = SumFunctionOnSet(f, S)
<1>1. Adder(f, S) = Adder(h, S)
  BY DEF Adder
<1>2. PICK g \in [SUBSET S -> Int] :
        IsFold(g, Picker(S), Adder(f, S), 0, S) /\ SumFunctionOnSet(f, S) = g[S]
  BY SumIsFold
<1>3. PICK k \in [SUBSET S -> Int] :
        IsFold(k, Picker(S), Adder(f, S), 0, S) /\ SumFunctionOnSet(h, S) = k[S]
  BY <1>1, SumIsFold
<1>4. S \in SUBSET S /\ IsChoice(Picker(S), S)
  BY PickerChoice
<1>5. g[S] = k[S]
  BY <1>2, <1>3, <1>4, FoldsAgree
<1> QED BY <1>2, <1>3, <1>5

(* The sum without the element a fold takes first. *)
LEMMA SumRemoveFirst ==
  ASSUME NEW S, IsFiniteSet(S), S # {}, NEW f, \A x \in S : f[x] \in Int
  PROVE  LET x == CHOOSE x \in S : TRUE IN
         SumFunctionOnSet(f, S) = f[x] + SumFunctionOnSet(f, S \ {x})
<1> DEFINE x == CHOOSE x \in S : TRUE
           R == S \ {x}
<1>1. x \in S /\ R \in SUBSET S /\ IsFiniteSet(R)
  BY FS_Subset
<1>2. PICK g \in [SUBSET S -> Int] :
        IsFold(g, Picker(S), Adder(f, S), 0, S) /\ SumFunctionOnSet(f, S) = g[S]
  BY SumIsFold
<1>3. \A y \in R : f[y] \in Int
  OBVIOUS
<1>4. PICK k \in [SUBSET R -> Int] :
        IsFold(k, Picker(R), Adder(f, R), 0, R) /\ SumFunctionOnSet(f, R) = k[R]
  <2> HIDE DEF R
  <2> QED BY <1>1, <1>3, SumIsFold
<1>5. \A s \in SUBSET R : s # {} => Picker(S)[s] = Picker(R)[s]
  BY DEF Picker
<1>6. \A y \in R : Adder(f, S)[y] = Adder(f, R)[y]
  BY DEF Adder
<1>7. g[R] = k[R]
  <2>1. IsChoice(Picker(R), R)
    BY PickerChoice
  <2> HIDE DEF R
  <2> QED BY <1>1, <1>2, <1>4, <1>5, <1>6, <2>1, FoldsAgree
<1>8. Picker(S)[S] = x
  BY DEF Picker
<1>9. g[S] = Adder(f, S)[x][g[R]]
  BY <1>2, <1>8 DEF IsFold
<1>10. g[S] = f[x] + g[R]
  BY <1>1, <1>2, <1>9 DEF Adder
<1> QED BY <1>2, <1>4, <1>7, <1>10

(* The sum without any one element: the order does not matter. *)
LEMMA SumRemove ==
  ASSUME NEW S, IsFiniteSet(S), NEW f, \A x \in S : f[x] \in Int, NEW e \in S
  PROVE  SumFunctionOnSet(f, S) = f[e] + SumFunctionOnSet(f, S \ {e})
<1> DEFINE sum(s) == SumFunctionOnSet(f, s)
           G == {s \in SUBSET S : \A x \in s : sum(s) = f[x] + sum(s \ {x})}
<1>1. \A s \in SUBSET S : IsFiniteSet(s) /\ sum(s) \in Int
  BY FS_Subset, SumType
<1>2. ASSUME NEW s \in SUBSET S, \A t \in SUBSET s : t # s => t \in G,
             NEW x \in s
      PROVE  sum(s) = f[x] + sum(s \ {x})
  <2> DEFINE y == CHOOSE y \in s : TRUE
  <2>1. y \in s
    OBVIOUS
  <2>2. sum(s) = f[y] + sum(s \ {y})
    BY <1>1, <1>2, SumRemoveFirst
  <2> HIDE DEF sum, y
  <2>3. CASE x = y
    BY <2>2, <2>3
  <2>4. CASE x # y
    <3>1. /\ s \ {x} \in SUBSET s /\ s \ {x} # s /\ y \in s \ {x}
          /\ s \ {y} \in SUBSET s /\ s \ {y} # s /\ x \in s \ {y}
      BY <2>1, <2>4
    <3>2. sum(s \ {x}) = f[y] + sum((s \ {x}) \ {y})
      BY <1>2, <3>1
    <3>3. sum(s \ {y}) = f[x] + sum((s \ {y}) \ {x})
      BY <1>2, <3>1
    <3> DEFINE r == sum((s \ {y}) \ {x})
    <3>4. sum(s \ {x}) = f[y] + r /\ sum(s \ {y}) = f[x] + r
      <4>1. (s \ {x}) \ {y} = (s \ {y}) \ {x}
        OBVIOUS
      <4> QED BY <3>2, <3>3, <4>1
    <3>5. f[x] \in Int /\ f[y] \in Int /\ r \in Int
      BY <1>1, <2>1
    <3> HIDE DEF r
    <3> QED BY <2>2, <3>4, <3>5
  <2> QED BY <2>3, <2>4
<1>3. Hereditary(G, S)
  <2> HIDE DEF sum
  <2> QED BY <1>2 DEF Hereditary
<1>4. S \in G
  <2> HIDE DEF G
  <2> QED BY <1>3, AllSubsets
<1> QED BY <1>4

LEMMA SumAdd ==
  ASSUME NEW S, IsFiniteSet(S), NEW e, e \notin S,
         NEW f, \A x \in S \cup {e} : f[x] \in Int
  PROVE  SumFunctionOnSet(f, S \cup {e}) = f[e] + SumFunctionOnSet(f, S)
<1>1. (S \cup {e}) \ {e} = S /\ IsFiniteSet(S \cup {e}) /\ e \in S \cup {e}
  BY FS_AddElement
<1> QED BY <1>1, SumRemove

(* A function with at most one entry sums to that entry. *)
LEMMA SumSingle ==
  ASSUME NEW S, IsFiniteSet(S), NEW f, NEW e \in S, f[e] \in Int,
         \A x \in S : x # e => f[x] = 0
  PROVE  SumFunctionOnSet(f, S) = f[e]
<1> DEFINE R == S \ {e}
           G == {s \in SUBSET R : SumFunctionOnSet(f, s) = 0}
<1>1. \A s \in SUBSET R : IsFiniteSet(s) /\ \A x \in s : f[x] = 0
  BY FS_Subset
<1>2. ASSUME NEW s \in SUBSET R, \A t \in SUBSET s : t # s => t \in G
      PROVE  s \in G
  <2>1. CASE s = {}
    BY <2>1, SumEmpty
  <2>2. CASE s # {}
    <3>1. PICK x \in s : TRUE
      BY <2>2
    <3>2. SumFunctionOnSet(f, s) = f[x] + SumFunctionOnSet(f, s \ {x})
      BY <1>1, SumRemove
    <3>3. SumFunctionOnSet(f, s \ {x}) = 0
      BY <1>2, <3>1
    <3> QED BY <1>1, <3>2, <3>3
  <2> QED BY <2>1, <2>2
<1>3. R \in G
  <2>1. Hereditary(G, R)
    BY <1>2 DEF Hereditary
  <2>2. IsFiniteSet(R)
    BY <1>1
  <2> HIDE DEF G, R
  <2> QED BY <2>1, <2>2, AllSubsets
<1>4. SumFunctionOnSet(f, S) = f[e] + SumFunctionOnSet(f, R)
  BY SumRemove
<1> QED BY <1>3, <1>4
-----------------------------------------------------------------------------
(* The greatest index of a nonempty set of indices. *)
LEMMA MaxIndex ==
  ASSUME NEW n \in Nat, NEW s \in SUBSET (1..n), s # {}
  PROVE  Max(s) \in s /\ \A y \in s : Max(s) >= y
<1> DEFINE gaps == {k \in Nat : \E x \in s : k = n - x}
<1>1. gaps \subseteq Nat /\ gaps # {}
  <2>1. PICK x \in s : TRUE
    OBVIOUS
  <2>2. x \in Int /\ n - x \in Nat
    OBVIOUS
  <2> QED BY <2>2
<1>2. PICK m \in gaps : \A k \in gaps : m <= k
  BY <1>1, LeastElement
<1>3. PICK x \in s : m = n - x
  BY <1>2
<1>4. \A y \in s : x >= y
  <2> TAKE y \in s
  <2>1. x \in Int /\ y \in Int /\ n - y \in Nat
    OBVIOUS
  <2>2. n - x <= n - y
    BY <1>2, <1>3, <2>1
  <2> QED BY <2>1, <2>2
<1> QED BY <1>3, <1>4 DEF Max

(***************************************************************************)
(* FoldLeft takes the last index of a sequence first.                      *)
(***************************************************************************)
LastPicker(S) == [s \in SUBSET S |-> Max(s)]

LEMMA LastPickerChoice ==
  ASSUME NEW n \in Nat
  PROVE  IsChoice(LastPicker(1..n), 1..n)
BY MaxIndex DEF IsChoice, LastPicker

(* g folds sequences of length n over values V. *)
IsSeqFold(g, n, V, base, op) ==
  /\ g \in [SUBSET (1..n) -> V]
  /\ IsFold(g, LastPicker(1..n), op, base, 1..n)

(* One element more is one operation more. *)
LEMMA FoldLast ==
  ASSUME NEW n \in Nat, NEW V, NEW base,
         NEW op, NEW g, IsSeqFold(g, n + 1, V, base, op),
         NEW o, NEW h, IsSeqFold(h, n, V, base, o),
         \A i \in 1..n : op[i] = o[i]
  PROVE  g[1..(n + 1)] = op[n + 1][h[1..n]] /\ h[1..n] \in V
<1> DEFINE m == n + 1
           S == 1..m
           R == 1..n
<1>1. R \in SUBSET S /\ S \ {m} = R /\ m \in S /\ S # {} /\ m \in Nat
  <2>1. n + 1 \in 1..(n + 1) /\ n + 1 \in Nat
    OBVIOUS
  <2>2. \A i : i \in 1..n <=> i \in 1..(n + 1) /\ i # n + 1
    OBVIOUS
  <2> QED BY <2>1, <2>2
<1>2. Max(S) = m
  <2>1. Max(S) \in S /\ \A y \in S : Max(S) >= y
    BY <1>1, MaxIndex
  <2> QED BY <1>1, <2>1
<1>3. g[R] = h[R]
  <2>1. IsFiniteSet(R) /\ IsChoice(LastPicker(R), R)
    BY LastPickerChoice, FS_Interval
  <2>2. \A s \in SUBSET R : s # {} => LastPicker(S)[s] = LastPicker(R)[s]
    BY <1>1 DEF LastPicker
  <2> HIDE DEF R, S
  <2>3. /\ IsFold(g, LastPicker(S), op, base, S)
        /\ IsFold(h, LastPicker(R), o, base, R)
        /\ \A i \in R : op[i] = o[i]
    BY DEF R, S, IsSeqFold
  <2> QED BY <1>1, <2>1, <2>2, <2>3, FoldsAgree
<1>4. LastPicker(S)[S] = m
  BY <1>2 DEF LastPicker
<1>5. g[S] = op[m][g[R]]
  <2>1. IsFold(g, LastPicker(S), op, base, S) /\ S \in SUBSET S
    BY DEF IsSeqFold
  <2> HIDE DEF S, m
  <2>2. g[S] = op[LastPicker(S)[S]][g[S \ {LastPicker(S)[S]}]]
    BY <1>1, <2>1 DEF IsFold
  <2> QED BY <1>1, <1>4, <2>2
<1>6. g[R] \in V
  BY <1>1 DEF IsSeqFold
<1> QED BY <1>3, <1>5, <1>6

(* A slice of a sequence, one element longer. *)
LEMMA SubSeqAppend ==
  ASSUME NEW T, NEW vals \in Seq(T), NEW m \in 1..Len(vals),
         NEW n \in m..Len(vals)
  PROVE  /\ SubSeq(vals, m, n) = Append(SubSeq(vals, m, n - 1), vals[n])
         /\ SubSeq(vals, m, n - 1) \in Seq(T)
         /\ vals[n] \in T
<1>1. Len(vals) \in Nat /\ m \in Int /\ n - 1 \in Int
      /\ \A i \in 1..Len(vals) : vals[i] \in T
  BY LenProperties, ElementOfSeq
<1>2. \A i \in m..(n - 1) : vals[i] \in T
  BY <1>1
<1>3. SubSeq(vals, m, n - 1) \in Seq(T)
  BY <1>1, <1>2, SubSeqProperties
<1>4. vals[n] \in T
  BY <1>1
<1>5. SubSeq(vals, m, n) = SubSeq(vals, m, n - 1) \o <<vals[n]>>
  BY SubSeqRecursiveSecond
<1> QED BY <1>3, <1>4, <1>5, AppendIsConcat
=============================================================================
