---------------------------- MODULE SequenceLemmas ---------------------------
(***************************************************************************)
(* Folds over sequences that recur over their length or over a set of      *)
(* indices.                                                                *)
(*                                                                         *)
(* Two sums of natural numbers, FoldLeft over a sequence and MapThenSumSet *)
(* over some of its indices, agree when they go over the same numbers,     *)
(* though they take them in different orders.  Both are the cardinality of *)
(* a set that has as many elements as the numbers have units, so nothing   *)
(* need be said of how the folds recur but that one element is taken out   *)
(* at a time.                                                              *)
(*                                                                         *)
(* FlattenSeq appends one sequence after the other: the function it recurs *)
(* by exists and is the only one, by the least index where it would not.   *)
(***************************************************************************)
EXTENDS SequencesExt, IntegerLemmas, FiniteSetTheorems, FunctionTheorems

\* For each index in S as many pairs as the number there has units.
Units(s, S) == {u \in S \X (Nat \ {0}) : u[2] <= s[u[1]]}

\* Taking an index out of the set takes out its number of units.
LEMMA UnitsStep ==
  ASSUME NEW s \in Seq(Nat), NEW S \in SUBSET DOMAIN s, NEW x \in S,
         IsFiniteSet(Units(s, S \ {x}))
  PROVE  /\ IsFiniteSet(Units(s, S))
         /\ Cardinality(Units(s, S)) = s[x] + Cardinality(Units(s, S \ {x}))
<1> DEFINE N == {x} \X (1..s[x])
<1>1. x \in DOMAIN s /\ s[x] \in Nat
  OBVIOUS
<1>2. IsFiniteSet(N) /\ Cardinality(N) = s[x]
  <2>1. IsFiniteSet({x}) /\ Cardinality({x}) = 1
    BY FS_Singleton
  <2>2. IsFiniteSet(1..s[x]) /\ Cardinality(1..s[x]) = s[x]
    <3>1. 1 \in Int /\ s[x] \in Int
      BY <1>1
    <3>. QED
      BY <1>1, <3>1, FS_Interval
  <2>3. IsFiniteSet(N) /\ Cardinality(N) = 1 * s[x]
    <3>1. PICK A, B : A = {x} /\ B = 1..s[x]
      OBVIOUS
    <3>2. IsFiniteSet(A) /\ IsFiniteSet(B) /\ Cardinality(A) = 1 /\ Cardinality(B) = s[x]
      BY <2>1, <2>2, <3>1
    <3>3. IsFiniteSet(A \X B) /\ Cardinality(A \X B) = Cardinality(A) * Cardinality(B)
      BY <3>2, FS_Product
    <3>. QED
      BY <3>1, <3>2, <3>3
  <2>. QED
    BY <1>1, <2>3
<1>3. Units(s, S) = Units(s, S \ {x}) \cup N
  <2>1. ASSUME NEW u \in Units(s, S)
        PROVE  u \in Units(s, S \ {x}) \cup N
    <3>1. /\ u = <<u[1], u[2]>> /\ u[1] \in S /\ u[2] \in Nat \ {0} /\ u[2] <= s[u[1]]
      BY <2>1 DEF Units
    <3>2. CASE u[1] = x
      <4>1. u[2] \in 1..s[x]
        BY <1>1, <3>1, <3>2
      <4>. QED
        BY <3>1, <3>2, <4>1
    <3>3. CASE u[1] # x
      BY <3>1, <3>3 DEF Units
    <3>. QED
      BY <3>2, <3>3
  <2>2. N \subseteq Units(s, S)
    BY <1>1 DEF Units
  <2>3. Units(s, S \ {x}) \subseteq Units(s, S)
    BY DEF Units
  <2>. QED
    BY <2>1, <2>2, <2>3
<1>4. Units(s, S \ {x}) \cap N = {}
  BY DEF Units
<1>5. /\ IsFiniteSet(Units(s, S \ {x}) \cup N)
      /\ Cardinality(Units(s, S \ {x}) \cup N)
           = Cardinality(Units(s, S \ {x})) + Cardinality(N)
               - Cardinality(Units(s, S \ {x}) \cap N)
  BY <1>2, FS_Union
<1>6. Cardinality(Units(s, S \ {x}) \cap N) = 0
  BY <1>4, FS_EmptySet
<1>7. Cardinality(Units(s, S \ {x})) \in Nat
  BY FS_CardinalityType
<1>. QED
  <2> HIDE DEF N
  <2>. QED
    BY <1>1, <1>2, <1>3, <1>5, <1>6, <1>7

\* Units(s, {}) is empty.
LEMMA UnitsEmpty ==
  ASSUME NEW s
  PROVE  Units(s, {}) = {} /\ IsFiniteSet(Units(s, {})) /\ Cardinality(Units(s, {})) = 0
<1>1. Units(s, {}) = {}
  BY DEF Units
<1>. QED
  BY <1>1, FS_EmptySet

\* The indices of a sequence, and the sets of them, are finite.
LEMMA IndicesFinite ==
  ASSUME NEW s \in Seq(Nat), NEW S \in SUBSET DOMAIN s
  PROVE  IsFiniteSet(S) /\ Cardinality(S) \in Nat
<1>1. DOMAIN s = 1..Len(s) /\ 1 \in Int /\ Len(s) \in Int
  OBVIOUS
<1>2. IsFiniteSet(DOMAIN s)
  BY <1>1, FS_Interval
<1>. QED
  BY <1>2, FS_Subset, FS_CardinalityType

\* There are finitely many units.
LEMMA UnitsFinite ==
  ASSUME NEW s \in Seq(Nat), NEW S \in SUBSET DOMAIN s
  PROVE  IsFiniteSet(Units(s, S)) /\ Cardinality(Units(s, S)) \in Nat
<1> DEFINE Bad == {T \in SUBSET S : ~IsFiniteSet(Units(s, T))}
           Sizes == {Cardinality(T) : T \in Bad}
<1> SUFFICES Bad = {}
  BY FS_CardinalityType
<1> SUFFICES ASSUME Bad # {} PROVE FALSE
  OBVIOUS
<1>1. \A T \in SUBSET S : IsFiniteSet(T) /\ Cardinality(T) \in Nat
  BY IndicesFinite
<1>2. Sizes \subseteq Nat /\ Sizes # {}
  BY <1>1
<1>3. PICK m \in Sizes : \A k \in Sizes : m <= k
  <2> HIDE DEF Sizes
  <2>. QED
    BY <1>2, LeastElement
<1>4. PICK T \in Bad : Cardinality(T) = m
  OBVIOUS
<1>5. T # {}
  BY UnitsEmpty
<1>6. PICK x \in T : TRUE
  BY <1>5
<1>7. T \ {x} \in SUBSET S /\ Cardinality(T \ {x}) = Cardinality(T) - 1
  BY <1>1, FS_RemoveElement
<1>8. T \ {x} \notin Bad
  <2>1. ASSUME T \ {x} \in Bad PROVE FALSE
    <3>1. Cardinality(T \ {x}) \in Sizes
      BY <2>1
    <3>2. m <= Cardinality(T \ {x})
      BY <1>3, <3>1
    <3>. QED
      BY <1>1, <1>4, <1>7, <3>2
  <2>. QED
    BY <2>1
<1>9. IsFiniteSet(Units(s, T \ {x}))
  BY <1>7, <1>8
<1>10. IsFiniteSet(Units(s, T))
  <2>1. T \in SUBSET DOMAIN s
    OBVIOUS
  <2>. QED
    BY <1>6, <1>9, <2>1, UnitsStep
<1>. QED
  BY <1>4, <1>10

\* sum is, of each part of D, the sum of the numbers of s at the indices that pick takes
\* out one after the other.
IsSum(s, D, pick, sum) ==
  \A S \in SUBSET D :
    IF S = {} THEN sum[S] = 0
    ELSE /\ pick[S] \in S
         /\ \/ sum[S] = s[pick[S]] + sum[S \ {pick[S]}]
            \/ sum[S] = sum[S \ {pick[S]}] + s[pick[S]]

\* sum is, of each part of D, the number of units.
CountsUnits(s, D, sum) == \A S \in SUBSET D : sum[S] = Cardinality(Units(s, S))

\* What takes the numbers out one index at a time counts their units, whatever the order.
LEMMA SumCountsUnits ==
  ASSUME NEW s \in Seq(Nat), NEW D \in SUBSET DOMAIN s, NEW pick, NEW sum,
         IsSum(s, D, pick, sum)
  PROVE  CountsUnits(s, D, sum)
<1> DEFINE Bad == {S \in SUBSET D : sum[S] # Cardinality(Units(s, S))}
           Sizes == {Cardinality(T) : T \in Bad}
<1> SUFFICES ASSUME Bad # {} PROVE FALSE
  BY DEF CountsUnits
<1>1. \A T \in SUBSET D : IsFiniteSet(T) /\ Cardinality(T) \in Nat
  BY IndicesFinite
<1>2. Sizes \subseteq Nat /\ Sizes # {}
  BY <1>1
<1>3. PICK m \in Sizes : \A k \in Sizes : m <= k
  <2> HIDE DEF Sizes
  <2>. QED
    BY <1>2, LeastElement
<1>4. PICK T \in Bad : Cardinality(T) = m
  OBVIOUS
<1>5. T # {}
  BY UnitsEmpty DEF IsSum
<1>6. PICK x \in T : x = pick[T]
  BY <1>5 DEF IsSum
<1>7. T \ {x} \in SUBSET D /\ Cardinality(T \ {x}) = Cardinality(T) - 1
  BY <1>1, FS_RemoveElement
<1>8. T \ {x} \notin Bad
  <2>1. ASSUME T \ {x} \in Bad PROVE FALSE
    <3>1. Cardinality(T \ {x}) \in Sizes
      BY <2>1
    <3>2. m <= Cardinality(T \ {x})
      BY <1>3, <3>1
    <3>. QED
      BY <1>1, <1>4, <1>7, <3>2
  <2>. QED
    BY <2>1
<1>9. sum[T \ {x}] = Cardinality(Units(s, T \ {x}))
  BY <1>7, <1>8
<1>10. sum[T] = s[x] + sum[T \ {x}]
  <2>1. Cardinality(Units(s, T \ {x})) \in Nat /\ s[x] \in Nat
    BY <1>7, UnitsFinite
  <2>2. sum[T] = s[x] + sum[T \ {x}] \/ sum[T] = sum[T \ {x}] + s[x]
    BY <1>5, <1>6 DEF IsSum
  <2>. QED
    BY <1>9, <2>1, <2>2
<1>11. Cardinality(Units(s, T)) = s[x] + Cardinality(Units(s, T \ {x}))
  <2>1. T \in SUBSET DOMAIN s
    OBVIOUS
  <2>2. IsFiniteSet(Units(s, T \ {x}))
    BY <1>7, UnitsFinite
  <2>. QED
    BY <1>6, <2>1, <2>2, UnitsStep
<1>. QED
  BY <1>4, <1>9, <1>10, <1>11

\* FoldLeft with + is the number of units.
LEMMA FoldLeftCounts ==
  ASSUME NEW s \in Seq(Nat)
  PROVE  FoldLeft(+, 0, s) = Cardinality(Units(s, DOMAIN s))
<1> DEFINE D == DOMAIN s
           Step(g) == [S \in SUBSET D |->
                         IF S = {} THEN 0 ELSE g[S \ {Max(S)}] + s[Max(S)]]
           sum == CHOOSE g : g = Step(g)
           units == [S \in SUBSET D |-> Cardinality(Units(s, S))]
           pick == [S \in SUBSET D |-> Max(S)]
<1>1. \A S \in SUBSET D : S # {} => Max(S) \in S
  <2> SUFFICES ASSUME NEW S \in SUBSET D, S # {} PROVE Max(S) \in S
    OBVIOUS
  <2>1. Len(s) \in Nat /\ S \subseteq 0..Len(s)
    OBVIOUS
  <2>. QED
    BY <2>1, MaxIsGreatest
<1>2. units = Step(units)
  <2> SUFFICES ASSUME NEW S \in SUBSET D
               PROVE  units[S] = IF S = {} THEN 0 ELSE units[S \ {Max(S)}] + s[Max(S)]
    OBVIOUS
  <2>1. CASE S = {}
    BY <2>1, UnitsEmpty
  <2>2. CASE S # {}
    <3>1. PICK x \in S : x = Max(S)
      BY <1>1, <2>2
    <3>2. /\ S \ {x} \in SUBSET D
          /\ IsFiniteSet(Units(s, S \ {x})) /\ Cardinality(Units(s, S \ {x})) \in Nat
      BY UnitsFinite
    <3>3. Cardinality(Units(s, S)) = s[x] + Cardinality(Units(s, S \ {x}))
      BY <3>2, UnitsStep
    <3>4. s[x] \in Nat
      OBVIOUS
    <3>. QED
      BY <2>2, <3>1, <3>2, <3>3, <3>4
  <2>. QED
    BY <2>1, <2>2
<1>3. sum = Step(sum)
  <2> HIDE DEF units, Step
  <2>. QED
    BY <1>2
<1>4. \A S \in SUBSET D : pick[S] = Max(S)
  OBVIOUS
<1>5. \A S \in SUBSET D : sum[S] = IF S = {} THEN 0 ELSE sum[S \ {Max(S)}] + s[Max(S)]
  <2> HIDE DEF sum
  <2>. QED
    BY <1>3
<1>6. \A S \in SUBSET D : sum[S] = Cardinality(Units(s, S))
  <2> HIDE DEF sum, pick
  <2>1. PICK p, g : p = pick /\ g = sum
    OBVIOUS
  <2>2. IsSum(s, D, p, g)
    BY <1>1, <1>4, <1>5, <2>1 DEF IsSum
  <2>3. CountsUnits(s, D, g)
    <3>1. D \in SUBSET DOMAIN s
      OBVIOUS
    <3> HIDE DEF D
    <3>. QED
      BY <2>2, <3>1, SumCountsUnits
  <2>. QED
    BY <2>1, <2>3 DEF CountsUnits
<1>7. FoldLeft(+, 0, s) = sum[D]
  BY Zenon DEF FoldLeft, MapThenFoldSet
<1>. QED
  BY <1>6, <1>7

\* MapThenSumSet over indices of a sequence is the number of their units.
LEMMA MapThenSumCounts ==
  ASSUME NEW s \in Seq(Nat), NEW D \in SUBSET DOMAIN s
  PROVE  MapThenSumSet(LAMBDA i : s[i], D) = Cardinality(Units(s, D))
<1> DEFINE any(S) == CHOOSE x \in S : TRUE
           Step(g) == [S \in SUBSET D |->
                         IF S = {} THEN 0 ELSE s[any(S)] + g[S \ {any(S)}]]
           sum == CHOOSE g : g = Step(g)
           units == [S \in SUBSET D |-> Cardinality(Units(s, S))]
           pick == [S \in SUBSET D |-> any(S)]
<1>1. \A S \in SUBSET D : S # {} => any(S) \in S
  OBVIOUS
<1>2. units = Step(units)
  <2> HIDE DEF any
  <2> SUFFICES ASSUME NEW S \in SUBSET D
               PROVE  units[S] = IF S = {} THEN 0 ELSE s[any(S)] + units[S \ {any(S)}]
    OBVIOUS
  <2>1. CASE S = {}
    BY <2>1, UnitsEmpty
  <2>2. CASE S # {}
    <3>1. PICK x \in S : x = any(S)
      BY <1>1, <2>2
    <3>2. /\ S \ {x} \in SUBSET D /\ S \in SUBSET DOMAIN s /\ S \ {x} \in SUBSET DOMAIN s
          /\ IsFiniteSet(Units(s, S \ {x}))
      BY UnitsFinite
    <3>3. Cardinality(Units(s, S)) = s[x] + Cardinality(Units(s, S \ {x}))
      BY <3>2, UnitsStep
    <3>. QED
      BY <2>2, <3>1, <3>2, <3>3
  <2>. QED
    BY <2>1, <2>2
<1>3. sum = Step(sum)
  <2> HIDE DEF units, Step
  <2>. QED
    BY <1>2
<1>4. \A S \in SUBSET D : pick[S] = any(S)
  OBVIOUS
<1>5. \A S \in SUBSET D : sum[S] = IF S = {} THEN 0 ELSE s[any(S)] + sum[S \ {any(S)}]
  <2> HIDE DEF sum, any
  <2>. QED
    BY <1>3
<1>6. \A S \in SUBSET D : sum[S] = Cardinality(Units(s, S))
  <2> HIDE DEF sum, pick, any
  <2>1. PICK p, g : p = pick /\ g = sum
    OBVIOUS
  <2>2. IsSum(s, D, p, g)
    BY <1>1, <1>4, <1>5, <2>1 DEF IsSum
  <2>3. CountsUnits(s, D, g)
    BY <2>2, SumCountsUnits
  <2>. QED
    BY <2>1, <2>3 DEF CountsUnits
<1>7. MapThenSumSet(LAMBDA i : s[i], D) = sum[D]
  BY Zenon DEF MapThenSumSet, MapThenFoldSet
<1>. QED
  BY <1>6, <1>7

\* The sum of a sequence is the sum of the same numbers where they stand in another one.
LEMMA SumOfPart ==
  ASSUME NEW s \in Seq(Nat), NEW u \in Seq(Nat), NEW d \in Nat, NEW D \in SUBSET DOMAIN s,
         D = (d + 1)..(d + Len(u)),
         \A i \in DOMAIN u : u[i] = s[d + i]
  PROVE  FoldLeft(+, 0, u) = MapThenSumSet(LAMBDA i : s[i], D)
<1> DEFINE U == Units(u, DOMAIN u)
           T == Units(s, D)
           shift == [x \in U |-> <<d + x[1], x[2]>>]
<1>1. DOMAIN u = 1..Len(u) /\ Len(u) \in Nat /\ \A i \in DOMAIN u : u[i] \in Nat
  OBVIOUS
<1>2. \A x \in U : /\ x = <<x[1], x[2]>> /\ x[1] \in 1..Len(u)
                   /\ x[2] \in Nat \ {0} /\ x[2] <= u[x[1]]
  BY <1>1 DEF Units
<1>3. shift \in [U -> T]
  <2> SUFFICES ASSUME NEW x \in U PROVE <<d + x[1], x[2]>> \in T
    OBVIOUS
  <2>1. d + x[1] \in D
    BY <1>1, <1>2
  <2>. QED
    BY <1>1, <1>2, <2>1 DEF Units
<1>4. \A x, y \in U : shift[x] = shift[y] => x = y
  <2> SUFFICES ASSUME NEW x \in U, NEW y \in U, shift[x] = shift[y] PROVE x = y
    OBVIOUS
  <2>1. d + x[1] = d + y[1] /\ x[2] = y[2]
    OBVIOUS
  <2>2. x[1] = y[1]
    BY <1>1, <1>2, <2>1
  <2>. QED
    BY <1>2, <2>1, <2>2
<1>5. \A y \in T : \E x \in U : shift[x] = y
  <2> SUFFICES ASSUME NEW y \in T PROVE \E x \in U : shift[x] = y
    OBVIOUS
  <2>1. /\ y = <<y[1], y[2]>> /\ y[1] \in D /\ y[2] \in Nat \ {0} /\ y[2] <= s[y[1]]
    BY DEF Units
  <2>2. y[1] - d \in DOMAIN u /\ d + (y[1] - d) = y[1]
    BY SMTT(30), <1>1, <2>1
  <2>3. <<y[1] - d, y[2]>> \in U
    BY <2>1, <2>2 DEF Units
  <2>4. shift[<<y[1] - d, y[2]>>] = y
    BY <2>1, <2>2, <2>3
  <2>. QED
    BY <2>3, <2>4
<1>6. Cardinality(T) = Cardinality(U)
  <2>1. shift \in Bijection(U, T)
    <3> HIDE DEF shift, U, T
    <3>. QED
      BY <1>3, <1>4, <1>5, Fun_IsBij
  <2>2. ExistsBijection(U, T)
    <3> HIDE DEF shift, U, T
    <3>. QED
      BY <2>1 DEF ExistsBijection
  <2>3. IsFiniteSet(U)
    BY UnitsFinite
  <2>. QED
    BY <2>2, <2>3, FS_Bijection
<1>. QED
  BY <1>6, FoldLeftCounts, MapThenSumCounts

------------------------------------------------------------------------------
(* Flattening. *)

\* f holds the concatenations of the first sequences of z.
IsFlat(f, z, n) == \A i \in 1..n : f[i] = IF i = 1 THEN z[i] ELSE f[i - 1] \o z[i]

\* There is such a function, for any number of sequences.
LEMMA FlatExists ==
  ASSUME NEW T, NEW z \in Seq(Seq(T)), NEW n \in 0..Len(z)
  PROVE  \E f \in [1..n -> Seq(T)] : IsFlat(f, z, n)
<1> DEFINE Bad == {m \in 0..Len(z) : ~\E f \in [1..m -> Seq(T)] : IsFlat(f, z, m)}
<1>1. Len(z) \in Nat /\ \A i \in 1..Len(z) : z[i] \in Seq(T)
  OBVIOUS
<1>2. SUFFICES ASSUME Bad # {} PROVE FALSE
  OBVIOUS
<1>3. PICK m \in Bad : \A k \in Bad : m <= k
  <2>1. Bad \subseteq Nat
    BY <1>1
  <2> HIDE DEF Bad
  <2>. QED
    BY <1>2, <2>1, LeastElement
<1>4. m \in 0..Len(z) /\ ~\E f \in [1..m -> Seq(T)] : IsFlat(f, z, m)
  OBVIOUS
<1>5. m # 0
  <2>1. [i \in 1..0 |-> <<>>] \in [1..0 -> Seq(T)] /\ IsFlat([i \in 1..0 |-> <<>>], z, 0)
    BY DEF IsFlat
  <2>. QED
    BY <1>4, <2>1
<1>6. PICK k \in Nat : k = m - 1 /\ k + 1 = m /\ k \in 0..Len(z)
  BY <1>1, <1>4, <1>5
<1>7. PICK g \in [1..k -> Seq(T)] : IsFlat(g, z, k)
  <2>1. k \notin Bad
    <3>1. ~(m <= k)
      BY <1>4, <1>6
    <3>. QED
      BY <1>3, <3>1
  <2>. QED
    BY <1>6, <2>1
<1> DEFINE last == IF m = 1 THEN z[m] ELSE g[k] \o z[m]
           f == [i \in 1..m |-> IF i = m THEN last ELSE g[i]]
<1>8. last \in Seq(T)
  <2>1. z[m] \in Seq(T)
    BY <1>1, <1>4, <1>5
  <2>2. CASE m = 1
    BY <2>1, <2>2
  <2>3. CASE m # 1
    <3>1. g[k] \in Seq(T)
      BY <1>4, <1>5, <1>6, <2>3
    <3>. QED
      BY <2>1, <2>3, <3>1
  <2>. QED
    BY <2>2, <2>3
<1>9. f \in [1..m -> Seq(T)]
  <2> HIDE DEF last
  <2>1. \A i \in 1..m : i # m => g[i] \in Seq(T)
    BY <1>4, <1>6
  <2>. QED
    BY <1>8, <2>1
<1>10. IsFlat(f, z, m)
  <2> SUFFICES ASSUME NEW i \in 1..m
               PROVE  f[i] = IF i = 1 THEN z[i] ELSE f[i - 1] \o z[i]
    BY DEF IsFlat
  <2>1. CASE i = m
    <3>1. i # 1 => f[i - 1] = g[k]
      BY <1>6, <2>1
    <3>. QED
      BY <1>6, <2>1, <3>1
  <2>2. CASE i # m
    <3>1. i \in 1..k /\ f[i] = g[i]
      BY <1>6, <2>2
    <3>2. i # 1 => i - 1 \in 1..k /\ f[i - 1] = g[i - 1]
      BY <1>6, <3>1
    <3> HIDE DEF f
    <3>. QED
      BY <1>7, <3>1, <3>2 DEF IsFlat
  <2>. QED
    BY <2>1, <2>2
<1>. QED
  BY <1>4, <1>9, <1>10

\* ... and only one.
LEMMA FlatUnique ==
  ASSUME NEW z, NEW f, NEW g, NEW m \in Nat, NEW n \in Nat, n <= m,
         IsFlat(f, z, m), IsFlat(g, z, n)
  PROVE  \A i \in 1..n : f[i] = g[i]
<1> DEFINE Bad == {k \in 1..n : f[k] # g[k]}
<1>1. SUFFICES ASSUME Bad # {} PROVE FALSE
  OBVIOUS
<1>2. PICK k \in Bad : \A j \in Bad : k <= j
  <2>1. Bad \subseteq Nat
    OBVIOUS
  <2> HIDE DEF Bad
  <2>. QED
    BY <1>1, <2>1, LeastElement
<1>3. k \in 1..n /\ k \in 1..m /\ f[k] # g[k]
  OBVIOUS
<1>4. k # 1 => k - 1 \in 1..n /\ f[k - 1] = g[k - 1]
  <2>1. k # 1 => k - 1 \in 1..n /\ ~(k <= k - 1)
    BY <1>3
  <2>. QED
    BY <1>2, <2>1
<1>. QED
  BY <1>3, <1>4 DEF IsFlat

\* FlattenSeq is the last of the concatenations.
LEMMA FlattenIsFlat ==
  ASSUME NEW T, NEW z \in Seq(Seq(T)), Len(z) # 0
  PROVE  \E f \in [1..Len(z) -> Seq(T)] : IsFlat(f, z, Len(z)) /\ FlattenSeq(z) = f[Len(z)]
<1> DEFINE Step(f) == [i \in 1..Len(z) |-> IF i = 1 THEN z[i] ELSE f[i - 1] \o z[i]]
           flat == CHOOSE f : f = Step(f)
<1>1. PICK f \in [1..Len(z) -> Seq(T)] : IsFlat(f, z, Len(z))
  BY FlatExists
<1>2. f = Step(f)
  BY <1>1 DEF IsFlat
<1>3. flat = Step(flat)
  <2> HIDE DEF Step
  <2>. QED
    BY <1>2
<1>4. IsFlat(flat, z, Len(z))
  <2> HIDE DEF flat
  <2>. QED
    BY <1>3 DEF IsFlat
<1>5. flat[Len(z)] = f[Len(z)]
  <2> HIDE DEF flat
  <2>. QED
    BY <1>1, <1>4, FlatUnique
<1>6. FlattenSeq(z) = flat[Len(z)]
  BY Zenon DEF FlattenSeq
<1>. QED
  BY <1>1, <1>5, <1>6

\* Flattening nothing gives nothing.
LEMMA FlattenNothing ==
  FlattenSeq(<<>>) = <<>>
<1>1. Len(<<>>) = 0
  OBVIOUS
<1>. QED
  BY <1>1 DEF FlattenSeq

\* One more sequence is appended.
LEMMA FlattenNext ==
  ASSUME NEW T, NEW z \in Seq(Seq(T)), NEW s \in Seq(T)
  PROVE  /\ FlattenSeq(z) \in Seq(T)
         /\ FlattenSeq(Append(z, s)) = FlattenSeq(z) \o s
<1>1. PICK n \in Nat : n = Len(z)
  OBVIOUS
<1>2. PICK y \in Seq(Seq(T)) : y = Append(z, s)
  <2>1. \A U : \A q \in Seq(U) : \A x \in U : Append(q, x) \in Seq(U)
    OBVIOUS
  <2>. QED
    BY <2>1
<1>3. Len(y) = n + 1 /\ y[n + 1] = s /\ \A i \in 1..n : y[i] = z[i]
  BY <1>1, <1>2
<1>4. PICK g \in [1..(n + 1) -> Seq(T)] : IsFlat(g, y, n + 1) /\ FlattenSeq(y) = g[n + 1]
  <2>1. Len(y) # 0
    BY <1>3
  <2>. QED
    BY <1>3, <2>1, FlattenIsFlat
<1>5. CASE n = 0
  <2>1. z = <<>>
    <3>1. \A U : \A q \in Seq(U) : Len(q) = 0 => q = <<>>
      OBVIOUS
    <3>. QED
      BY <1>1, <1>5, <3>1
  <2>2. FlattenSeq(z) = <<>> /\ <<>> \in Seq(T) /\ <<>> \o s = s
    BY <2>1, FlattenNothing
  <2>3. g[n + 1] = s
    BY <1>3, <1>4, <1>5 DEF IsFlat
  <2>. QED
    BY <1>2, <1>4, <2>2, <2>3
<1>6. CASE n # 0
  <2>1. PICK f \in [1..n -> Seq(T)] : IsFlat(f, z, n) /\ FlattenSeq(z) = f[n]
    BY <1>1, <1>6, FlattenIsFlat
  <2>2. IsFlat(f, y, n)
    BY <1>3, <2>1 DEF IsFlat
  <2>3. g[n] = f[n]
    <3>1. n <= n + 1 /\ n \in 1..n
      BY <1>6
    <3>2. PICK m \in Nat : m = n + 1
      OBVIOUS
    <3>3. IsFlat(g, y, m) /\ n <= m
      BY <1>4, <3>2
    <3>4. PICK u, v : u = g /\ v = f
      OBVIOUS
    <3>5. IsFlat(u, y, m) /\ IsFlat(v, y, n)
      BY <2>2, <3>3, <3>4
    <3>6. \A i \in 1..n : u[i] = v[i]
      BY <3>3, <3>5, FlatUnique
    <3>. QED
      BY <3>1, <3>4, <3>6
  <2>4. g[n + 1] = g[n] \o s
    <3>1. n + 1 \in 1..(n + 1) /\ n + 1 # 1 /\ (n + 1) - 1 = n
      BY <1>6
    <3>. QED
      BY <1>3, <1>4, <3>1 DEF IsFlat
  <2>. QED
    BY <1>2, <1>4, <1>6, <2>1, <2>3, <2>4
<1>. QED
  BY <1>5, <1>6

==============================================================================
