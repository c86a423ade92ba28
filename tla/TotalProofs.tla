----------------------------- MODULE TotalProofs -----------------------------
(* Facts about sums: of any finite set of indices, and of the first        *)
(* entries of a sequence, one after the other.                             *)
EXTENDS Totals, Functions, FiniteSetTheorems, WellFoundedInduction, TLAPS

\* The units of one index, and their number.
LEMMA UnitsFinite ==
  ASSUME NEW f, NEW i \in DOMAIN f, f[i] \in Nat
  PROVE  IsFiniteSet(Units(f, i)) /\ Cardinality(Units(f, i)) = f[i]
<1>1. IsFiniteSet({i}) /\ Cardinality({i}) = 1
  BY FS_Singleton
<1>2. IsFiniteSet(1 .. f[i]) /\ Cardinality(1 .. f[i]) = f[i]
  BY FS_Interval
<1>3. /\ IsFiniteSet({i} \X (1 .. f[i]))
      /\ Cardinality({i} \X (1 .. f[i])) = Cardinality({i}) * Cardinality(1 .. f[i])
  BY <1>1, <1>2, FS_Product
<1>4. QED
  BY <1>1, <1>2, <1>3 DEF Units

\* Units of any set of indices are finitely many.
LEMMA UnionFinite ==
  ASSUME NEW S, IsFiniteSet(S), NEW f, S \subseteq DOMAIN f,
         \A i \in S : f[i] \in Nat
  PROVE  IsFiniteSet(UNION {Units(f, i) : i \in S})
<1> DEFINE g == [i \in S |-> Units(f, i)]
           T == {Units(f, i) : i \in S}
<1>1. g \in Surjection(S, T)
  BY DEF Surjection
<1>2. IsFiniteSet(T)
  BY <1>1, FS_Surjection
<1>3. \A t \in T : IsFiniteSet(t)
  BY UnitsFinite
<1>4. QED
  BY <1>2, <1>3, FS_UNION

\* A total is a number.
LEMMA TotalTyped ==
  ASSUME NEW S, IsFiniteSet(S), NEW f \in [S -> Nat]
  PROVE  Total(f) \in Nat
<1>1. IsFiniteSet(UNION {Units(f, i) : i \in S})
  BY UnionFinite
<1>2. QED
  BY <1>1, FS_CardinalityType DEF Total

\* Total counts each index once: take one index out.
LEMMA TotalSplit ==
  ASSUME NEW S, IsFiniteSet(S), NEW f \in [S -> Nat], NEW i \in S
  PROVE  /\ Total(f) \in Nat
         /\ Total(f) = f[i] + Cardinality(UNION {Units(f, j) : j \in S \ {i}})
         /\ Cardinality(UNION {Units(f, j) : j \in S \ {i}}) \in Nat
<1> DEFINE R == UNION {Units(f, j) : j \in S \ {i}}
           U == Units(f, i)
<1>1. IsFiniteSet(S \ {i})
  BY FS_RemoveElement
<1>2. IsFiniteSet(R)
  BY <1>1, UnionFinite
<1>3. IsFiniteSet(U) /\ Cardinality(U) = f[i]
  BY UnitsFinite
<1>4. U \cap R = {}
  BY DEF Units
<1>5. UNION {Units(f, j) : j \in DOMAIN f} = U \cup R
  OBVIOUS
<1>6. Cardinality(U \cup R) = Cardinality(U) + Cardinality(R) - Cardinality(U \cap R)
  BY <1>2, <1>3, FS_Union
<1>7. Cardinality(R) \in Nat /\ Cardinality({}) = 0
  BY <1>2, FS_CardinalityType, FS_EmptySet
<1>8. Total(f) = Cardinality(U \cup R)
  BY <1>5 DEF Total
<1> HIDE DEF U, R
<1>9. Cardinality(U \cap R) = 0 /\ f[i] \in Nat
  BY <1>4, <1>7
<1>10. Total(f) = f[i] + Cardinality(R) /\ Cardinality(R) \in Nat /\ f[i] \in Nat
  BY <1>3, <1>6, <1>7, <1>8, <1>9
<1>11. QED
  BY <1>10 DEF R

\* Changing one value of the function changes its total by the difference.
LEMMA TotalUpdate ==
  ASSUME NEW S, IsFiniteSet(S), NEW f \in [S -> Nat], NEW g \in [S -> Nat],
         NEW i \in S, \A j \in S \ {i} : g[j] = f[j]
  PROVE  Total(g) = Total(f) + g[i] - f[i] /\ Total(f) \in Nat /\ Total(g) \in Nat
<1>1. {Units(f, j) : j \in S \ {i}} = {Units(g, j) : j \in S \ {i}}
  BY DEF Units
<1> DEFINE r == Cardinality(UNION {Units(f, j) : j \in S \ {i}})
<1>2. /\ Total(f) \in Nat
      /\ Total(f) = f[i] + r
      /\ r \in Nat
  BY TotalSplit
<1>3. /\ Total(g) \in Nat
      /\ Total(g) = g[i] + Cardinality(UNION {Units(g, j) : j \in S \ {i}})
  BY TotalSplit
<1>4. Total(g) = g[i] + r
  BY <1>1, <1>3
<1> HIDE DEF r
<1>5. f[i] \in Nat /\ g[i] \in Nat
  OBVIOUS
<1>6. QED
  BY <1>2, <1>3, <1>4, <1>5

\* The same for an update in place.
LEMMA TotalExcept ==
  ASSUME NEW S, IsFiniteSet(S), NEW f \in [S -> Nat], NEW i \in S, NEW n \in Nat
  PROVE  /\ Total([f EXCEPT ![i] = n]) = Total(f) + n - f[i]
         /\ Total(f) \in Nat
         /\ Total([f EXCEPT ![i] = n]) \in Nat
<1> DEFINE g == [f EXCEPT ![i] = n]
<1>1. g \in [S -> Nat] /\ g[i] = n /\ \A j \in S \ {i} : g[j] = f[j]
  OBVIOUS
<1> HIDE DEF g
<1>2. Total(g) = Total(f) + g[i] - f[i] /\ Total(f) \in Nat /\ Total(g) \in Nat
  BY <1>1, TotalUpdate
<1>3. QED
  BY <1>1, <1>2 DEF g

\* One value is at most the total.
LEMMA TotalBound ==
  ASSUME NEW S, IsFiniteSet(S), NEW f \in [S -> Nat], NEW i \in S
  PROVE  f[i] <= Total(f) /\ Total(f) \in Nat
<1> DEFINE r == Cardinality(UNION {Units(f, j) : j \in S \ {i}})
<1>1. Total(f) \in Nat /\ Total(f) = f[i] + r /\ r \in Nat
  BY TotalSplit
<1> HIDE DEF r
<1>2. QED
  BY <1>1

LEMMA TotalZero ==
  ASSUME NEW S, IsFiniteSet(S)
  PROVE  Total([i \in S |-> 0]) = 0
<1> DEFINE f == [i \in S |-> 0]
<1>1. \A i \in S : Units(f, i) = {}
  BY DEF Units
<1>2. UNION {Units(f, i) : i \in DOMAIN f} = {}
  BY <1>1
<1>3. QED
  BY <1>2, FS_EmptySet DEF Total

\* A function that is at least another everywhere has at least its total.
LEMMA TotalMonotone ==
  ASSUME NEW S, IsFiniteSet(S), NEW f \in [S -> Nat], NEW g \in [S -> Nat],
         \A i \in S : f[i] <= g[i]
  PROVE  Total(f) <= Total(g) /\ Total(f) \in Nat /\ Total(g) \in Nat
<1> DEFINE F == UNION {Units(f, i) : i \in S}
           G == UNION {Units(g, i) : i \in S}
<1>1. \A i \in S : Units(f, i) \subseteq Units(g, i)
  BY DEF Units
<1>2. F \subseteq G
  BY <1>1
<1>3. IsFiniteSet(F) /\ IsFiniteSet(G)
  BY UnionFinite
<1>4. Total(f) = Cardinality(F) /\ Total(g) = Cardinality(G)
  BY DEF Total
<1> HIDE DEF F, G
<1>5. Cardinality(F) <= Cardinality(G) /\ Cardinality(F) \in Nat /\ Cardinality(G) \in Nat
  BY <1>2, <1>3, FS_Subset, FS_CardinalityType
<1>6. QED
  BY <1>4, <1>5

\* One index more adds its value.
LEMMA TotalInsert ==
  ASSUME NEW S, IsFiniteSet(S), NEW i, i \notin S, NEW f \in [S \cup {i} -> Nat],
         NEW g \in [S -> Nat], \A j \in S : f[j] = g[j]
  PROVE  Total(f) = Total(g) + f[i] /\ Total(f) \in Nat /\ Total(g) \in Nat /\ f[i] \in Nat
<1>1. IsFiniteSet(S \cup {i}) /\ i \in S \cup {i}
  BY FS_AddElement
<1>2. /\ Total(f) \in Nat
      /\ Total(f) = f[i] + Cardinality(UNION {Units(f, j) : j \in (S \cup {i}) \ {i}})
      /\ Cardinality(UNION {Units(f, j) : j \in (S \cup {i}) \ {i}}) \in Nat
  BY <1>1, TotalSplit
<1>3. {Units(f, j) : j \in (S \cup {i}) \ {i}} = {Units(g, j) : j \in DOMAIN g}
  BY DEF Units
<1>4. Total(g) = Cardinality(UNION {Units(f, j) : j \in (S \cup {i}) \ {i}})
  BY <1>3 DEF Total
<1>5. QED
  BY <1>2, <1>4

\* Induction: a set of numbers that has 0, and with every number its successor, up to n.
LEMMA UpTo ==
  ASSUME NEW n \in Nat, NEW T, 0 \in T, \A i \in 0 .. n : i # n /\ i \in T => i + 1 \in T
  PROVE  0 .. n \subseteq T
<1> DEFINE Less == {ss \in Nat \X Nat : ss[1] < ss[2]}
           Missing == (0 .. n) \ T
<1> SUFFICES ASSUME Missing # {} PROVE FALSE
  OBVIOUS
<1>1. IsWellFoundedOn(Less, Nat)
  BY NatLessThanWellFounded DEF OpToRel
<1>2. PICK i \in Missing : \A k \in Missing : ~ (<<k, i>> \in Less)
  <2>1. Missing \in SUBSET Nat
    OBVIOUS
  <2> HIDE DEF Less, Missing
  <2>2. QED
    BY <1>1, <2>1, WFMin
<1>3. i \in 1 .. n /\ i - 1 \in 0 .. n
  OBVIOUS
<1>4. i - 1 \in T
  <2>1. <<i - 1, i>> \in Less
    BY <1>3
  <2>2. QED
    BY <1>2, <1>3, <2>1
<1>5. QED
  BY <1>3, <1>4

\* What a step makes of each value, step after step, from a first value.
IsPath(f, n, first, V, Step) == f = [i \in 0 .. n |-> IF i = 0 THEN first ELSE Step[i][f[i - 1]]]
StepByStep(f, n, first, V, Step) ==
  f \in [0 .. n -> V] /\ f[0] = first /\ \A i \in 1 .. n : f[i] = Step[i][f[i - 1]]

LEMMA PathTyped ==
  ASSUME NEW n \in Nat, NEW V, NEW first \in V, NEW Step \in [1 .. n -> [V -> V]], NEW f, IsPath(f, n, first, V, Step)
  PROVE  StepByStep(f, n, first, V, Step)
<1> DEFINE T == {i \in 0 .. n : f[i] \in V}
<1>1. f[0] = first /\ (\A i \in 1 .. n : f[i] = Step[i][f[i - 1]]) /\ f = [i \in 0 .. n |-> f[i]]
  BY DEF IsPath
<1>2. 0 \in T
  BY <1>1
<1>3. ASSUME NEW i \in 0 .. n, i # n, i \in T PROVE i + 1 \in T
  <2>1. i + 1 \in 1 .. n /\ (i + 1) - 1 = i /\ f[i] \in V
    BY <1>3
  <2>2. f[i + 1] = Step[i + 1][f[i]] /\ Step[i + 1] \in [V -> V]
    BY <1>1, <2>1
  <2>3. QED
    BY <2>1, <2>2
<1> HIDE DEF T
<1>4. 0 .. n \subseteq T
  BY <1>2, <1>3, UpTo
<1>5. QED
  BY <1>1, <1>4 DEF T, StepByStep

LEMMA PathExists ==
  ASSUME NEW n \in Nat, NEW V, NEW first \in V, NEW Step \in [1 .. n -> [V -> V]]
  PROVE  \E f : IsPath(f, n, first, V, Step)
<1> DEFINE T == {k \in 0 .. n : \E f : IsPath(f, k, first, V, Step)}
<1>1. 0 \in T
  <2>1. IsPath([i \in 0 .. 0 |-> first], 0, first, V, Step)
    BY DEF IsPath
  <2>2. QED
    BY <2>1
<1>2. ASSUME NEW k \in 0 .. n, k # n, k \in T PROVE k + 1 \in T
  <2>1. PICK f : IsPath(f, k, first, V, Step)
    BY <1>2
  <2> DEFINE g == [i \in 0 .. k + 1 |-> IF i = k + 1 THEN Step[k + 1][f[k]] ELSE f[i]]
  <2>2. f[0] = first /\ \A i \in 1 .. k : f[i] = Step[i][f[i - 1]]
    BY <2>1 DEF IsPath
  <2>3. ASSUME NEW i \in 0 .. k + 1 PROVE g[i] = IF i = 0 THEN first ELSE Step[i][g[i - 1]]
    <3>1. CASE i = 0
      BY <2>2, <3>1
    <3>2. CASE i = k + 1
      BY <3>2
    <3>3. CASE i \in 1 .. k
      BY <2>2, <3>3
    <3>4. QED
      BY <3>1, <3>2, <3>3
  <2>4. g = [i \in 0 .. k + 1 |-> g[i]]
    OBVIOUS
  <2> HIDE DEF g
  <2>5. IsPath(g, k + 1, first, V, Step)
    BY <2>3, <2>4 DEF IsPath
  <2>6. QED
    BY <1>2, <2>5
<1> HIDE DEF T
<1>3. 0 .. n \subseteq T
  BY <1>1, <1>2, UpTo
<1>4. QED
  BY <1>3 DEF T

LEMMA SumsAre ==
  ASSUME NEW seq \in Seq(Int)
  PROVE  /\ Sums(seq) \in [0 .. Len(seq) -> Int] /\ Sums(seq)[0] = 0
         /\ \A i \in 1 .. Len(seq) : Sums(seq)[i] = Sums(seq)[i - 1] + seq[i]
<1> DEFINE n == Len(seq)
           Step == [i \in 1 .. n |-> [x \in Int |-> x + seq[i]]]
<1>1. n \in Nat /\ seq \in [1 .. n -> Int]
  OBVIOUS
<1>2. Step \in [1 .. n -> [Int -> Int]]
  BY <1>1
<1> DEFINE IsSums(f) == f = [i \in 0 .. n |-> IF i = 0 THEN 0 ELSE f[i - 1] + seq[i]]
<1>3. PICK f : IsPath(f, n, 0, Int, Step)
  <2> HIDE DEF Step, n
  <2>1. n \in Nat /\ 0 \in Int
    BY <1>1
  <2>2. QED
    BY <1>2, <2>1, PathExists
<1>4. f \in [0 .. n -> Int] /\ f[0] = 0 /\ \A i \in 1 .. n : f[i] = Step[i][f[i - 1]]
  <2> HIDE DEF Step, n
  <2>1. n \in Nat /\ 0 \in Int
    BY <1>1
  <2>2. StepByStep(f, n, 0, Int, Step)
    BY <1>2, <1>3, <2>1, PathTyped
  <2>3. QED
    BY <2>2 DEF StepByStep
<1>5. \A i \in 1 .. n : f[i] = f[i - 1] + seq[i]
  <2>1. ASSUME NEW i \in 1 .. n PROVE f[i] = f[i - 1] + seq[i]
    <3>1. i - 1 \in 0 .. n /\ f[i - 1] \in Int
      BY <1>1, <1>4
    <3>2. f[i] = Step[i][f[i - 1]]
      BY <1>4
    <3>3. QED
      BY <3>1, <3>2
  <2>2. QED
    BY <2>1
<1>6. IsSums(f)
  <2>1. f = [i \in 0 .. n |-> f[i]]
    BY <1>4
  <2>2. \A i \in 0 .. n : f[i] = IF i = 0 THEN 0 ELSE f[i - 1] + seq[i]
    BY <1>4, <1>5
  <2>3. QED
    BY <2>1, <2>2, Zenon
<1>7. Sums(seq) = CHOOSE g : IsSums(g)
  BY DEF Sums
<1>8. IsSums(Sums(seq))
  <2> HIDE DEF IsSums
  <2>1. QED
    BY <1>6, <1>7
<1> DEFINE s == Sums(seq)
<1>9. s[0] = 0 /\ (\A i \in 1 .. n : s[i] = s[i - 1] + seq[i]) /\ s = [i \in 0 .. n |-> s[i]]
  BY <1>1, <1>8
<1>10. \A i \in 0 .. n : s[i] = f[i]
  <2> DEFINE T == {i \in 0 .. n : s[i] = f[i]}
  <2>1. 0 \in T
    BY <1>4, <1>9
  <2>2. ASSUME NEW i \in 0 .. n, i # n, i \in T PROVE i + 1 \in T
    <3>1. i + 1 \in 1 .. n /\ (i + 1) - 1 = i
      BY <1>1, <2>2
    <3>2. s[i + 1] = s[i] + seq[i + 1] /\ f[i + 1] = f[i] + seq[i + 1]
      BY <1>5, <1>9, <3>1
    <3>3. QED
      BY <2>2, <3>1, <3>2
  <2> HIDE DEF T, s
  <2>3. 0 .. n \subseteq T
    BY <1>1, <2>1, <2>2, UpTo
  <2>4. QED
    BY <2>3 DEF T
<1>11. QED
  BY <1>1, <1>4, <1>9, <1>10

LEMMA WholeTyped == ASSUME NEW seq \in Seq(Int) PROVE Whole(seq) \in Int
<1>1. Len(seq) \in 0 .. Len(seq)
  OBVIOUS
<1>2. QED
  BY <1>1, SumsAre DEF Whole

LEMMA SumsAgree ==
  ASSUME NEW seq \in Seq(Int), NEW more \in Seq(Int), Len(seq) <= Len(more),
         \A i \in 1 .. Len(seq) : more[i] = seq[i]
  PROVE  \A i \in 0 .. Len(seq) : Sums(more)[i] = Sums(seq)[i]
<1> DEFINE n == Len(seq)
           s == Sums(seq)
           t == Sums(more)
           T == {i \in 0 .. n : t[i] = s[i]}
<1>1. n \in Nat /\ Len(more) \in Nat
  OBVIOUS
<1>2. s[0] = 0 /\ t[0] = 0 /\ \A i \in 1 .. n : s[i] = s[i - 1] + seq[i] /\ t[i] = t[i - 1] + seq[i]
  BY <1>1, SumsAre
<1>3. 0 \in T
  BY <1>1, <1>2
<1>4. ASSUME NEW i \in 0 .. n, i # n, i \in T PROVE i + 1 \in T
  <2>1. i + 1 \in 1 .. n /\ (i + 1) - 1 = i
    BY <1>1, <1>4
  <2>2. QED
    BY <1>2, <1>4, <2>1
<1> HIDE DEF T, n
<1>5. 0 .. n \subseteq T
  BY <1>1, <1>3, <1>4, UpTo
<1>6. QED
  BY <1>5 DEF T, n

\* One entry more.
LEMMA SumsAppend ==
  ASSUME NEW seq \in Seq(Int), NEW more \in Seq(Int), Len(more) = Len(seq) + 1,
         \A i \in 1 .. Len(seq) : more[i] = seq[i]
  PROVE  /\ \A i \in 0 .. Len(seq) : Sums(more)[i] = Sums(seq)[i]
         /\ Sums(more)[Len(more)] = Whole(seq) + more[Len(more)]
         /\ Whole(seq) \in Int /\ Whole(more) = Whole(seq) + more[Len(more)]
<1> DEFINE n == Len(seq)
<1>1. n \in Nat /\ n + 1 \in 1 .. Len(more) /\ (n + 1) - 1 = n /\ n \in 0 .. n
  OBVIOUS
<1>2. \A i \in 0 .. n : Sums(more)[i] = Sums(seq)[i]
  BY SumsAgree
<1>3. Sums(more)[n + 1] = Sums(more)[n] + more[n + 1]
  BY <1>1, SumsAre
<1>4. Sums(seq)[n] \in Int
  BY <1>1, SumsAre
<1>5. QED
  BY <1>1, <1>2, <1>3, <1>4 DEF Whole
=============================================================================
