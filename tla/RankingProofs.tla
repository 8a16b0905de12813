---------------------------- MODULE RankingProofs ----------------------------
(***************************************************************************)
(* What holds of a ranking for every board, every candidate and every      *)
(* requested level: the effective size of a category bounds what its       *)
(* p-values can express, the assets of a report are listed once and in     *)
(* order, the duplicate groups are the connected components, and renaming  *)
(* the rows renames the categories: each round merges the same clusters,   *)
(* because distinct contents leave no tie for the row numbers to break.    *)
(***************************************************************************)
EXTENDS AlgorithmProofs

-----------------------------------------------------------------------------
(* The effective sample size of a category.                                 *)

\* The sizes of the groups, and their squares.
SizeRow(S) == [g \in S |-> Cardinality(g)]

LEMMA SizesTotal ==
    ASSUME NEW S, IsFiniteSet(S)
    PROVE  MapThenSumSet(LAMBDA g : Cardinality(g), S) = RowSum(SizeRow(S), S)
<1> DEFINE Step(f) == [s \in SUBSET S |->
                IF s = {} THEN 0
                ELSE LET x == CHOOSE x \in s : TRUE IN Cardinality(x) + f[s \ {x}]]
           sum == CHOOSE f : f = Step(f)
<1>1. MapThenSumSet(LAMBDA g : Cardinality(g), S) = sum[S]
  BY DEF MapThenSumSet, MapThenFoldSet
<1>2. ASSUME NEW f
      PROVE  Step(f) = [s \in SUBSET S |-> SumStep(SizeRow(S), f, s)]
  <2>1. ASSUME NEW s \in SUBSET S
        PROVE  Step(f)[s] = SumStep(SizeRow(S), f, s)
    <3>1. CASE s = {}
      BY <3>1 DEF SumStep
    <3>2. CASE s # {}
      <4> DEFINE x == CHOOSE x \in s : TRUE
      <4>1. x \in S
        BY <3>2
      <4>2. SizeRow(S)[x] = Cardinality(x)
        BY <4>1 DEF SizeRow
      <4> QED
        BY <3>2, <4>2 DEF SumStep
    <3> QED
      BY <3>1, <3>2
  <2> QED
    BY <2>1
<1>3. PICK f : Sums(SizeRow(S), SUBSET S, f)
  BY RowSums
<1>4. f = Step(f)
  BY <1>2, <1>3 DEF Sums
<1>5. sum = Step(sum)
  BY <1>4
<1>6. Sums(SizeRow(S), SUBSET S, sum)
  <2> HIDE DEF sum
  <2>1. Step(sum) = [s \in SUBSET S |-> SumStep(SizeRow(S), sum, s)]
    BY <1>2
  <2> HIDE DEF Step
  <2> QED
    BY <1>5, <2>1 DEF Sums
<1> HIDE DEF sum
<1> QED
  BY <1>1, <1>6, SumIsRowSum

SquareRow(S) == [g \in S |-> Cardinality(g) * Cardinality(g)]

LEMMA SquaresTotal ==
    ASSUME NEW S, IsFiniteSet(S)
    PROVE  MapThenSumSet(LAMBDA g : Cardinality(g) * Cardinality(g), S) = RowSum(SquareRow(S), S)
<1> DEFINE Step(f) == [s \in SUBSET S |->
                IF s = {} THEN 0
                ELSE LET x == CHOOSE x \in s : TRUE
                     IN (Cardinality(x) * Cardinality(x)) + f[s \ {x}]]
           sum == CHOOSE f : f = Step(f)
<1>1. MapThenSumSet(LAMBDA g : Cardinality(g) * Cardinality(g), S) = sum[S]
  BY DEF MapThenSumSet, MapThenFoldSet
<1>2. ASSUME NEW f
      PROVE  Step(f) = [s \in SUBSET S |-> SumStep(SquareRow(S), f, s)]
  <2>1. ASSUME NEW s \in SUBSET S
        PROVE  Step(f)[s] = SumStep(SquareRow(S), f, s)
    <3>1. CASE s = {}
      BY <3>1 DEF SumStep
    <3>2. CASE s # {}
      <4> DEFINE x == CHOOSE x \in s : TRUE
      <4>1. x \in S
        BY <3>2
      <4>2. SquareRow(S)[x] = Cardinality(x) * Cardinality(x)
        BY <4>1 DEF SquareRow
      <4> QED
        BY <3>2, <4>2 DEF SumStep
    <3> QED
      BY <3>1, <3>2
  <2> QED
    BY <2>1
<1>3. PICK f : Sums(SquareRow(S), SUBSET S, f)
  BY RowSums
<1>4. f = Step(f)
  BY <1>2, <1>3 DEF Sums
<1>5. sum = Step(sum)
  BY <1>4
<1>6. Sums(SquareRow(S), SUBSET S, sum)
  <2> HIDE DEF sum
  <2>1. Step(sum) = [s \in SUBSET S |-> SumStep(SquareRow(S), sum, s)]
    BY <1>2
  <2> HIDE DEF Step
  <2> QED
    BY <1>5, <2>1 DEF Sums
<1> HIDE DEF sum
<1> QED
  BY <1>1, <1>6, SumIsRowSum

\* Disjoint groups within a finite set.
Disjoint(G) == \A f, g \in G : f # g => f \cap g = {}

LEMMA GroupsTotal ==
    ASSUME NEW M, IsFiniteSet(M), NEW G \in SUBSET (SUBSET M), {} \notin G, Disjoint(G)
    PROVE  /\ IsFiniteSet(G)
           /\ RowSum(SizeRow(G), G) = Cardinality(UNION G)
           /\ RowSum(SizeRow(G), G) \in Nat
           /\ RowSum(SizeRow(G), G) <= Cardinality(M)
           /\ RowSum(SquareRow(G), G) \in Nat
           /\ RowSum(SizeRow(G), G) <= RowSum(SquareRow(G), G)
           /\ G # {} => RowSum(SizeRow(G), G) # 0
<1> DEFINE sizes == SizeRow(G)
           squares == SquareRow(G)
           Q == {T \in SUBSET G :
                   /\ RowSum(sizes, T) = Cardinality(UNION T)
                   /\ RowSum(squares, T) \in Nat
                   /\ RowSum(sizes, T) <= RowSum(squares, T)}
<1>1. IsFiniteSet(G)
  BY FS_SUBSET, FS_Subset
<1>2. \A g \in G : /\ IsFiniteSet(g) /\ g # {} /\ Cardinality(g) \in Nat \ {0}
                   /\ sizes[g] = Cardinality(g)
                   /\ squares[g] = Cardinality(g) * Cardinality(g)
  <2> TAKE g \in G
  <2>1. IsFiniteSet(g) /\ Cardinality(g) \in Nat /\ g # {}
    BY FS_Subset, FS_CardinalityType
  <2>2. Cardinality(g) # 0
    BY <2>1, FS_EmptySet
  <2> QED
    BY <2>1, <2>2 DEF SizeRow, SquareRow
<1> HIDE DEF sizes, squares
<1>3. \A g \in G : sizes[g] \in Nat /\ squares[g] \in Nat /\ sizes[g] <= squares[g]
  <2> TAKE g \in G
  <2> DEFINE m == Cardinality(g)
  <2>1. m \in Nat \ {0}
    BY <1>2
  <2> HIDE DEF m
  <2>2. m * m \in Nat
    BY <2>1
  <2>3. m <= m * m
    <3>1. PICK a \in Nat : m = a + 1
      <4>1. m - 1 \in Nat /\ m = (m - 1) + 1
        BY <2>1
      <4> QED
        BY <4>1
    <3>2. m * m = a * m + m /\ a * m \in Nat
      BY <2>1, <3>1
    <3> QED
      BY <2>1, <3>2
  <2> QED
    BY <1>2, <2>1, <2>2, <2>3 DEF m
<1>4. \A T \in SUBSET G : IsFiniteSet(T) /\ IsFiniteSet(UNION T) /\ UNION T \in SUBSET M
  <2> TAKE T \in SUBSET G
  <2>1. IsFiniteSet(T)
    BY <1>1, FS_Subset
  <2>2. UNION T \in SUBSET M
    OBVIOUS
  <2> QED
    BY <2>1, <2>2, FS_Subset
<1>5. ASSUME NEW T \in SUBSET G, \A U \in SUBSET T : U # T => U \in Q
      PROVE  T \in Q
  <2>1. CASE T = {}
    <3>1. Cardinality(UNION T) = 0
      <4>1. UNION T = {} /\ Cardinality({}) = 0
        BY <2>1, FS_EmptySet
      <4> QED
        BY <4>1, Zenon
    <3>2. RowSum(sizes, T) = 0 /\ RowSum(squares, T) = 0
      BY <2>1, RowSumEmpty
    <3>3. /\ RowSum(sizes, T) = Cardinality(UNION T)
          /\ RowSum(squares, T) \in Nat
          /\ RowSum(sizes, T) <= RowSum(squares, T)
      <4> DEFINE a == RowSum(sizes, T)  b == RowSum(squares, T)  m == Cardinality(UNION T)
      <4>1. a = 0 /\ b = 0 /\ m = 0
        BY <3>1, <3>2
      <4> HIDE DEF a, b, m
      <4>2. a = m /\ b \in Nat /\ a <= b
        BY <4>1
      <4> QED
        BY <4>2 DEF a, b, m
    <3> QED
      BY <3>3
  <2>2. CASE T # {}
    <3>1. PICK x \in T : TRUE
      BY <2>2
    <3> DEFINE U == T \ {x}
    <3>2. U \in SUBSET T /\ U # T /\ x \in G /\ T = U \cup {x} /\ x \notin U
      BY <3>1
    <3>3. U \in Q
      BY <1>5, <3>2
    <3>4. /\ RowSum(sizes, U) = Cardinality(UNION U)
          /\ RowSum(squares, U) \in Nat /\ RowSum(sizes, U) <= RowSum(squares, U)
      BY <3>3
    <3>5. /\ RowSum(sizes, T) = sizes[x] + RowSum(sizes, U)
          /\ RowSum(squares, T) = squares[x] + RowSum(squares, U)
      <4>1. IsFiniteSet(T)
        BY <1>4
      <4>2. \A y \in T : sizes[y] \in Int /\ squares[y] \in Int
        <5> TAKE y \in T
        <5>1. y \in G
          OBVIOUS
        <5>2. sizes[y] \in Nat /\ squares[y] \in Nat
          BY <1>3, <5>1
        <5> QED
          BY <5>2
      <4> QED
        BY <3>1, <4>1, <4>2, RowSumSplit
    <3>6. Cardinality(UNION T) = Cardinality(x) + Cardinality(UNION U)
      <4>1. UNION T = x \cup UNION U
        BY <3>2
      <4>2. x \cap UNION U = {}
        BY <3>2 DEF Disjoint
      <4>3. IsFiniteSet(x) /\ IsFiniteSet(UNION U)
        BY <1>2, <1>4, <3>2
      <4>4. Cardinality({}) = 0
        BY FS_EmptySet
      <4>5. Cardinality(x) \in Nat /\ Cardinality(UNION U) \in Nat
        BY <4>3, FS_CardinalityType
      <4>6. Cardinality(x \cup UNION U)
              = Cardinality(x) + Cardinality(UNION U) - Cardinality(x \cap UNION U)
        BY <4>3, FS_Union
      <4> HIDE DEF U
      <4>7. Cardinality(x \cup UNION U) = Cardinality(x) + Cardinality(UNION U) - 0
        BY <4>2, <4>4, <4>6
      <4>8. \A m, n \in Nat : m + n - 0 = m + n
        OBVIOUS
      <4> QED
        BY <4>1, <4>5, <4>7, <4>8
    <3>7. Cardinality(UNION U) \in Nat
      BY <1>4, <3>2, FS_CardinalityType
    <3>8. sizes[x] = Cardinality(x) /\ sizes[x] \in Nat /\ squares[x] \in Nat
          /\ sizes[x] <= squares[x]
      BY <1>2, <1>3, <3>2
    <3> HIDE DEF U
    <3>9. /\ RowSum(sizes, T) = Cardinality(UNION T)
          /\ RowSum(squares, T) \in Nat
          /\ RowSum(sizes, T) <= RowSum(squares, T)
      BY <3>4, <3>5, <3>6, <3>7, <3>8
    <3> QED
      BY <3>9
  <2> QED
    BY <2>1, <2>2
<1>6. G \in Q
  <2> HIDE DEF Q
  <2>1. \A T \in SUBSET G : T \in Q
    BY <1>1, <1>5, SubsetInduction
  <2> QED
    BY <2>1
<1>7. /\ RowSum(sizes, G) = Cardinality(UNION G)
      /\ RowSum(squares, G) \in Nat
      /\ RowSum(sizes, G) <= RowSum(squares, G)
  BY <1>6
<1>8. /\ IsFiniteSet(UNION G) /\ Cardinality(UNION G) \in Nat
      /\ Cardinality(UNION G) <= Cardinality(M)
  <2>1. IsFiniteSet(UNION G) /\ UNION G \in SUBSET M
    BY <1>4
  <2> QED
    BY <2>1, FS_Subset, FS_CardinalityType
<1>9. G # {} => Cardinality(UNION G) # 0
  <2> SUFFICES ASSUME G # {}
               PROVE  Cardinality(UNION G) # 0
    OBVIOUS
  <2>1. PICK g \in G : g # {}
    BY <1>2
  <2>2. UNION G # {}
    BY <2>1
  <2> QED
    BY <1>8, <2>2, FS_EmptySet
<1> QED
  BY <1>1, <1>7, <1>8, <1>9 DEF sizes, squares

LEMMA ProductsGrow ==
    ASSUME NEW x \in Nat, NEW y \in Nat, x <= y, NEW m \in Nat
    PROVE  x * m <= y * m /\ m * x <= m * y
<1>1. PICK r \in Nat : y = x + r
  <2>1. y - x \in Nat /\ y = x + (y - x)
    OBVIOUS
  <2> QED
    BY <2>1
<1>2. (x + r) * m = x * m + r * m /\ x * m \in Nat /\ r * m \in Nat
  OBVIOUS
<1>3. m * x = x * m /\ m * y = y * m
  OBVIOUS
<1> QED
  BY <1>1, <1>2, <1>3

\* The effective size of a category, as a fraction, is a size between nothing and the
\* number of its references: an alpha its floor admits is one that n references admit.
LEMMA EffectiveSize ==
    ASSUME NEW M, IsFiniteSet(M), NEW groups, Disjoint(groups)
    PROVE  LET n == CategoryNEff(M, groups)
           IN /\ n[1] \in Nat /\ n[2] \in Nat \ {0}
              /\ Floor(n)[1] \in Nat \ {0} /\ Floor(n)[2] \in Nat \ {0}
              /\ \A a, b \in Nat :
                    AtLeast(<<a, b>>, Floor(n)) => AtLeast(<<a, b>>, <<1, Cardinality(M) + 1>>)
<1> DEFINE G == {g \cap M : g \in groups} \ {{}}
           T == RowSum(SizeRow(G), G)
           S == RowSum(SquareRow(G), G)
           n == CategoryNEff(M, groups)
           size == Cardinality(M)
<1>1. G \in SUBSET (SUBSET M) /\ {} \notin G
  OBVIOUS
<1>2. Disjoint(G)
  BY DEF Disjoint
<1>3. n = IF G = {} THEN <<0, 1>> ELSE <<T * T, S>>
  <2> HIDE DEF G
  <2>1. IsFiniteSet(G)
    BY <1>1, <1>2, GroupsTotal
  <2>2. NEff(G) = IF G = {} THEN <<0, 1>> ELSE <<T * T, S>>
    BY <2>1, SizesTotal, SquaresTotal DEF NEff
  <2> QED
    BY <2>2 DEF CategoryNEff, G
<1> HIDE DEF G, n
<1>4. /\ T \in Nat /\ S \in Nat /\ T <= size /\ T <= S /\ (G # {} => T # 0)
  BY <1>1, <1>2, GroupsTotal
<1>5. size \in Nat
  BY FS_CardinalityType
<1> HIDE DEF T, S, size
<1>6. CASE G = {}
  <2>1. n = <<0, 1>>
    BY <1>3, <1>6
  <2>2. Floor(n) = <<1, 1>>
    BY <2>1 DEF Floor
  <2>3. ASSUME NEW a \in Nat, NEW b \in Nat, a >= b
        PROVE  a * (size + 1) >= b
    <3>1. a * (size + 1) = a * size + a /\ a * size \in Nat
      BY <1>5
    <3> QED
      BY <2>3, <3>1
  <2>4. \A a, b \in Nat : AtLeast(<<a, b>>, Floor(n)) => AtLeast(<<a, b>>, <<1, size + 1>>)
    <3> TAKE a, b \in Nat
    <3>1. AtLeast(<<a, b>>, Floor(n)) <=> a >= b
      BY <2>2 DEF AtLeast
    <3>2. AtLeast(<<a, b>>, <<1, size + 1>>) <=> a * (size + 1) >= b
      BY DEF AtLeast
    <3> QED
      BY <2>3, <3>1, <3>2
  <2> QED
    BY <2>1, <2>2, <2>4 DEF n, size
<1>7. CASE G # {}
  <2>1. n = <<T * T, S>> /\ T \in Nat \ {0} /\ S \in Nat \ {0}
    BY <1>3, <1>4, <1>7
  <2>2. T * T \in Nat
    BY <2>1
  <2> DEFINE tt == T * T
  <2>3. tt <= size * S
    <3>1. T * T <= size * T /\ size * T <= size * S
      BY <1>4, <1>5, ProductsGrow
    <3>2. T * T \in Nat /\ size * T \in Nat /\ size * S \in Nat
      BY <1>4, <1>5
    <3> QED
      BY <3>1, <3>2
  <2>4. Floor(n) = <<S, tt + S>>
    BY <2>1 DEF Floor
  <2> HIDE DEF tt
  <2>5. tt \in Nat
    BY <2>2 DEF tt
  <2>6. ASSUME NEW a \in Nat, NEW b \in Nat, a * (tt + S) >= S * b
        PROVE  a * (size + 1) >= b
    <3>1. a * (tt + S) <= a * (size * S + S)
      <4>1. tt + S \in Nat /\ size * S \in Nat
        BY <1>5, <2>1, <2>5
      <4>2. tt + S <= size * S + S /\ size * S + S \in Nat
        BY <2>1, <2>3, <2>5, <4>1
      <4> QED
        BY <4>1, <4>2, ProductsGrow
    <3>2. a * (size * S + S) = (a * (size + 1)) * S
      BY <1>5, <2>1
    <3>3. a * (size + 1) \in Int /\ S * b = b * S /\ b * S \in Int
      BY <1>5, <2>1
    <3>4. (a * (size + 1)) * S \in Int /\ a * (tt + S) \in Int
      BY <1>5, <2>1, <2>5
    <3>5. ~((a * (size + 1)) * S < b * S)
      BY <2>6, <3>1, <3>2, <3>3, <3>4
    <3>6. ~(a * (size + 1) < b)
      BY <2>1, <3>3, <3>5, TimesPositive
    <3> QED
      BY <3>3, <3>6
  <2>7. \A a, b \in Nat : AtLeast(<<a, b>>, Floor(n)) => AtLeast(<<a, b>>, <<1, size + 1>>)
    <3> TAKE a, b \in Nat
    <3>1. AtLeast(<<a, b>>, Floor(n)) <=> a * (tt + S) >= S * b
      BY <2>4 DEF AtLeast
    <3>2. AtLeast(<<a, b>>, <<1, size + 1>>) <=> a * (size + 1) >= b
      BY DEF AtLeast
    <3> QED
      BY <2>6, <3>1, <3>2
  <2>8. tt + S \in Nat \ {0}
    BY <2>1, <2>5
  <2>9. n[1] = tt /\ n[2] = S
    BY <2>1 DEF tt
  <2> QED
    BY <2>1, <2>4, <2>5, <2>7, <2>8, <2>9 DEF n, size
<1> QED
  BY <1>6, <1>7

-----------------------------------------------------------------------------
(* The orders of a report.                                                  *)

LEMMA AscendingSorts ==
    ASSUME NEW S, IsFiniteSet(S), S \subseteq Int
    PROVE  LET f == Ascending(S)
           IN /\ f \in [1..Cardinality(S) -> S]
              /\ DOMAIN f = 1..Cardinality(S)
              /\ \A i, j \in 1..Cardinality(S) : f[i] = f[j] => i = j
              /\ \A x \in S : \E i \in 1..Cardinality(S) : f[i] = x
              /\ \A i, j \in 1..Cardinality(S) : i < j <=> f[i] < f[j]
<1> DEFINE f == Ascending(S)
           n == Cardinality(S)
<1>1. TotalOn(S, Pairs(S))
  BY DEF TotalOn, StrictOn, Pairs
<1>2. f = InOrder(S, Pairs(S))
  BY DEF Ascending
<1>3. /\ f \in [1..n -> S] /\ DOMAIN f = 1..n
      /\ \A i, j \in 1..n : f[i] = f[j] => i = j
      /\ \A x \in S : \E i \in 1..n : f[i] = x
      /\ \A i, j \in 1..n : i < j <=> <<f[i], f[j]>> \in Pairs(S)
  BY <1>1, <1>2, InOrderSorts
<1> HIDE DEF f, n
<1>4. \A i, j \in 1..n : <<f[i], f[j]>> \in Pairs(S) <=> f[i] < f[j]
  <2> TAKE i, j \in 1..n
  <2>1. f[i] \in S /\ f[j] \in S
    BY <1>3
  <2> QED
    BY <2>1 DEF Pairs
<1>5. \A i, j \in 1..n : i < j <=> f[i] < f[j]
  BY <1>3, <1>4
<1> QED
  BY <1>3, <1>5 DEF f, n

LEMMA OneLess ==
    ASSUME NEW a, NEW c
    PROVE  LexLess(<<a>>, <<c>>) <=> a < c
<1> DEFINE s == <<a>>
           t == <<c>>
<1>1. DOMAIN s = {1} /\ s[1] = a /\ t[1] = c /\ 1..(1 - 1) = {}
  OBVIOUS
<1> HIDE DEF s, t
<1>2. LexLess(s, t) <=> s[1] < t[1] /\ \A j \in 1..(1 - 1) : s[j] = t[j]
  BY <1>1 DEF LexLess
<1> QED
  BY <1>1, <1>2 DEF s, t

\* Two numbers compared as a pair.
LEMMA PairLess ==
    ASSUME NEW a, NEW b, NEW c, NEW e
    PROVE  LexLess(<<a, b>>, <<c, e>>) <=> a < c \/ (a = c /\ b < e)
<1> DEFINE s == <<a, b>>
           t == <<c, e>>
<1>1. DOMAIN s = {1, 2} /\ s[1] = a /\ s[2] = b /\ t[1] = c /\ t[2] = e
  OBVIOUS
<1>2. 1..(1 - 1) = {} /\ 1..(2 - 1) = {1}
  OBVIOUS
<1> HIDE DEF s, t
<1>3. LexLess(s, t)
        <=> \/ s[1] < t[1] /\ \A j \in 1..(1 - 1) : s[j] = t[j]
            \/ s[2] < t[2] /\ \A j \in 1..(2 - 1) : s[j] = t[j]
  BY <1>1 DEF LexLess
<1>4. LexLess(s, t) <=> s[1] < t[1] \/ (s[2] < t[2] /\ s[1] = t[1])
  BY <1>2, <1>3
<1> QED
  BY <1>1, <1>4 DEF s, t

\* Assets by rank: each once, better ranks first.
LEMMA RanksInOrder ==
    ASSUME NEW S, IsFiniteSet(S), S \subseteq Int, NEW ranks \in [S -> Int]
    PROVE  LET f == ByRank(ranks)
           IN /\ f \in [1..Cardinality(S) -> S]
              /\ DOMAIN f = 1..Cardinality(S)
              /\ \A i, j \in 1..Cardinality(S) : f[i] = f[j] => i = j
              /\ \A x \in S : \E i \in 1..Cardinality(S) : f[i] = x
<1> DEFINE key == [a \in S |-> <<ranks[a], a>>]
           R == LexBefore(S, key)
           Q == {p \in S \X S :
                   ranks[p[1]] < ranks[p[2]] \/ (ranks[p[1]] = ranks[p[2]] /\ p[1] < p[2])}
<1>1. KeysOf(S, 2, key)
  BY DEF KeysOf
<1>2. \A a, b \in S : a # b => \E i \in 1..2 : key[a][i] # key[b][i]
  <2> TAKE a, b \in S
  <2>1. key[a][2] = a /\ key[b][2] = b
    OBVIOUS
  <2> QED
    BY <2>1
<1>3. TotalOn(S, R)
  <2> HIDE DEF key
  <2>1. 2 \in Nat
    OBVIOUS
  <2>2. TotalOn(S, LexBefore(S, key))
    BY <1>1, <1>2, <2>1, LexOrder
  <2> QED
    BY <2>2
<1>4. R = Q
  <2>1. \A p \in S \X S :
          LexLess(key[p[1]], key[p[2]])
            <=> ranks[p[1]] < ranks[p[2]] \/ (ranks[p[1]] = ranks[p[2]] /\ p[1] < p[2])
    <3> TAKE p \in S \X S
    <3>1. key[p[1]] = <<ranks[p[1]], p[1]>> /\ key[p[2]] = <<ranks[p[2]], p[2]>>
      OBVIOUS
    <3> QED
      BY <3>1, PairLess
  <2> QED
    BY <2>1 DEF LexBefore
<1>5. ByRank(ranks) = InOrder(S, Q)
  <2>1. DOMAIN ranks = S
    OBVIOUS
  <2> QED
    BY <2>1 DEF ByRank
<1> HIDE DEF R, Q
<1> QED
  BY <1>3, <1>4, <1>5, InOrderSorts

\* Scores: fractions of positive denominators.
ScoresTyped(S, scores) ==
    /\ DOMAIN scores = S
    /\ \A a \in S : scores[a][1] \in Int /\ scores[a][2] \in Nat \ {0}

\* The order of the scores, the best first.
ScoreOrder(S, scores) ==
    {p \in S \X S : \/ Greater(scores[p[1]], scores[p[2]])
                    \/ SameScore(scores[p[1]], scores[p[2]]) /\ p[1] < p[2]}

LEMMA ScoresInOrder ==
    ASSUME NEW S, S \subseteq Int, NEW scores, ScoresTyped(S, scores)
    PROVE  TotalOn(S, ScoreOrder(S, scores))
<1> DEFINE num == [a \in S |-> 0 - scores[a][1]]
           den == [a \in S |-> scores[a][2]]
           key == [a \in S |-> <<a>>]
           R == RatioBefore(S, num, den, key)
<1>1. \A a \in S : num[a] \in Int /\ den[a] \in Nat \ {0}
  BY DEF ScoresTyped
<1>2. KeysOf(S, 1, key)
  BY DEF KeysOf
<1>3. \A a, b \in S : a # b => \E i \in 1..1 : key[a][i] # key[b][i]
  <2> TAKE a, b \in S
  <2>1. key[a][1] = a /\ key[b][1] = b /\ 1 \in 1..1
    OBVIOUS
  <2> QED
    BY <2>1
<1>4. TotalOn(S, R)
  <2> HIDE DEF num, den, key
  <2>1. 1 \in Nat
    OBVIOUS
  <2>2. TotalOn(S, RatioBefore(S, num, den, key))
    BY <1>1, <1>2, <1>3, <2>1, RatioOrder
  <2> QED
    BY <2>2
<1>5. R = ScoreOrder(S, scores)
  <2>1. ASSUME NEW x \in S, NEW y \in S
        PROVE  /\ num[x] * den[y] < num[y] * den[x]
                    <=> Greater(scores[x], scores[y])
               /\ num[x] * den[y] = num[y] * den[x]
                    <=> SameScore(scores[x], scores[y])
               /\ LexLess(key[x], key[y]) <=> x < y
    <3> DEFINE a == scores[x][1]  b == scores[x][2]
               u == scores[y][1]  v == scores[y][2]
    <3>1. a \in Int /\ b \in Int /\ u \in Int /\ v \in Int
      BY DEF ScoresTyped
    <3>2. /\ num[x] = 0 - a /\ den[x] = b
          /\ num[y] = 0 - u /\ den[y] = v
      OBVIOUS
    <3>3. key[x] = <<x>> /\ key[y] = <<y>>
      OBVIOUS
    <3>4. Greater(scores[x], scores[y]) <=> a * v > u * b
      BY DEF Greater
    <3>5. SameScore(scores[x], scores[y]) <=> a * v = u * b
      BY DEF SameScore
    <3> HIDE DEF a, b, u, v, num, den, key
    <3>6. (0 - a) * v = 0 - (a * v) /\ (0 - u) * b = 0 - (u * b)
      BY <3>1
    <3>7. a * v \in Int /\ u * b \in Int
      BY <3>1
    <3>8. LexLess(key[x], key[y]) <=> x < y
      BY <3>3, OneLess
    <3>9. \A m, n \in Int : /\ 0 - m < 0 - n <=> m > n
                            /\ 0 - m = 0 - n <=> m = n
      OBVIOUS
    <3> QED
      BY <3>2, <3>4, <3>5, <3>6, <3>7, <3>8, <3>9
  <2> HIDE DEF num, den, key
  <2> QED
    BY <2>1 DEF RatioBefore, ScoreOrder
<1> QED
  BY <1>4, <1>5

LEMMA ScoresCompare ==
    ASSUME NEW S, NEW scores, ScoresTyped(S, scores), NEW x \in S, NEW y \in S, NEW z \in S
    PROVE  /\ Greater(scores[x], scores[y]) /\ Greater(scores[y], scores[z])
                => Greater(scores[x], scores[z])
           /\ Greater(scores[x], scores[y]) /\ SameScore(scores[y], scores[z])
                => Greater(scores[x], scores[z])
           /\ SameScore(scores[x], scores[y]) /\ Greater(scores[y], scores[z])
                => Greater(scores[x], scores[z])
           /\ SameScore(scores[x], scores[y]) /\ SameScore(scores[y], scores[z])
                => SameScore(scores[x], scores[z])
           /\ SameScore(scores[x], scores[y]) => SameScore(scores[y], scores[x])
           /\ SameScore(scores[x], scores[x])
           /\ ~(Greater(scores[x], scores[y]) /\ SameScore(scores[x], scores[y]))
           /\ ~(Greater(scores[x], scores[y]) /\ Greater(scores[y], scores[x]))
<1> DEFINE a == scores[z][1]  b == scores[z][2]
           c == scores[y][1]  g == scores[y][2]
           e == scores[x][1]  f == scores[x][2]
<1>1. /\ a \in Int /\ c \in Int /\ e \in Int
      /\ b \in Nat \ {0} /\ g \in Nat \ {0} /\ f \in Nat \ {0}
  BY DEF ScoresTyped
<1>2. /\ Greater(scores[x], scores[y]) <=> c * f < e * g
      /\ Greater(scores[y], scores[x]) <=> e * g < c * f
      /\ Greater(scores[y], scores[z]) <=> a * g < c * b
      /\ Greater(scores[x], scores[z]) <=> a * f < e * b
      /\ SameScore(scores[x], scores[y]) <=> c * f = e * g
      /\ SameScore(scores[y], scores[x]) <=> c * f = e * g
      /\ SameScore(scores[y], scores[z]) <=> a * g = c * b
      /\ SameScore(scores[x], scores[z]) <=> a * f = e * b
      /\ SameScore(scores[x], scores[x])
  <2> HIDE DEF a, b, c, g, e, f
  <2>1. c * f \in Int /\ e * g \in Int /\ a * g \in Int /\ c * b \in Int
        /\ a * f \in Int /\ e * b \in Int
    BY <1>1
  <2>2. \A m, n \in Int : (m > n <=> n < m) /\ (m = n <=> n = m)
    OBVIOUS
  <2>3. /\ Greater(scores[x], scores[y]) <=> e * g > c * f
        /\ Greater(scores[y], scores[x]) <=> c * f > e * g
        /\ Greater(scores[y], scores[z]) <=> c * b > a * g
        /\ Greater(scores[x], scores[z]) <=> e * b > a * f
        /\ SameScore(scores[x], scores[y]) <=> e * g = c * f
        /\ SameScore(scores[y], scores[x]) <=> c * f = e * g
        /\ SameScore(scores[y], scores[z]) <=> c * b = a * g
        /\ SameScore(scores[x], scores[z]) <=> e * b = a * f
        /\ SameScore(scores[x], scores[x])
    BY DEF Greater, SameScore, a, b, c, g, e, f
  <2> QED
    BY <2>1, <2>2, <2>3
<1> HIDE DEF a, b, c, g, e, f
<1>3. /\ a * g < c * b /\ c * f < e * g => a * f < e * b
      /\ a * g < c * b /\ c * f = e * g => a * f < e * b
      /\ a * g = c * b /\ c * f < e * g => a * f < e * b
      /\ a * g = c * b /\ c * f = e * g => a * f = e * b
  BY <1>1, FractionsCompare
<1>4. c * f \in Int /\ e * g \in Int
  BY <1>1
<1>5. ~(c * f < e * g /\ c * f = e * g) /\ ~(c * f < e * g /\ e * g < c * f)
  BY <1>4
<1> QED
  BY <1>2, <1>3, <1>5

\* What a sequence lists once has its length.
LEMMA ListedOnce ==
    ASSUME NEW k \in Nat, NEW f, \A i, j \in 1..k : f[i] = f[j] => i = j
    PROVE  /\ IsFiniteSet({f[i] : i \in 1..k})
           /\ Cardinality({f[i] : i \in 1..k}) = k
<1> DEFINE T == {f[i] : i \in 1..k}
           g == [i \in 1..k |-> f[i]]
<1>1. g \in [1..k -> T]
  OBVIOUS
<1>2. \A i, j \in 1..k : g[i] = g[j] => i = j
  OBVIOUS
<1>3. \A y \in T : \E i \in 1..k : g[i] = y
  OBVIOUS
<1>4. IsFiniteSet(1..k) /\ Cardinality(1..k) = k
  BY FS_Interval
<1> HIDE DEF g, T
<1>5. g \in Bijection(1..k, T)
  <2>1. g \in Injection(1..k, T)
    BY <1>1, <1>2, Fun_IsInj
  <2>2. g \in Surjection(1..k, T)
    BY <1>1, <1>3, Fun_IsSurj
  <2> QED
    BY <2>1, <2>2 DEF Bijection
<1>6. IsFiniteSet(T) /\ Cardinality(T) = Cardinality(1..k)
  <2>1. ExistsBijection(1..k, T)
    BY <1>5 DEF ExistsBijection
  <2> QED
    BY <1>4, <2>1, FS_Bijection
<1> QED
  BY <1>4, <1>6 DEF T

Betters(S, scores, a) == {x \in S : Greater(scores[x], scores[a])}

\* _competition_ranks: one more than the number of better scores.
LEMMA RanksCount ==
    ASSUME NEW S, IsFiniteSet(S), S \subseteq Int, NEW scores, ScoresTyped(S, scores)
    PROVE  /\ CompetitionRanks(scores) \in [S -> Int]
           /\ \A a \in S : CompetitionRanks(scores)[a] = 1 + Cardinality(Betters(S, scores, a))
<1> DEFINE n == Cardinality(S)
           f == InOrder(S, ScoreOrder(S, scores))
           Same(a) == {i \in 1..n : SameScore(scores[f[i]], scores[a])}
           Better(a) == {x \in S : Greater(scores[x], scores[a])}
<1>1. TotalOn(S, ScoreOrder(S, scores))
  BY ScoresInOrder
<1>2. /\ f \in [1..n -> S] /\ DOMAIN f = 1..n
      /\ \A i, j \in 1..n : f[i] = f[j] => i = j
      /\ \A x \in S : \E i \in 1..n : f[i] = x
      /\ \A i, j \in 1..n : i < j <=> <<f[i], f[j]>> \in ScoreOrder(S, scores)
  BY <1>1, InOrderSorts
<1>3. n \in Nat
  BY FS_CardinalityType
<1>4. CompetitionRanks(scores) = [a \in S |-> Min(Same(a))]
  <2>1. DOMAIN scores = S
    BY DEF ScoresTyped
  <2>2. CompetitionRanks(scores)
          = [a \in S |-> Min({i \in DOMAIN f : SameScore(scores[f[i]], scores[a])})]
    BY <2>1 DEF CompetitionRanks, ScoreOrder
  <2> HIDE DEF f, n
  <2> QED
    BY <1>2, <2>2
<1> HIDE DEF f, n
<1>5. ASSUME NEW a \in S
      PROVE  Min(Same(a)) \in Int /\ Min(Same(a)) = 1 + Cardinality(Better(a))
  <2> DEFINE least == Min(Same(a))
  <2>1. Same(a) \in SUBSET Nat /\ Same(a) # {}
    <3>1. PICK i \in 1..n : f[i] = a
      BY <1>2
    <3>2. SameScore(scores[f[i]], scores[a])
      BY <3>1, ScoresCompare
    <3>3. i \in Same(a)
      BY <3>2
    <3> QED
      BY <1>3, <3>3
  <2>2. least \in Same(a) /\ \A i \in Same(a) : least <= i
    <3>1. \E i \in Same(a) : \A j \in Same(a) : i <= j
      <4> HIDE DEF Same
      <4> QED
        BY <2>1, LeastNatural
    <3> HIDE DEF Same
    <3> QED
      BY <3>1 DEF Min
  <2>3. least \in 1..n /\ SameScore(scores[f[least]], scores[a])
    BY <2>2
  <2>4. \A i \in 1..n : i < least => ~SameScore(scores[f[i]], scores[a])
    <3> TAKE i \in 1..n
    <3> HAVE i < least
    <3>1. i \notin Same(a)
      <4>1. ~(least <= i)
        BY <1>3, <2>3
      <4> QED
        BY <2>2, <4>1
    <3> QED
      BY <3>1
  <2> HIDE DEF least, Same
  <2>5. \A i \in 1..n : f[i] \in S
    BY <1>2
  <2>6. \A i \in 1..n : i < least <=> Greater(scores[f[i]], scores[a])
    <3> TAKE i \in 1..n
    <3>1. ASSUME i < least
          PROVE  Greater(scores[f[i]], scores[a])
      <4>1. <<f[i], f[least]>> \in ScoreOrder(S, scores)
        BY <1>2, <2>3, <3>1
      <4>2. \/ Greater(scores[f[i]], scores[f[least]])
            \/ SameScore(scores[f[i]], scores[f[least]])
        BY <4>1 DEF ScoreOrder
      <4>3. ~SameScore(scores[f[i]], scores[a])
        BY <2>4, <3>1
      <4> QED
        BY <2>3, <2>5, <4>2, <4>3, ScoresCompare
    <3>2. ASSUME Greater(scores[f[i]], scores[a])
          PROVE  i < least
      <4>1. SameScore(scores[a], scores[f[least]])
        BY <2>3, <2>5, ScoresCompare
      <4>2. Greater(scores[f[i]], scores[f[least]])
        BY <2>3, <2>5, <3>2, <4>1, ScoresCompare
      <4>3. <<f[i], f[least]>> \in ScoreOrder(S, scores)
        BY <2>3, <2>5, <4>2 DEF ScoreOrder
      <4> QED
        BY <1>2, <2>3, <4>3
    <3> QED
      BY <3>1, <3>2
  <2>7. least - 1 \in Nat /\ 1..(least - 1) = {i \in 1..n : i < least}
    BY <1>3, <2>3
  <2> DEFINE before == {f[i] : i \in 1..(least - 1)}
  <2>8. Better(a) = before
    <3>1. ASSUME NEW x \in before
          PROVE  x \in Better(a)
      <4>1. PICK i \in 1..(least - 1) : x = f[i]
        OBVIOUS
      <4>2. i \in 1..n /\ i < least
        BY <2>7
      <4> QED
        BY <2>5, <2>6, <4>1, <4>2
    <3>2. ASSUME NEW x \in Better(a)
          PROVE  x \in before
      <4>1. PICK i \in 1..n : f[i] = x
        BY <1>2
      <4>2. i < least
        BY <2>6, <4>1
      <4>3. i \in 1..(least - 1)
        BY <2>7, <4>2
      <4> QED
        BY <4>1, <4>3
    <3> QED
      BY <3>1, <3>2
  <2>9. \A i, j \in 1..(least - 1) : f[i] = f[j] => i = j
    BY <1>2, <2>7
  <2>10. Cardinality(Better(a)) = least - 1
    <3>1. Cardinality(before) = least - 1
      <4> DEFINE k == least - 1
      <4>1. k \in Nat
        BY <2>7
      <4>2. \A i, j \in 1..k : f[i] = f[j] => i = j
        BY <2>9
      <4> HIDE DEF k
      <4>3. Cardinality({f[i] : i \in 1..k}) = k
        BY <4>1, <4>2, ListedOnce
      <4> QED
        BY <4>3 DEF k
    <3> QED
      BY <2>8, <3>1
  <2>11. least \in Int /\ least = 1 + (least - 1)
    BY <1>3, <2>3
  <2> QED
    BY <2>10, <2>11 DEF least
<1>6. \A a \in S : Min(Same(a)) \in Int /\ Min(Same(a)) = 1 + Cardinality(Better(a))
  BY <1>5
<1> HIDE DEF Same, Better
<1>7. /\ CompetitionRanks(scores) \in [S -> Int]
      /\ \A a \in S : CompetitionRanks(scores)[a] = 1 + Cardinality(Better(a))
  BY <1>4, <1>6
<1> QED
  BY <1>7 DEF Better, Betters

-----------------------------------------------------------------------------
(* The assets of a report.                                                  *)

ScoredAsset(judged, categories, scores, intervals, ranks, c) ==
    [asset |-> c, state |-> "scored",
     category |-> CHOOSE n \in DOMAIN categories :
                     categories[n] = judged[c].partition.members,
     nLocal |-> Cardinality(judged[c].partition.members),
     score |-> scores[c], style |-> scores[c],
     interval |-> intervals[c], rank |-> ranks[c],
     exemplars |-> judged[c].exemplars]

HeldAsset(judged, categories, c) ==
    [asset |-> c, state |-> "abstained",
     category |-> CHOOSE n \in DOMAIN categories :
                     categories[n] = judged[c].partition.members,
     reason |-> judged[c].verdict, style |-> <<>>,
     exemplars |-> judged[c].exemplars]

\* Every candidate has one asset: scored or held.
Lists(assets, judged, S, categories, scores, intervals, ranks) ==
    /\ \E N \in Nat : DOMAIN assets = 1..N
    /\ \A n \in DOMAIN assets :
          /\ assets[n].asset \in DOMAIN judged
          /\ assets[n].state = "scored" <=> assets[n].asset \in S
          /\ assets[n].asset \in S =>
               assets[n] = ScoredAsset(judged, categories, scores, intervals, ranks,
                                       assets[n].asset)
          /\ assets[n].asset \notin S =>
               assets[n] = HeldAsset(judged, categories, assets[n].asset)
    /\ \A m, n \in DOMAIN assets : assets[m].asset = assets[n].asset => m = n
    /\ \A c \in DOMAIN judged : \E n \in DOMAIN assets : assets[n].asset = c

LEMMA Appended ==
    ASSUME NEW K \in Nat, NEW L \in Nat, NEW f, NEW g, f = [n \in 1..K |-> f[n]],
           g = [n \in 1..L |-> g[n]]
    PROVE  /\ DOMAIN (f \o g) = 1..(K + L)
           /\ \A n \in 1..K : (f \o g)[n] = f[n]
           /\ \A n \in 1..L : (f \o g)[K + n] = g[n]
<1> DEFINE X == {f[n] : n \in 1..K} \cup {g[n] : n \in 1..L}
<1>1. f \in [1..K -> X] /\ g \in [1..L -> X]
  OBVIOUS
<1>2. f \in Seq(X) /\ g \in Seq(X) /\ Len(f) = K /\ Len(g) = L
  <2> HIDE DEF X
  <2> QED
    BY <1>1
<1> HIDE DEF X
<1>3. DOMAIN (f \o g) = 1..(K + L)
  BY <1>2
<1>4. \A n \in 1..K : (f \o g)[n] = f[n]
  BY <1>2
<1>5. \A n \in 1..L : (f \o g)[K + n] = g[n]
  <2> TAKE n \in 1..L
  <2>1. K + n \in 1..(K + L) /\ ~(K + n <= K) /\ (K + n) - K = n
    OBVIOUS
  <2> QED
    BY <1>2, <2>1
<1> QED
  BY <1>3, <1>4, <1>5

LEMMA AssetsListed ==
    ASSUME NEW judged, IsFiniteSet(DOMAIN judged), DOMAIN judged \subseteq Int,
           NEW S \in SUBSET DOMAIN judged, NEW categories,
           NEW scores, DOMAIN scores = S, NEW intervals, NEW ranks \in [S -> Int]
    PROVE  Lists(BuildAssets(judged, categories, scores, intervals, ranks),
                 judged, S, categories, scores, intervals, ranks)
<1> DEFINE cands == DOMAIN judged
           K == Cardinality(S)
           L == Cardinality(cands \ S)
           scored == ByRank(ranks)
           held == Ascending(cands \ S)
           f == [n \in 1..K |-> ScoredAsset(judged, categories, scores, intervals, ranks,
                                            scored[n])]
           g == [n \in 1..L |-> HeldAsset(judged, categories, held[n])]
           assets == BuildAssets(judged, categories, scores, intervals, ranks)
<1>1. /\ IsFiniteSet(S) /\ IsFiniteSet(cands \ S) /\ S \subseteq Int
      /\ cands \ S \subseteq Int
  BY FS_Subset
<1>2. K \in Nat /\ L \in Nat
  BY <1>1, FS_CardinalityType
<1>3. /\ scored \in [1..K -> S] /\ DOMAIN scored = 1..K
      /\ \A i, j \in 1..K : scored[i] = scored[j] => i = j
      /\ \A x \in S : \E i \in 1..K : scored[i] = x
  BY <1>1, RanksInOrder
<1>4. /\ held \in [1..L -> cands \ S] /\ DOMAIN held = 1..L
      /\ \A i, j \in 1..L : held[i] = held[j] => i = j
      /\ \A x \in cands \ S : \E i \in 1..L : held[i] = x
  BY <1>1, AscendingSorts
<1>5. assets = f \o g
  <2> HIDE DEF scored, held
  <2>1. DOMAIN scored = 1..K /\ DOMAIN held = 1..L
    BY <1>3, <1>4
  <2> HIDE DEF K, L
  <2> QED
    BY <2>1 DEF BuildAssets, ScoredAsset, HeldAsset, scored, held
<1> HIDE DEF assets, scored, held, K, L
<1>6. f = [n \in 1..K |-> f[n]] /\ g = [n \in 1..L |-> g[n]]
  OBVIOUS
<1>7. /\ \A n \in 1..K : f[n] = ScoredAsset(judged, categories, scores, intervals, ranks,
                                            scored[n])
      /\ \A n \in 1..L : g[n] = HeldAsset(judged, categories, held[n])
  OBVIOUS
<1> HIDE DEF f, g
<1>8. /\ DOMAIN assets = 1..(K + L)
      /\ \A n \in 1..K : assets[n] = f[n]
      /\ \A n \in 1..L : assets[K + n] = g[n]
  BY <1>2, <1>5, <1>6, Appended
<1>9. \A n \in 1..(K + L) : n \in 1..K \/ \E m \in 1..L : n = K + m
  <2> TAKE n \in 1..(K + L)
  <2>1. n \in 1..K \/ (n - K \in 1..L /\ n = K + (n - K))
    BY <1>2
  <2> QED
    BY <2>1
<1>10. \A n \in 1..K :
         /\ assets[n] = ScoredAsset(judged, categories, scores, intervals, ranks, scored[n])
         /\ assets[n].asset = scored[n] /\ assets[n].state = "scored" /\ scored[n] \in S
  <2> TAKE n \in 1..K
  <2>1. assets[n] = ScoredAsset(judged, categories, scores, intervals, ranks, scored[n])
    BY <1>7, <1>8
  <2>2. assets[n].asset = scored[n] /\ assets[n].state = "scored"
    BY <2>1 DEF ScoredAsset
  <2> QED
    BY <1>3, <2>1, <2>2
<1>11. \A m \in 1..L :
         /\ assets[K + m] = HeldAsset(judged, categories, held[m])
         /\ assets[K + m].asset = held[m] /\ assets[K + m].state = "abstained"
         /\ held[m] \in cands \ S
  <2> TAKE m \in 1..L
  <2>1. assets[K + m] = HeldAsset(judged, categories, held[m])
    BY <1>7, <1>8
  <2>2. assets[K + m].asset = held[m] /\ assets[K + m].state = "abstained"
    BY <2>1 DEF HeldAsset
  <2> QED
    BY <1>4, <2>1, <2>2
<1>12. ASSUME NEW n \in DOMAIN assets
       PROVE  /\ assets[n].asset \in DOMAIN judged
              /\ assets[n].state = "scored" <=> assets[n].asset \in S
              /\ assets[n].asset \in S =>
                   assets[n] = ScoredAsset(judged, categories, scores, intervals, ranks,
                                           assets[n].asset)
              /\ assets[n].asset \notin S =>
                   assets[n] = HeldAsset(judged, categories, assets[n].asset)
  <2>1. CASE n \in 1..K
    BY <1>10, <2>1
  <2>2. CASE \E m \in 1..L : n = K + m
    BY <1>11, <2>2
  <2> QED
    BY <1>8, <1>9, <2>1, <2>2
<1>13. ASSUME NEW m \in DOMAIN assets, NEW n \in DOMAIN assets,
              assets[m].asset = assets[n].asset
       PROVE  m = n
  <2>1. CASE m \in 1..K /\ n \in 1..K
    BY <1>3, <1>10, <1>13, <2>1
  <2>2. CASE m \in 1..K /\ \E j \in 1..L : n = K + j
    BY <1>10, <1>11, <1>13, <2>2
  <2>3. CASE n \in 1..K /\ \E i \in 1..L : m = K + i
    BY <1>10, <1>11, <1>13, <2>3
  <2>4. ASSUME NEW i \in 1..L, m = K + i, NEW j \in 1..L, n = K + j
        PROVE  m = n
    BY <1>4, <1>11, <1>13, <2>4
  <2> QED
    BY <1>8, <1>9, <2>1, <2>2, <2>3, <2>4
<1>14. ASSUME NEW c \in cands
       PROVE  \E n \in DOMAIN assets : assets[n].asset = c
  <2>1. CASE c \in S
    <3>1. PICK i \in 1..K : scored[i] = c
      BY <1>3, <2>1
    <3>2. i \in 1..(K + L)
      BY <1>2
    <3> QED
      BY <1>8, <1>10, <3>1, <3>2
  <2>2. CASE c \notin S
    <3>1. PICK i \in 1..L : held[i] = c
      BY <1>4, <2>2
    <3>2. K + i \in 1..(K + L)
      BY <1>2
    <3> QED
      BY <1>8, <1>11, <3>1, <3>2
  <2> QED
    BY <2>1, <2>2
<1>15. \E N \in Nat : DOMAIN assets = 1..N
  <2>1. K + L \in Nat
    BY <1>2
  <2> QED
    BY <1>8, <2>1
<1>16. Lists(assets, judged, S, categories, scores, intervals, ranks)
  BY <1>12, <1>13, <1>14, <1>15 DEF Lists
<1> QED
  BY <1>16 DEF assets

-----------------------------------------------------------------------------
(* The report of a run.                                                     *)

\* What a run ranks: references and candidates, apart, at integer distances.
RunTyped(d, h, board, cands) ==
    /\ IsFiniteSet(board.refs) /\ IsFiniteSet(cands)
    /\ board.refs \subseteq Int /\ cands \subseteq Int
    /\ board.refs \cap cands = {}
    /\ \A i, j \in board.refs \cup cands : d[i][j] \in Int
    /\ \A i \in board.refs \cup cands : h[i] \in Int

GroupsOf(d, board) == DuplicateGroups(d, board.refs, board.dupCut)

JudgedAll(d, h, board, cands, alpha) ==
    [c \in cands |-> ScoreCandidate(d, h, board, GroupsOf(d, board), c, alpha)]

Admitted(judged) == {c \in DOMAIN judged : judged[c].verdict = "none"}

ScoresOf(d, board, judged) ==
    [c \in Admitted(judged) |->
        <<PCount(d, judged[c].partition.members, c, board.k),
          Cardinality(judged[c].partition.members) + 1>>]

IntervalsOf(d, board, judged) ==
    [c \in Admitted(judged) |->
        [ends |-> LooInterval(d, judged[c].partition.members, c, board.k, board.level),
         level |-> board.level]]

RanksOf(d, board, judged) == CompetitionRanks(ScoresOf(d, board, judged))

\* What the report of such a run holds.
ReportShape(d, h, board, cands, alpha, mode) ==
    LET report == Rank(d, h, board, cands, alpha, mode)
        judged == JudgedAll(d, h, board, cands, alpha)
        scores == ScoresOf(d, board, judged)
        ranks == RanksOf(d, board, judged)
    IN /\ report.references = Ascending(board.refs)
       /\ report.k = board.k /\ report.kCap = board.kCap /\ report.level = board.level
       /\ report.supported = Coarsest({judged[c].supported : c \in cands})
       /\ report.categories = BoardCategories(judged)
       /\ report.assets = BuildAssets(judged, BoardCategories(judged), scores,
                                      IntervalsOf(d, board, judged), ranks)
       /\ report.compared = TiePairs(judged, scores, ranks, mode)
       /\ \A c \in cands : judged[c].partition.members # {}

LEMMA ReportIs ==
    ASSUME NEW d, NEW h, NEW board, NEW cands, NEW alpha, NEW mode,
           ~Refused(Rank(d, h, board, cands, alpha, mode))
    PROVE  ReportShape(d, h, board, cands, alpha, mode)
<1> DEFINE groups == GroupsOf(d, board)
           judged == JudgedAll(d, h, board, cands, alpha)
           report == Rank(d, h, board, cands, alpha, mode)
           members(c) == judged[c].partition.members
           scores == ScoresOf(d, board, judged)
           intervals == IntervalsOf(d, board, judged)
           ranks == RanksOf(d, board, judged)
           stops == \/ \E c \in Admitted(judged) : Cardinality(members(c)) < 2
                    \/ \E c \in cands : members(c) = {}
<1>1. report = Report(d, board, groups, judged, alpha, mode)
  BY DEF Rank, RankWithin, GroupsOf, JudgedAll
<1>2. DOMAIN judged = cands
  BY DEF JudgedAll
<1> HIDE DEF judged, groups
<1>3. stops => report = [refused |-> TRUE]
  BY <1>1, <1>2 DEF Report, Admitted
<1>4. ASSUME ~stops
      PROVE  /\ report.references = Ascending(board.refs)
             /\ report.k = board.k /\ report.kCap = board.kCap
             /\ report.level = board.level
             /\ report.supported = Coarsest({judged[c].supported : c \in cands})
             /\ report.categories = BoardCategories(judged)
             /\ report.assets = BuildAssets(judged, BoardCategories(judged), scores,
                                            intervals, ranks)
             /\ report.compared = TiePairs(judged, scores, ranks, mode)
  <2> DEFINE pairs == TiePairs(judged, scores, ranks, mode)
             difference(p) == PairedInterval(d, members(p[1]), p[1], p[2], board.k, board.level)
  <2>1. Report(d, board, groups, judged, alpha, mode) =
          [references |-> Ascending(board.refs), k |-> board.k, kCap |-> board.kCap,
           level |-> board.level, requested |-> alpha,
           supported |-> Coarsest({judged[c].supported : c \in cands}),
           categories |-> BoardCategories(judged),
           assets |-> BuildAssets(judged, BoardCategories(judged), scores, intervals, ranks),
           compared |-> pairs,
           ties |-> {p \in pairs : difference(p).low <= 0 /\ 0 <= difference(p).high},
           leverage |-> Leverage(d, board.refs, board.k),
           flags |-> Flags(d, board, groups, judged)]
    BY <1>2, <1>4 DEF Report, Admitted, ScoresOf, IntervalsOf, RanksOf
  <2> HIDE DEF pairs, difference, scores, intervals, ranks, report
  <2> QED
    BY <1>1, <2>1 DEF pairs
<1>5. ~stops
  <2>1. "refused" \in DOMAIN [refused |-> TRUE]
    OBVIOUS
  <2> HIDE DEF stops, report
  <2>2. ~Refused(report)
    BY DEF report
  <2> QED
    BY <1>3, <2>1, <2>2 DEF Refused
<1>6. \A c \in cands : members(c) # {}
  BY <1>5
<1> HIDE DEF stops
<1> QED
  BY <1>4, <1>5, <1>6 DEF judged, ReportShape

\* What a candidate is judged by.
JudgedBy(d, h, board, groups, c, alpha) ==
    LET part == Partition(d, board.refs, c, h, board.cut, board.minSize)
        scored == ScoreCandidate(d, h, board, groups, c, alpha)
    IN /\ scored.partition = part
       /\ Divides(part, board.refs)
       /\ IsFiniteSet(part.members) /\ part.members \in SUBSET board.refs
       /\ scored.supported = Floor(CategoryNEff(part.members, groups))
       /\ scored.exemplars = Exemplars(d, board.refs, c, 3)
       /\ scored.verdict = "none" => AtLeast(alpha, scored.supported)
       /\ AtLeast(alpha, scored.supported) => scored.verdict \in {"none", "far_outlier"}

LEMMA CandidateJudged ==
    ASSUME NEW d, NEW h, NEW board, NEW cands, RunTyped(d, h, board, cands),
           NEW c \in cands, NEW groups, NEW alpha
    PROVE  JudgedBy(d, h, board, groups, c, alpha)
<1> DEFINE part == Partition(d, board.refs, c, h, board.cut, board.minSize)
           scored == ScoreCandidate(d, h, board, groups, c, alpha)
           values == Nonconformity(d, board.refs \cup {c},
                                   Smaller(board.k, Cardinality(board.refs)))
           order == Ascending(board.refs)
           listed == [n \in DOMAIN order |-> values[order[n]]]
<1>1. BagTyped(d, h, board.refs \cup {c}) /\ c \notin board.refs
  <2>1. IsFiniteSet({c})
    BY FS_Singleton
  <2>2. IsFiniteSet(board.refs \cup {c})
    BY <2>1, FS_Union DEF RunTyped
  <2> QED
    BY <2>2 DEF RunTyped, BagTyped, Distances
<1>2. Divides(part, board.refs)
  BY <1>1, PartitionDivides
<1> HIDE DEF part
<1>3. part.members \in SUBSET board.refs /\ IsFiniteSet(part.members)
  <2>1. part.members \in SUBSET board.refs
    BY <1>2 DEF Divides
  <2> QED
    BY <2>1, FS_Subset DEF RunTyped
<1>4. /\ scored.partition = part
      /\ scored.supported = Floor(CategoryNEff(part.members, groups))
      /\ scored.exemplars = Exemplars(d, board.refs, c, 3)
      /\ scored.verdict = EvaluateAbstention(part, alpha, values[c], listed, groups,
                                             board.multiplier)
  BY DEF ScoreCandidate, ScoreWithin, part
<1> HIDE DEF scored
<1>5. scored.verdict =
        IF CheckResolution(part, alpha, groups) # "none" THEN CheckResolution(part, alpha, groups)
        ELSE CheckFarOutlier(values[c], listed, board.multiplier)
  BY <1>4 DEF EvaluateAbstention
<1>6. CheckResolution(part, alpha, groups) = "none" <=> AtLeast(alpha, scored.supported)
  BY <1>4 DEF CheckResolution
<1>7. CheckFarOutlier(values[c], listed, board.multiplier) \in {"none", "far_outlier"}
  BY DEF CheckFarOutlier
<1> HIDE DEF values, listed
<1>8. /\ scored.verdict = "none" => AtLeast(alpha, scored.supported)
      /\ AtLeast(alpha, scored.supported) => scored.verdict \in {"none", "far_outlier"}
  BY <1>5, <1>6, <1>7
<1> QED
  BY <1>2, <1>3, <1>4, <1>8 DEF part, scored, JudgedBy

LEMMA GroupsDisjoint ==
    ASSUME NEW d, NEW refs, NEW cut
    PROVE  Disjoint(DuplicateGroups(d, refs, cut))
<1>1. PICK parent : DuplicateGroups(d, refs, cut)
        = {{j \in refs : Root(parent, j) = r} : r \in {Root(parent, i) : i \in refs}}
  BY DEF DuplicateGroups
<1> QED
  BY <1>1 DEF Disjoint

\* The coarsest of fractions is one of them, and none is coarser.
LEMMA CoarsestIs ==
    ASSUME NEW S, IsFiniteSet(S), S # {}, NEW s,
           \A c \in S : s[c][1] \in Nat \ {0} /\ s[c][2] \in Nat \ {0}
    PROVE  /\ \E c \in S : Coarsest({s[x] : x \in S}) = s[c]
           /\ \A c \in S : AtLeast(Coarsest({s[x] : x \in S}), s[c])
<1> DEFINE num == [c \in S |-> 0 - s[c][1]]
           den == [c \in S |-> s[c][2]]
           key == [c \in S |-> <<>>]
           R == RatioBefore(S, num, den, key)
           T == {s[x] : x \in S}
<1>1. \A c \in S : num[c] \in Int /\ den[c] \in Nat \ {0}
  OBVIOUS
<1>2. KeysOf(S, 0, key)
  BY DEF KeysOf
<1>3. StrictOn(S, R)
  <2> HIDE DEF num, den, key
  <2>1. 0 \in Nat
    OBVIOUS
  <2> QED
    BY <1>1, <1>2, <2>1, RatioOrder
<1>4. PICK c \in S : \A x \in S : <<x, c>> \notin R
  <2> HIDE DEF R
  <2> QED
    BY <1>3, StrictLeast
<1>5. \A x \in S : AtLeast(s[c], s[x])
  <2> TAKE x \in S
  <2>1. ~(num[x] * den[c] < num[c] * den[x])
    BY <1>4 DEF RatioBefore
  <2> DEFINE a == s[c][1]  b == s[c][2]  u == s[x][1]  v == s[x][2]
  <2>2. a \in Nat /\ b \in Nat /\ u \in Nat /\ v \in Nat
    OBVIOUS
  <2>3. num[x] = 0 - u /\ den[c] = b /\ num[c] = 0 - a /\ den[x] = v
    OBVIOUS
  <2>4. AtLeast(s[c], s[x]) <=> a * v >= u * b
    BY DEF AtLeast
  <2> HIDE DEF a, b, u, v, num, den
  <2>5. (0 - u) * b = 0 - (u * b) /\ (0 - a) * v = 0 - (a * v)
    BY <2>2
  <2>6. u * b \in Int /\ a * v \in Int
    BY <2>2
  <2>7. \A m, n \in Int : ~(0 - m < 0 - n) => n >= m
    OBVIOUS
  <2>8. ~(0 - (u * b) < 0 - (a * v))
    BY <2>1, <2>3, <2>5
  <2> QED
    BY <2>4, <2>6, <2>7, <2>8
<1>6. \E p \in T : \A q \in T : AtLeast(p, q)
  BY <1>5
<1>7. Coarsest(T) \in T /\ \A q \in T : AtLeast(Coarsest(T), q)
  <2> HIDE DEF T
  <2> QED
    BY <1>6 DEF Coarsest
<1> QED
  BY <1>7

LEMMA CountTyped ==
    ASSUME NEW d, NEW refs, IsFiniteSet(refs), NEW c, NEW k
    PROVE  PCount(d, refs, c, k) \in Nat
<1> DEFINE alpha == Nonconformity(d, refs \cup {c}, Smaller(k, Cardinality(refs)))
           T == {r \in refs : alpha[r] >= alpha[c]}
<1>1. Cardinality(T) \in Nat
  <2>1. IsFiniteSet(T)
    BY FS_Subset
  <2> QED
    BY <2>1, FS_CardinalityType
<1>2. PCount(d, refs, c, k) = 1 + Cardinality(T)
  BY DEF PCount, AtLeastAsUnusual
<1> HIDE DEF T
<1> QED
  BY <1>1, <1>2

\* The assets of a report are the judged candidates, ranked by their scores.
ReportAssets(d, h, board, cands, alpha, mode) ==
    LET judged == JudgedAll(d, h, board, cands, alpha)
        S == Admitted(judged)
        scores == ScoresOf(d, board, judged)
        ranks == RanksOf(d, board, judged)
    IN /\ DOMAIN judged = cands
       /\ S \in SUBSET cands /\ IsFiniteSet(S)
       /\ ScoresTyped(S, scores)
       /\ ranks \in [S -> Int]
       /\ \A a \in S : ranks[a] = 1 + Cardinality(Betters(S, scores, a))
       /\ Lists(Rank(d, h, board, cands, alpha, mode).assets, judged, S,
                BoardCategories(judged), scores, IntervalsOf(d, board, judged), ranks)

LEMMA ReportLists ==
    ASSUME NEW d, NEW h, NEW board, NEW cands, RunTyped(d, h, board, cands),
           NEW alpha, NEW mode, ~Refused(Rank(d, h, board, cands, alpha, mode))
    PROVE  ReportAssets(d, h, board, cands, alpha, mode)
<1> DEFINE judged == JudgedAll(d, h, board, cands, alpha)
           S == Admitted(judged)
           scores == ScoresOf(d, board, judged)
           ranks == RanksOf(d, board, judged)
           intervals == IntervalsOf(d, board, judged)
           report == Rank(d, h, board, cands, alpha, mode)
<1>1. /\ DOMAIN judged = cands
      /\ \A c \in cands : judged[c]
           = ScoreCandidate(d, h, board, GroupsOf(d, board), c, alpha)
  BY DEF JudgedAll
<1>2. report.assets = BuildAssets(judged, BoardCategories(judged), scores, intervals, ranks)
  <2>1. ReportShape(d, h, board, cands, alpha, mode)
    BY ReportIs
  <2> QED
    BY <2>1 DEF ReportShape
<1> HIDE DEF judged, report, intervals
<1>3. S \in SUBSET cands
  BY <1>1 DEF Admitted
<1>4. IsFiniteSet(cands) /\ cands \subseteq Int /\ IsFiniteSet(S) /\ S \subseteq Int
  BY <1>3, FS_Subset DEF RunTyped
<1>5. ScoresTyped(S, scores)
  <2>1. DOMAIN scores = S
    BY DEF ScoresOf
  <2>2. ASSUME NEW a \in S
        PROVE  scores[a][1] \in Int /\ scores[a][2] \in Nat \ {0}
    <3> DEFINE members == judged[a].partition.members
    <3>1. scores[a] = <<PCount(d, members, a, board.k), Cardinality(members) + 1>>
      BY DEF ScoresOf
    <3>2. IsFiniteSet(members)
      <4>1. JudgedBy(d, h, board, GroupsOf(d, board), a, alpha)
        BY <1>3, CandidateJudged
      <4> QED
        BY <1>1, <1>3, <4>1 DEF JudgedBy
    <3> HIDE DEF members
    <3>3. PCount(d, members, a, board.k) \in Nat /\ Cardinality(members) \in Nat
      BY <3>2, CountTyped, FS_CardinalityType
    <3> HIDE DEF scores
    <3> QED
      BY <3>1, <3>3
  <2> QED
    BY <2>1, <2>2 DEF ScoresTyped
<1>6. /\ ranks \in [S -> Int]
      /\ \A a \in S : ranks[a] = 1 + Cardinality(Betters(S, scores, a))
  <2> HIDE DEF S, scores
  <2>1. ranks = CompetitionRanks(scores)
    BY DEF RanksOf, scores
  <2>2. CompetitionRanks(scores) \in [S -> Int]
    BY <1>4, <1>5, RanksCount
  <2>3. \A a \in S : CompetitionRanks(scores)[a] = 1 + Cardinality(Betters(S, scores, a))
    BY <1>4, <1>5, RanksCount
  <2> HIDE DEF ranks
  <2> QED
    BY <2>1, <2>2, <2>3
<1>7. DOMAIN scores = S
  BY <1>5 DEF ScoresTyped
<1> HIDE DEF S, scores, ranks
<1>8. Lists(report.assets, judged, S, BoardCategories(judged), scores, intervals, ranks)
  BY <1>1, <1>2, <1>3, <1>4, <1>6, <1>7, AssetsListed
<1> QED
  BY <1>1, <1>3, <1>4, <1>5, <1>6, <1>8 
           DEF S, scores, ranks, judged, intervals, report, ReportAssets

\* What a scored asset was compared with could have shown it at the requested level, and no
\* asset is refused for its resolution at the level the report supports.
AlphaHonoured(d, h, board, alpha, report) ==
    \A n \in DOMAIN report.assets :
        LET asset == report.assets[n]
        IN /\ asset.state = "scored" => AtLeast(alpha, <<1, asset.nLocal + 1>>)
           /\ ScoreCandidate(d, h, board, GroupsOf(d, board),
                  asset.asset, report.supported).verdict \in {"none", "far_outlier"}

\* Whatever the references, the candidates, the distances and the policy.
THEOREM AlphaHolds ==
    ASSUME NEW d, NEW h, NEW board, NEW cands, RunTyped(d, h, board, cands),
           NEW alpha, alpha[1] \in Nat, alpha[2] \in Nat, NEW mode,
           ~Refused(Rank(d, h, board, cands, alpha, mode))
    PROVE  AlphaHonoured(d, h, board, alpha, Rank(d, h, board, cands, alpha, mode))
<1> DEFINE groups == GroupsOf(d, board)
           judged == JudgedAll(d, h, board, cands, alpha)
           S == Admitted(judged)
           scores == ScoresOf(d, board, judged)
           ranks == RanksOf(d, board, judged)
           intervals == IntervalsOf(d, board, judged)
           report == Rank(d, h, board, cands, alpha, mode)
           members(c) == judged[c].partition.members
           s == [c \in cands |-> judged[c].supported]
<1>1. /\ DOMAIN judged = cands
      /\ \A c \in cands : judged[c] = ScoreCandidate(d, h, board, groups, c, alpha)
  BY DEF JudgedAll
<1>2. report.supported = Coarsest({judged[c].supported : c \in cands})
  <2>1. ReportShape(d, h, board, cands, alpha, mode)
    BY ReportIs
  <2> QED
    BY <2>1 DEF ReportShape
<1>3. Lists(report.assets, judged, S, BoardCategories(judged), scores, intervals, ranks)
  <2>1. ReportAssets(d, h, board, cands, alpha, mode)
    BY ReportLists
  <2> QED
    BY <2>1 DEF ReportAssets
<1>4. S = {c \in cands : judged[c].verdict = "none"}
  BY <1>1 DEF Admitted
<1> HIDE DEF judged, report, scores, ranks, intervals, S, groups
<1>5. Disjoint(groups)
  BY GroupsDisjoint DEF groups, GroupsOf
<1>6. ASSUME NEW c \in cands
      PROVE  /\ s[c][1] \in Nat \ {0} /\ s[c][2] \in Nat \ {0}
             /\ judged[c].verdict = "none" =>
                  AtLeast(alpha, <<1, Cardinality(members(c)) + 1>>)
  <2> DEFINE M == members(c)
             floor == Floor(CategoryNEff(M, groups))
  <2>1. JudgedBy(d, h, board, groups, c, alpha)
    BY CandidateJudged
  <2>2. /\ IsFiniteSet(M) /\ judged[c].supported = floor
        /\ judged[c].verdict = "none" => AtLeast(alpha, judged[c].supported)
    BY <1>1, <2>1 DEF JudgedBy
  <2>3. s[c] = floor
    BY <2>2
  <2> HIDE DEF M
  <2>4. /\ floor[1] \in Nat \ {0} /\ floor[2] \in Nat \ {0}
        /\ \A a, b \in Nat : AtLeast(<<a, b>>, floor)
                                => AtLeast(<<a, b>>, <<1, Cardinality(M) + 1>>)
    BY <1>5, <2>2, EffectiveSize
  <2> HIDE DEF floor
  <2>5. /\ AtLeast(<<alpha[1], alpha[2]>>, floor) <=> AtLeast(alpha, floor)
        /\ AtLeast(<<alpha[1], alpha[2]>>, <<1, Cardinality(M) + 1>>)
             <=> AtLeast(alpha, <<1, Cardinality(M) + 1>>)
    BY DEF AtLeast
  <2>6. judged[c].verdict = "none" => AtLeast(alpha, <<1, Cardinality(M) + 1>>)
    BY <2>2, <2>4, <2>5
  <2> QED
    BY <2>3, <2>4, <2>6 DEF M
<1>7. ASSUME NEW n \in DOMAIN report.assets
      PROVE  /\ report.assets[n].asset \in cands
             /\ report.assets[n].state = "scored" =>
                  AtLeast(alpha, <<1, report.assets[n].nLocal + 1>>)
  <2> DEFINE c == report.assets[n].asset
  <2>1. /\ c \in cands
        /\ report.assets[n].state = "scored" <=> c \in S
        /\ c \in S => report.assets[n]
             = ScoredAsset(judged, BoardCategories(judged), scores, intervals, ranks, c)
    BY <1>1, <1>3 DEF Lists
  <2> HIDE DEF c
  <2>2. c \in S => report.assets[n].nLocal = Cardinality(members(c))
    BY <2>1 DEF ScoredAsset
  <2>3. c \in S => AtLeast(alpha, <<1, Cardinality(members(c)) + 1>>)
    BY <1>4, <1>6, <2>1
  <2> HIDE DEF members
  <2> QED
    BY <2>1, <2>2, <2>3 DEF c
<1>8. ASSUME NEW c \in cands
      PROVE  ScoreCandidate(d, h, board, groups, c, report.supported).verdict
               \in {"none", "far_outlier"}
  <2>1. \A x \in cands : s[x][1] \in Nat \ {0} /\ s[x][2] \in Nat \ {0}
    BY <1>6
  <2>2. {judged[x].supported : x \in cands} = {s[x] : x \in cands}
    OBVIOUS
  <2>3. \A x \in cands : s[x] = judged[x].supported
    OBVIOUS
  <2> HIDE DEF s
  <2>4. AtLeast(report.supported, s[c])
    <3>1. AtLeast(Coarsest({s[x] : x \in cands}), s[c])
      BY <2>1, CoarsestIs DEF RunTyped
    <3> QED
      BY <1>2, <2>2, <3>1
  <2> DEFINE again == ScoreCandidate(d, h, board, groups, c, report.supported)
  <2>5. JudgedBy(d, h, board, groups, c, alpha)
        /\ JudgedBy(d, h, board, groups, c, report.supported)
    BY CandidateJudged
  <2>6. again.supported = judged[c].supported
    BY <1>1, <2>5 DEF JudgedBy
  <2>7. AtLeast(report.supported, again.supported) => again.verdict \in {"none", "far_outlier"}
    BY <2>5 DEF JudgedBy
  <2> HIDE DEF again
  <2>8. again.verdict \in {"none", "far_outlier"}
    BY <2>3, <2>4, <2>6, <2>7
  <2> QED
    BY <2>8 DEF again
<1>9. AlphaHonoured(d, h, board, alpha, report)
  BY <1>7, <1>8 DEF AlphaHonoured, groups
<1> QED
  BY <1>9 DEF report

\* A run that ranks candidates by the module's hashes.
RankInput(cands, mode) ==
    /\ RunTyped(input.d, Hashes, input.board, cands)
    /\ input.alpha[1] \in Nat /\ input.alpha[2] \in Nat
    /\ input.report = Rank(input.d, Hashes, input.board, cands, input.alpha, mode)

\* AlphaIsHonoured, for every board, level and policy the run could be given.
THEOREM AlphasAreHonoured ==
    ASSUME NEW cands, NEW mode, input.kind = "rank" => RankInput(cands, mode)
    PROVE  AlphaIsHonoured
<1> SUFFICES ASSUME Reported
             PROVE  AlphaHonoured(input.d, Hashes, input.board, input.alpha, input.report)
  BY DEF AlphaIsHonoured, AlphaHonoured, GroupsOf
<1>1. RankInput(cands, mode) /\ ~Refused(input.report)
  BY DEF Reported
<1> QED
  BY <1>1, AlphaHolds DEF RankInput

-----------------------------------------------------------------------------
(* Exemplars and categories.                                                *)

\* A candidate's exemplars: the nearest references, as many as there are up to the count,
\* each once, in the order of their distances.
ExemplarsListed(d, refs, c, count, s) ==
    LET L == Smaller(count, Cardinality(refs))
    IN /\ DOMAIN s = 1..L /\ Len(s) = L
       /\ \A i \in 1..L : s[i] \in refs
       /\ \A i, j \in 1..L : s[i] = s[j] => i = j
       /\ \A i \in 1..(L - 1) :
             d[c][s[i]] < d[c][s[i + 1]]
               \/ (d[c][s[i]] = d[c][s[i + 1]] /\ s[i] < s[i + 1])

LEMMA ExemplarsAre ==
    ASSUME NEW refs, IsFiniteSet(refs), refs \subseteq Int, NEW d, NEW c,
           \A r \in refs : d[c][r] \in Int, NEW count \in Nat
    PROVE  ExemplarsListed(d, refs, c, count, Exemplars(d, refs, c, count))
<1> DEFINE key == [r \in refs |-> <<d[c][r], r>>]
           R == LexBefore(refs, key)
           Q == {p \in refs \X refs :
                   d[c][p[1]] < d[c][p[2]] \/ (d[c][p[1]] = d[c][p[2]] /\ p[1] < p[2])}
           order == InOrder(refs, Q)
           n == Cardinality(refs)
           L == Smaller(count, n)
           s == Exemplars(d, refs, c, count)
<1>1. n \in Nat
  BY FS_CardinalityType
<1>2. TotalOn(refs, R)
  <2>1. KeysOf(refs, 2, key)
    BY DEF KeysOf
  <2>2. \A a, b \in refs : a # b => \E i \in 1..2 : key[a][i] # key[b][i]
    <3> TAKE a, b \in refs
    <3>1. key[a][2] = a /\ key[b][2] = b
      OBVIOUS
    <3> QED
      BY <3>1
  <2>3. 2 \in Nat
    OBVIOUS
  <2> HIDE DEF key
  <2>4. TotalOn(refs, LexBefore(refs, key))
    BY <2>1, <2>2, <2>3, LexOrder
  <2> QED
    BY <2>4
<1>3. R = Q
  <2>1. \A p \in refs \X refs :
          LexLess(key[p[1]], key[p[2]])
            <=> d[c][p[1]] < d[c][p[2]] \/ (d[c][p[1]] = d[c][p[2]] /\ p[1] < p[2])
    <3> TAKE p \in refs \X refs
    <3>1. key[p[1]] = <<d[c][p[1]], p[1]>> /\ key[p[2]] = <<d[c][p[2]], p[2]>>
      OBVIOUS
    <3> QED
      BY <3>1, PairLess
  <2> QED
    BY <2>1 DEF LexBefore
<1>4. s = SubSeq(order, 1, Smaller(count, Len(order)))
  BY DEF Exemplars
<1> HIDE DEF R, Q
<1>5. /\ order \in [1..n -> refs] /\ DOMAIN order = 1..n
      /\ \A i, j \in 1..n : order[i] = order[j] => i = j
      /\ \A i, j \in 1..n : i < j <=> <<order[i], order[j]>> \in R
  BY <1>2, <1>3, InOrderSorts
<1> HIDE DEF order, s, n
<1>6. order \in Seq(refs) /\ Len(order) = n
  BY <1>1, <1>5
<1>7. L \in Nat /\ L <= n
  BY <1>1 DEF Smaller
<1>8. s = SubSeq(order, 1, L)
  BY <1>4, <1>6
<1> HIDE DEF L
<1>9. Len(s) = L /\ DOMAIN s = 1..L /\ \A i \in 1..L : s[i] = order[i]
  BY <1>1, <1>6, <1>7, <1>8
<1>10. \A i \in 1..L : i \in 1..n
  BY <1>1, <1>7
<1>11. /\ \A i \in 1..L : s[i] \in refs
       /\ \A i, j \in 1..L : s[i] = s[j] => i = j
  BY <1>5, <1>9, <1>10
<1>12. ASSUME NEW i \in 1..(L - 1)
       PROVE  d[c][s[i]] < d[c][s[i + 1]]
                \/ (d[c][s[i]] = d[c][s[i + 1]] /\ s[i] < s[i + 1])
  <2>1. i \in 1..L /\ i + 1 \in 1..L /\ i < i + 1
    BY <1>7
  <2>2. <<s[i], s[i + 1]>> \in R
    BY <1>5, <1>9, <1>10, <2>1
  <2> DEFINE x == s[i]
             y == s[i + 1]
  <2>3. x \in refs /\ y \in refs
    BY <1>11, <2>1
  <2>4. <<x, y>> \in Q
    BY <1>3, <2>2
  <2> HIDE DEF x, y
  <2>5. d[c][x] < d[c][y] \/ (d[c][x] = d[c][y] /\ x < y)
    BY <2>4 DEF Q
  <2> QED
    BY <2>5 DEF x, y
<1>13. ExemplarsListed(d, refs, c, count, s)
  BY <1>9, <1>11, <1>12 DEF ExemplarsListed, L, n
<1> QED
  BY <1>13 DEF s

\* Tuples of references in Python's order: by the first place where they differ, and a
\* tuple before the ones it begins.
TuplesBefore(P) == {p \in P \X P : TupleBefore(Ascending(p[1]), Ascending(p[2]))}

IntTuple(a) == Len(a) \in Nat /\ \A i \in 1..Len(a) : a[i] \in Int

LEMMA TupleIrreflexive ==
    ASSUME NEW a, IntTuple(a)
    PROVE  ~TupleBefore(a, a)
<1>1. Smaller(Len(a), Len(a)) = Len(a)
  BY DEF Smaller
<1>2. ~(Len(a) < Len(a)) /\ \A i \in 1..Len(a) : ~(a[i] < a[i])
  BY DEF IntTuple
<1> QED
  BY <1>1, <1>2 DEF TupleBefore

LEMMA TupleTransitive ==
    ASSUME NEW a, NEW b, NEW c, IntTuple(a), IntTuple(b), IntTuple(c),
           TupleBefore(a, b), TupleBefore(b, c)
    PROVE  TupleBefore(a, c)
<1> DEFINE m == Len(a)  n == Len(b)  k == Len(c)
<1>1. m \in Nat /\ n \in Nat /\ k \in Nat
  BY DEF IntTuple
<1>2. /\ \A i \in 1..m : a[i] \in Int
      /\ \A i \in 1..n : b[i] \in Int
      /\ \A i \in 1..k : c[i] \in Int
  BY DEF IntTuple
<1>3. \A x, y \in Nat : \A i \in Nat : i \in 1..Smaller(x, y) <=> i \in 1..x /\ i \in 1..y
  BY DEF Smaller
<1>4. \/ \E i \in Nat : /\ i \in 1..m /\ i \in 1..n
                        /\ a[i] < b[i] /\ \A j \in 1..(i - 1) : a[j] = b[j]
      \/ m < n /\ \A j \in 1..m : a[j] = b[j]
  <2>1. \A i \in 1..Smaller(m, n) : i \in Nat /\ i \in 1..m /\ i \in 1..n
    BY <1>1 DEF Smaller
  <2> QED
    BY <2>1 DEF TupleBefore
<1>5. \/ \E i \in Nat : /\ i \in 1..n /\ i \in 1..k
                        /\ b[i] < c[i] /\ \A j \in 1..(i - 1) : b[j] = c[j]
      \/ n < k /\ \A j \in 1..n : b[j] = c[j]
  <2>1. \A i \in 1..Smaller(n, k) : i \in Nat /\ i \in 1..n /\ i \in 1..k
    BY <1>1 DEF Smaller
  <2> QED
    BY <2>1 DEF TupleBefore
<1>6. ASSUME NEW i \in Nat, i \in 1..m, i \in 1..k, a[i] < c[i],
             \A j \in 1..(i - 1) : a[j] = c[j]
      PROVE  TupleBefore(a, c)
  <2>1. i \in 1..Smaller(m, k)
    BY <1>1, <1>3, <1>6
  <2> QED
    BY <1>6, <2>1 DEF TupleBefore
<1>7. ASSUME m < k, \A j \in 1..m : a[j] = c[j]
      PROVE  TupleBefore(a, c)
  BY <1>7 DEF TupleBefore
<1> HIDE DEF m, n, k
<1>8. ASSUME NEW i \in Nat, i \in 1..m, i \in 1..n, a[i] < b[i],
             \A j \in 1..(i - 1) : a[j] = b[j]
      PROVE  TupleBefore(a, c)
  <2>1. ASSUME NEW l \in Nat, l \in 1..n, l \in 1..k, b[l] < c[l],
               \A j \in 1..(l - 1) : b[j] = c[j]
        PROVE  TupleBefore(a, c)
    <3>1. CASE i < l
      <4>1. i \in 1..(l - 1) /\ i \in 1..k
        BY <1>1, <1>8, <2>1, <3>1
      <4>2. a[i] < c[i]
        BY <1>8, <2>1, <4>1
      <4>3. \A j \in 1..(i - 1) : a[j] = c[j]
        <5> TAKE j \in 1..(i - 1)
        <5>1. j \in 1..(l - 1)
          BY <3>1
        <5> QED
          BY <1>8, <2>1, <5>1
      <4> QED
        BY <1>6, <1>8, <4>1, <4>2, <4>3
    <3>2. CASE i = l
      <4>1. a[i] \in Int /\ b[i] \in Int /\ c[i] \in Int
        BY <1>2, <1>8, <2>1, <3>2
      <4>2. a[i] < c[i]
        BY <1>8, <2>1, <3>2, <4>1
      <4>3. \A j \in 1..(i - 1) : a[j] = c[j]
        BY <1>8, <2>1, <3>2
      <4> QED
        BY <1>6, <1>8, <2>1, <3>2, <4>2, <4>3
    <3>3. CASE l < i
      <4>1. l \in 1..(i - 1) /\ l \in 1..m
        BY <1>1, <1>8, <2>1, <3>3
      <4>2. a[l] < c[l]
        BY <1>8, <2>1, <4>1
      <4>3. \A j \in 1..(l - 1) : a[j] = c[j]
        <5> TAKE j \in 1..(l - 1)
        <5>1. j \in 1..(i - 1)
          BY <3>3
        <5> QED
          BY <1>8, <2>1, <5>1
      <4> QED
        BY <1>6, <2>1, <4>1, <4>2, <4>3
    <3> QED
      BY <3>1, <3>2, <3>3
  <2>2. ASSUME n < k, \A j \in 1..n : b[j] = c[j]
        PROVE  TupleBefore(a, c)
    <3>1. i \in 1..k /\ a[i] < c[i]
      BY <1>1, <1>8, <2>2
    <3>2. \A j \in 1..(i - 1) : a[j] = c[j]
      <4> TAKE j \in 1..(i - 1)
      <4>1. j \in 1..n
        BY <1>1, <1>8
      <4> QED
        BY <1>8, <2>2, <4>1
    <3> QED
      BY <1>6, <1>8, <3>1, <3>2
  <2> QED
    BY <1>5, <2>1, <2>2
<1>9. ASSUME m < n, \A j \in 1..m : a[j] = b[j]
      PROVE  TupleBefore(a, c)
  <2>1. ASSUME NEW l \in Nat, l \in 1..n, l \in 1..k, b[l] < c[l],
               \A j \in 1..(l - 1) : b[j] = c[j]
        PROVE  TupleBefore(a, c)
    <3>1. CASE l \in 1..m
      <4>1. a[l] < c[l]
        BY <1>9, <2>1, <3>1
      <4>2. \A j \in 1..(l - 1) : a[j] = c[j]
        <5> TAKE j \in 1..(l - 1)
        <5>1. j \in 1..m
          BY <1>1, <3>1
        <5> QED
          BY <1>9, <2>1, <5>1
      <4> QED
        BY <1>6, <2>1, <3>1, <4>1, <4>2
    <3>2. CASE l \notin 1..m
      <4>1. m < l /\ m < k
        BY <1>1, <2>1, <3>2
      <4>2. \A j \in 1..m : a[j] = c[j]
        <5> TAKE j \in 1..m
        <5>1. j \in 1..(l - 1)
          BY <1>1, <4>1
        <5> QED
          BY <1>9, <2>1, <5>1
      <4> QED
        BY <1>7, <4>1, <4>2
    <3> QED
      BY <3>1, <3>2
  <2>2. ASSUME n < k, \A j \in 1..n : b[j] = c[j]
        PROVE  TupleBefore(a, c)
    <3>1. m < k
      BY <1>1, <1>9, <2>2
    <3>2. \A j \in 1..m : a[j] = c[j]
      <4> TAKE j \in 1..m
      <4>1. j \in 1..n
        BY <1>1, <1>9
      <4> QED
        BY <1>9, <2>2, <4>1
    <3> QED
      BY <1>7, <3>1, <3>2
  <2> QED
    BY <1>5, <2>1, <2>2
<1> QED
  BY <1>4, <1>8, <1>9

LEMMA TupleTotal ==
    ASSUME NEW a, NEW b, IntTuple(a), IntTuple(b),
           Len(a) # Len(b) \/ \E i \in 1..Len(a) : a[i] # b[i]
    PROVE  TupleBefore(a, b) \/ TupleBefore(b, a)
<1> DEFINE m == Len(a)  n == Len(b)
           D == {i \in Nat : i \in 1..m /\ i \in 1..n /\ a[i] # b[i]}
<1>1. m \in Nat /\ n \in Nat
  BY DEF IntTuple
<1>2. /\ \A i \in 1..m : a[i] \in Int
      /\ \A i \in 1..n : b[i] \in Int
  BY DEF IntTuple
<1>3. CASE D # {}
  <2>1. PICK i \in D : \A j \in D : i <= j
    <3>1. D \in SUBSET Nat
      OBVIOUS
    <3> HIDE DEF D
    <3> QED
      BY <1>3, <3>1, LeastNatural
  <2>2. i \in 1..m /\ i \in 1..n /\ a[i] # b[i]
    OBVIOUS
  <2>3. \A j \in 1..(i - 1) : a[j] = b[j]
    <3> TAKE j \in 1..(i - 1)
    <3>1. j \in 1..m /\ j \in 1..n /\ ~(i <= j) /\ j \in Nat
      BY <1>1, <2>2
    <3>2. j \notin D
      BY <2>1, <3>1
    <3> QED
      BY <3>1, <3>2
  <2>4. i \in 1..Smaller(m, n) /\ i \in 1..Smaller(n, m)
    BY <1>1, <2>2 DEF Smaller
  <2>5. a[i] < b[i] \/ b[i] < a[i]
    BY <1>2, <2>2
  <2> QED
    BY <2>3, <2>4, <2>5 DEF TupleBefore
<1>4. CASE D = {}
  <2>1. \A i \in 1..m : i \in 1..n => a[i] = b[i]
    BY <1>1, <1>4
  <2>2. CASE m < n
    <3>1. \A j \in 1..m : j \in 1..n
      BY <1>1, <2>2
    <3> QED
      BY <2>1, <2>2, <3>1 DEF TupleBefore
  <2>3. CASE n < m
    <3>1. \A j \in 1..n : j \in 1..m
      BY <1>1, <2>3
    <3> QED
      BY <2>1, <2>3, <3>1 DEF TupleBefore
  <2>4. m # n
    <3> SUFFICES ASSUME m = n
                 PROVE  FALSE
      OBVIOUS
    <3> QED
      BY <2>1
  <2> QED
    BY <1>1, <2>2, <2>3, <2>4
<1> QED
  BY <1>3, <1>4

\* The categories of a board: sets of references, sorted by their members.
LEMMA CategoriesSorted ==
    ASSUME NEW refs, IsFiniteSet(refs), refs \subseteq Int, NEW P \in SUBSET (SUBSET refs)
    PROVE  IsFiniteSet(P) /\ TotalOn(P, TuplesBefore(P))
<1>1. IsFiniteSet(P)
  BY FS_SUBSET, FS_Subset
<1>2. ASSUME NEW A \in P
      PROVE  /\ IntTuple(Ascending(A)) /\ Len(Ascending(A)) = Cardinality(A)
             /\ \A i \in 1..Cardinality(A) : Ascending(A)[i] \in A
             /\ \A x \in A : \E i \in 1..Cardinality(A) : Ascending(A)[i] = x
  <2> DEFINE a == Ascending(A)
             n == Cardinality(A)
  <2>1. IsFiniteSet(A) /\ A \subseteq Int
    BY FS_Subset
  <2>2. n \in Nat
    BY <2>1, FS_CardinalityType
  <2>3. a \in [1..n -> A] /\ \A x \in A : \E i \in 1..n : a[i] = x
    BY <2>1, AscendingSorts
  <2> HIDE DEF a, n
  <2>4. Len(a) = n
    <3>1. a \in Seq(A)
      BY <2>2, <2>3
    <3> QED
      BY <2>2, <2>3, <3>1
  <2>5. \A i \in 1..n : a[i] \in A
    BY <2>3
  <2>6. IntTuple(a)
    BY <2>1, <2>2, <2>4, <2>5 DEF IntTuple
  <2> QED
    BY <2>3, <2>4, <2>5, <2>6 DEF a, n
<1>3. \A A \in P : ~TupleBefore(Ascending(A), Ascending(A))
  BY <1>2, TupleIrreflexive
<1>4. ASSUME NEW A \in P, NEW B \in P, NEW C \in P,
             TupleBefore(Ascending(A), Ascending(B)), TupleBefore(Ascending(B), Ascending(C))
      PROVE  TupleBefore(Ascending(A), Ascending(C))
  BY <1>2, <1>4, TupleTransitive
<1>5. ASSUME NEW A \in P, NEW B \in P, A # B
      PROVE  TupleBefore(Ascending(A), Ascending(B)) \/ TupleBefore(Ascending(B), Ascending(A))
  <2> DEFINE a == Ascending(A)  b == Ascending(B)  m == Cardinality(A)  n == Cardinality(B)
  <2>1. /\ IntTuple(a) /\ Len(a) = m /\ \A i \in 1..m : a[i] \in A
        /\ \A x \in A : \E i \in 1..m : a[i] = x
        /\ IntTuple(b) /\ Len(b) = n /\ \A i \in 1..n : b[i] \in B
        /\ \A x \in B : \E i \in 1..n : b[i] = x
    BY <1>2
  <2> HIDE DEF a, b, m, n
  <2>2. m # n \/ \E i \in 1..m : a[i] # b[i]
    <3> SUFFICES ASSUME m = n, \A i \in 1..m : a[i] = b[i]
                 PROVE  FALSE
      OBVIOUS
    <3>1. \A x \in A : x \in B
      BY <2>1
    <3>2. \A x \in B : x \in A
      BY <2>1
    <3> QED
      BY <1>5, <3>1, <3>2
  <2>3. Len(a) # Len(b) \/ \E i \in 1..Len(a) : a[i] # b[i]
    BY <2>1, <2>2
  <2>4. TupleBefore(a, b) \/ TupleBefore(b, a)
    BY <2>1, <2>3, TupleTotal
  <2> QED
    BY <2>4 DEF a, b
<1>6. \A A, B \in P : <<A, B>> \in TuplesBefore(P) <=> TupleBefore(Ascending(A), Ascending(B))
  BY DEF TuplesBefore
<1>7. TotalOn(P, TuplesBefore(P))
  <2>1. \A A \in P : <<A, A>> \notin TuplesBefore(P)
    BY <1>3, <1>6
  <2>2. \A A, B, C \in P : <<A, B>> \in TuplesBefore(P) /\ <<B, C>> \in TuplesBefore(P)
                             => <<A, C>> \in TuplesBefore(P)
    BY <1>4, <1>6
  <2>3. \A A, B \in P : A = B \/ <<A, B>> \in TuplesBefore(P) \/ <<B, A>> \in TuplesBefore(P)
    BY <1>5, <1>6
  <2> QED
    BY <2>1, <2>2, <2>3 DEF TotalOn, StrictOn
<1> QED
  BY <1>1, <1>7

\* _board_categories names the category of every candidate.
LEMMA CategoryNamed ==
    ASSUME NEW refs, IsFiniteSet(refs), refs \subseteq Int, NEW judged,
           \A c \in DOMAIN judged : /\ Divides(judged[c].partition, refs)
                                    /\ judged[c].partition.members # {},
           NEW c \in DOMAIN judged
    PROVE  LET categories == BoardCategories(judged)
               n == CHOOSE n \in DOMAIN categories : categories[n] = judged[c].partition.members
           IN n \in DOMAIN categories /\ categories[n] = judged[c].partition.members
<1> DEFINE all(x) == {judged[x].partition.all[n] : n \in DOMAIN judged[x].partition.all}
           P == Seen(judged)
           categories == BoardCategories(judged)
           M == judged[c].partition.members
<1>1. P = (UNION {all(x) : x \in DOMAIN judged}) \ {{}}
  BY DEF Seen
<1>2. P \in SUBSET (SUBSET refs)
  BY <1>1 DEF Divides
<1>3. M \in P
  <2>1. /\ M # {}
        /\ judged[c].partition.category \in DOMAIN judged[c].partition.all
        /\ M = judged[c].partition.all[judged[c].partition.category]
    BY DEF Divides
  <2>2. M \in all(c)
    BY <2>1
  <2> HIDE DEF M, all
  <2> QED
    BY <1>1, <2>1, <2>2 DEF M
<1> HIDE DEF P, M
<1>4. categories = InOrder(P, TuplesBefore(P))
  BY DEF BoardCategories, TuplesBefore, P
<1>5. IsFiniteSet(P) /\ TotalOn(P, TuplesBefore(P))
  BY <1>2, CategoriesSorted
<1>6. /\ DOMAIN categories = 1..Cardinality(P)
      /\ \A x \in P : \E i \in 1..Cardinality(P) : categories[i] = x
  BY <1>4, <1>5, InOrderSorts
<1> HIDE DEF categories
<1>7. \E n \in DOMAIN categories : categories[n] = M
  BY <1>3, <1>6
<1> QED
  BY <1>7 DEF categories, M

-----------------------------------------------------------------------------
\* The policy of a fitted board: k is its cap, or one less than the references.
Fitted(board) == board.k = Smaller(board.kCap, Cardinality(board.refs) - 1)

LEMMA ReportWrites ==
    ASSUME NEW d, NEW h, NEW board, NEW cands, RunTyped(d, h, board, cands), Fitted(board),
           NEW alpha, NEW mode, ~Refused(Rank(d, h, board, cands, alpha, mode)),
           NEW evidence, IsInjective(evidence), ToSet(evidence) = cands
    PROVE  Writes(d, Rank(d, h, board, cands, alpha, mode), evidence)
<1> DEFINE judged == JudgedAll(d, h, board, cands, alpha)
           S == Admitted(judged)
           scores == ScoresOf(d, board, judged)
           ranks == RanksOf(d, board, judged)
           intervals == IntervalsOf(d, board, judged)
           report == Rank(d, h, board, cands, alpha, mode)
           refs == board.refs
           N == Cardinality(refs)
<1>1. /\ DOMAIN judged = cands
      /\ \A c \in cands : judged[c]
           = ScoreCandidate(d, h, board, GroupsOf(d, board), c, alpha)
  BY DEF JudgedAll
<1>2. /\ report.references = Ascending(refs)
      /\ report.k = board.k /\ report.kCap = board.kCap /\ report.level = board.level
  <2>1. ReportShape(d, h, board, cands, alpha, mode)
    BY ReportIs
  <2> QED
    BY <2>1 DEF ReportShape
<1>3. Lists(report.assets, judged, S, BoardCategories(judged), scores, intervals, ranks)
  <2>1. ReportAssets(d, h, board, cands, alpha, mode)
    BY ReportLists
  <2> QED
    BY <2>1 DEF ReportAssets
<1>4. \A c \in cands : judged[c].exemplars = Exemplars(d, refs, c, 3)
  <2> TAKE c \in cands
  <2>1. JudgedBy(d, h, board, GroupsOf(d, board), c, alpha)
    BY CandidateJudged
  <2> QED
    BY <1>1, <2>1 DEF JudgedBy
<1>5. \A c \in S : intervals[c].level = board.level
  BY DEF IntervalsOf
<1> HIDE DEF judged, S, scores, ranks, intervals, report
<1>6. /\ IsFiniteSet(refs) /\ refs \subseteq Int
      /\ \A c \in cands : \A r \in refs : d[c][r] \in Int
  BY DEF RunTyped
<1>7. /\ DOMAIN report.references = 1..N /\ Len(report.references) = N
      /\ \A i, j \in 1..N : report.references[i] = report.references[j] => i = j
      /\ ToSet(report.references) = refs
  <2> DEFINE f == Ascending(refs)
  <2>1. /\ f \in [1..N -> refs] /\ DOMAIN f = 1..N
        /\ \A i, j \in 1..N : f[i] = f[j] => i = j
        /\ \A x \in refs : \E i \in 1..N : f[i] = x
    BY <1>6, AscendingSorts
  <2>2. N \in Nat
    BY <1>6, FS_CardinalityType
  <2> HIDE DEF f, N, refs
  <2>3. f \in Seq(refs) /\ Len(f) = N
    BY <2>1, <2>2
  <2>4. ToSet(f) = refs
    BY <2>1 DEF ToSet
  <2> QED
    BY <1>2, <2>1, <2>3, <2>4 DEF f
<1>8. ASSUME NEW n \in DOMAIN report.assets
      PROVE  LET asset == report.assets[n]
             IN /\ asset.asset \in cands
                /\ asset.exemplars = Exemplars(d, refs, asset.asset, 3)
                /\ IF asset.state = "scored"
                     THEN asset.style = asset.score /\ asset.interval.level = report.level
                     ELSE asset.style = <<>>
  <2> DEFINE c == report.assets[n].asset
             categories == BoardCategories(judged)
  <2>1. /\ c \in cands
        /\ report.assets[n].state = "scored" <=> c \in S
        /\ c \in S => report.assets[n]
             = ScoredAsset(judged, categories, scores, intervals, ranks, c)
        /\ c \notin S => report.assets[n] = HeldAsset(judged, categories, c)
    BY <1>1, <1>3 DEF Lists
  <2> HIDE DEF c, categories
  <2>2. CASE c \in S
    <3>1. /\ report.assets[n].style = scores[c] /\ report.assets[n].score = scores[c]
          /\ report.assets[n].interval = intervals[c]
          /\ report.assets[n].exemplars = judged[c].exemplars
      BY <2>1, <2>2 DEF ScoredAsset
    <3> QED
      BY <1>2, <1>4, <1>5, <2>1, <2>2, <3>1 DEF c
  <2>3. CASE c \notin S
    <3>1. /\ report.assets[n].style = <<>>
          /\ report.assets[n].exemplars = judged[c].exemplars
      BY <2>1, <2>3 DEF HeldAsset
    <3> QED
      BY <1>4, <2>1, <2>3, <3>1 DEF c
  <2> QED
    BY <2>2, <2>3
<1>9. ASSUME NEW n \in DOMAIN report.assets
      PROVE  /\ IsInjective(report.assets[n].exemplars)
             /\ ExemplarsOrdered(d, report, report.assets[n])
  <2> DEFINE c == report.assets[n].asset
             s == report.assets[n].exemplars
             L == Smaller(3, N)
  <2>1. c \in cands /\ s = Exemplars(d, refs, c, 3)
    BY <1>8
  <2>2. ExemplarsListed(d, refs, c, 3, s)
    <3> HIDE DEF c, s, refs
    <3>1. 3 \in Nat
      OBVIOUS
    <3>2. \A r \in refs : d[c][r] \in Int
      BY <1>6, <2>1
    <3> QED
      BY <1>6, <2>1, <3>1, <3>2, ExemplarsAre
  <2> HIDE DEF c, s, refs
  <2>3. /\ DOMAIN s = 1..L /\ Len(s) = L
        /\ \A i \in 1..L : s[i] \in refs
        /\ \A i, j \in 1..L : s[i] = s[j] => i = j
        /\ \A i \in 1..(L - 1) :
             d[c][s[i]] < d[c][s[i + 1]]
               \/ (d[c][s[i]] = d[c][s[i + 1]] /\ s[i] < s[i + 1])
    BY <2>2 DEF ExemplarsListed
  <2> HIDE DEF L
  <2>4. IsInjective(s)
    BY <2>3 DEF IsInjective
  <2>5. /\ Len(s) = Smaller(3, Len(report.references))
        /\ ToSet(s) \subseteq ToSet(report.references)
    BY <1>7, <2>3 DEF L, ToSet
  <2>6. ExemplarsOrdered(d, report, report.assets[n])
    BY <2>3, <2>5 DEF ExemplarsOrdered, c, s
  <2> QED
    BY <2>4, <2>6 DEF s
<1>10. UniqueExemplars(report)
  BY <1>9 DEF UniqueExemplars
<1>11. IsInjective([n \in DOMAIN report.assets |-> report.assets[n].asset])
  BY <1>3 DEF Lists, IsInjective
<1>12. ToSet(evidence) = {report.assets[n].asset : n \in DOMAIN report.assets}
  BY <1>1, <1>3, <1>8 DEF Lists
<1>13. IsInjective(report.references)
  BY <1>7 DEF IsInjective
<1>14. report.k = Smaller(report.kCap, Len(report.references) - 1)
  BY <1>2, <1>7 DEF Fitted
<1>15. CrossFields(d, report)
  BY <1>8, <1>9, <1>10, <1>11, <1>13, <1>14 DEF CrossFields
<1>16. Writes(d, report, evidence)
  BY <1>12, <1>15 DEF Writes
<1> QED
  BY <1>16 DEF report

\* The position of a candidate's category among those of the board.
CategoryId(judged, c) ==
    LET categories == BoardCategories(judged)
    IN CHOOSE n \in DOMAIN categories : categories[n] = judged[c].partition.members

\* _tie_pairs: only candidates that were scored against the same references.
LEMMA PairsShareMembers ==
    ASSUME NEW judged, NEW S \in SUBSET DOMAIN judged, IsFiniteSet(S), S \subseteq Int,
           NEW scores, NEW ranks \in [S -> Int], NEW mode,
           NEW p \in TiePairs(judged, scores, ranks, mode)
    PROVE  /\ p[1] \in S /\ p[2] \in S
           /\ judged[p[1]].partition.members = judged[p[2]].partition.members
<1> DEFINE order == ByRank(ranks)
           n == Cardinality(S)
<1>1. PICK q \in Pairs(DOMAIN order) :
        /\ judged[order[q[1]]].partition.members = judged[order[q[2]]].partition.members
        /\ p = <<Smaller(order[q[1]], order[q[2]]), Max({order[q[1]], order[q[2]]})>>
  BY DEF TiePairs
<1>2. DOMAIN order = 1..n /\ \A i \in 1..n : order[i] \in S
  <2>1. order \in [1..n -> S] /\ DOMAIN order = 1..n
    BY RanksInOrder
  <2> HIDE DEF order, n
  <2> QED
    BY <2>1
<1> DEFINE x == order[q[1]]
           y == order[q[2]]
<1> HIDE DEF order, n
<1>3. q[1] \in 1..n /\ q[2] \in 1..n
  BY <1>1, <1>2 DEF Pairs
<1>4. x \in S /\ y \in S
  BY <1>2, <1>3
<1>5. p[1] = Smaller(x, y) /\ p[2] = Max({x, y})
  BY <1>1
<1>6. judged[x].partition.members = judged[y].partition.members
  BY <1>1
<1> HIDE DEF x, y
<1>7. x \in Int /\ y \in Int
  BY <1>4
<1>8. p[1] \in {x, y}
  BY <1>5 DEF Smaller
<1>9. p[2] \in {x, y}
  BY <1>5, <1>7, TwoExtremes
<1> QED
  BY <1>4, <1>6, <1>8, <1>9

-----------------------------------------------------------------------------
\* The positions of the better scores in the list of assets.
BetterPlaces(assets, n) ==
    {m \in {i \in DOMAIN assets : assets[i].state = "scored"} :
        Greater(assets[m].score, assets[n].score)}

LEMMA PlacesCount ==
    ASSUME NEW assets, NEW judged, NEW S \in SUBSET DOMAIN judged, IsFiniteSet(S),
           NEW categories, NEW scores, NEW intervals, NEW ranks,
           Lists(assets, judged, S, categories, scores, intervals, ranks),
           NEW n \in DOMAIN assets, assets[n].state = "scored"
    PROVE  Cardinality(BetterPlaces(assets, n))
             = Cardinality(Betters(S, scores, assets[n].asset))
<1> DEFINE B == Betters(S, scores, assets[n].asset)
           T == BetterPlaces(assets, n)
           at == [m \in T |-> assets[m].asset]
<1>1. \A m \in DOMAIN assets :
        /\ assets[m].state = "scored" <=> assets[m].asset \in S
        /\ assets[m].asset \in S => assets[m].score = scores[assets[m].asset]
  <2> TAKE m \in DOMAIN assets
  <2>1. /\ assets[m].state = "scored" <=> assets[m].asset \in S
        /\ assets[m].asset \in S =>
             assets[m] = ScoredAsset(judged, categories, scores, intervals, ranks,
                                     assets[m].asset)
    BY DEF Lists
  <2> QED
    BY <2>1 DEF ScoredAsset
<1>2. \A m \in DOMAIN assets : m \in T <=> assets[m].asset \in B
  BY <1>1 DEF BetterPlaces, Betters
<1>3. T \subseteq DOMAIN assets /\ B \subseteq S
  BY DEF BetterPlaces, Betters
<1>4. \A c \in S : \E m \in DOMAIN assets : assets[m].asset = c
  BY DEF Lists
<1>5. \A i, j \in DOMAIN assets : assets[i].asset = assets[j].asset => i = j
  BY DEF Lists
<1> HIDE DEF B, T
<1>6. at \in Bijection(T, B)
  <2>1. at \in [T -> B]
    BY <1>2, <1>3
  <2>2. \A i, j \in T : at[i] = at[j] => i = j
    BY <1>3, <1>5
  <2>3. \A y \in B : \E i \in T : at[i] = y
    BY <1>2, <1>3, <1>4
  <2> HIDE DEF at
  <2>4. at \in Injection(T, B)
    BY <2>1, <2>2, Fun_IsInj
  <2>5. at \in Surjection(T, B)
    BY <2>1, <2>3, Fun_IsSurj
  <2> QED
    BY <2>4, <2>5 DEF Bijection
<1>7. IsFiniteSet(B)
  BY <1>3, FS_Subset
<1> HIDE DEF at
<1>8. Inverse(at, T, B) \in Bijection(B, T)
  BY <1>6, Fun_BijInverse
<1>9. ExistsBijection(B, T)
  BY <1>8 DEF ExistsBijection
<1>10. Cardinality(T) = Cardinality(B)
  BY <1>7, <1>9, FS_Bijection
<1> QED
  BY <1>10 DEF B, T

-----------------------------------------------------------------------------
\* A report that says of every asset what the run computed.
Coheres(d, report, evidence) ==
    LET scored == {n \in DOMAIN report.assets : report.assets[n].state = "scored"}
        category(a) == (CHOOSE x \in ToSet(report.assets) : x.asset = a).category
    IN /\ Writes(d, report, evidence)
       /\ \A n \in scored :
             /\ report.assets[n].rank = 1 + Cardinality({m \in scored :
                    Greater(report.assets[m].score, report.assets[n].score)})
             /\ Cardinality(report.categories[report.assets[n].category])
                    = report.assets[n].nLocal
       /\ \A p \in report.compared : category(p[1]) = category(p[2])

\* Whatever the references, the candidates, the distances and the policy of a
\* fitted board, the report of _cmd_rank obeys the writer's rules, its ranks count
\* the better scores, and its categories are those the scores were counted in.
THEOREM ReportsCohere ==
    ASSUME NEW d, NEW h, NEW board, NEW cands, RunTyped(d, h, board, cands), Fitted(board),
           NEW alpha, NEW mode, ~Refused(Rank(d, h, board, cands, alpha, mode)),
           NEW evidence, IsInjective(evidence), ToSet(evidence) = cands
    PROVE  Coheres(d, Rank(d, h, board, cands, alpha, mode), evidence)
<1> DEFINE judged == JudgedAll(d, h, board, cands, alpha)
           S == Admitted(judged)
           scores == ScoresOf(d, board, judged)
           ranks == RanksOf(d, board, judged)
           intervals == IntervalsOf(d, board, judged)
           categories == BoardCategories(judged)
           report == Rank(d, h, board, cands, alpha, mode)
           assets == report.assets
           scored == {n \in DOMAIN assets : assets[n].state = "scored"}
           category(a) == (CHOOSE x \in ToSet(assets) : x.asset = a).category
<1>1. Writes(d, report, evidence)
  BY ReportWrites
<1>2. /\ DOMAIN judged = cands
      /\ S \in SUBSET cands /\ IsFiniteSet(S)
      /\ ranks \in [S -> Int]
      /\ \A a \in S : ranks[a] = 1 + Cardinality(Betters(S, scores, a))
      /\ Lists(assets, judged, S, categories, scores, intervals, ranks)
  <2>1. ReportAssets(d, h, board, cands, alpha, mode)
    BY ReportLists
  <2> QED
    BY <2>1 DEF ReportAssets
<1>3. /\ report.categories = categories
      /\ report.compared = TiePairs(judged, scores, ranks, mode)
      /\ \A c \in cands : judged[c].partition.members # {}
  <2>1. ReportShape(d, h, board, cands, alpha, mode)
    BY ReportIs
  <2> QED
    BY <2>1 DEF ReportShape
<1>4. \A c \in cands : Divides(judged[c].partition, board.refs)
  <2> TAKE c \in cands
  <2>1. JudgedBy(d, h, board, GroupsOf(d, board), c, alpha)
    BY CandidateJudged
  <2> QED
    BY <2>1 DEF JudgedBy, JudgedAll
<1>5. /\ IsFiniteSet(board.refs) /\ board.refs \subseteq Int /\ cands \subseteq Int
  BY DEF RunTyped
<1>6. ASSUME NEW c \in S
      PROVE  categories[CategoryId(judged, c)] = judged[c].partition.members
  <2>1. c \in DOMAIN judged
    BY <1>2
  <2>2. \A x \in DOMAIN judged : /\ Divides(judged[x].partition, board.refs)
                                 /\ judged[x].partition.members # {}
    BY <1>2, <1>3, <1>4
  <2> HIDE DEF judged, S
  <2>3. CategoryId(judged, c) \in DOMAIN BoardCategories(judged)
        /\ BoardCategories(judged)[CategoryId(judged, c)] = judged[c].partition.members
    BY <1>5, <2>1, <2>2, CategoryNamed DEF CategoryId
  <2> QED
    BY <2>3
<1> HIDE DEF judged, S, scores, ranks, intervals, categories, report
<1>7. ASSUME NEW n \in scored
      PROVE  LET c == assets[n].asset
             IN /\ c \in S
                /\ assets[n].rank = ranks[c]
                /\ assets[n].nLocal = Cardinality(judged[c].partition.members)
                /\ assets[n].category = CategoryId(judged, c)
  <2> DEFINE c == assets[n].asset
  <2>1. /\ c \in S
        /\ assets[n] = ScoredAsset(judged, categories, scores, intervals, ranks, c)
    BY <1>2 DEF Lists
  <2> HIDE DEF c
  <2>2. /\ assets[n].rank = ranks[c]
        /\ assets[n].nLocal = Cardinality(judged[c].partition.members)
        /\ assets[n].category = CategoryId(judged, c)
    BY <2>1 DEF ScoredAsset, CategoryId, categories
  <2> QED
    BY <2>1, <2>2 DEF c
<1>8. ASSUME NEW n \in scored
      PROVE  /\ assets[n].rank = 1 + Cardinality({m \in scored :
                    Greater(assets[m].score, assets[n].score)})
             /\ Cardinality(report.categories[assets[n].category]) = assets[n].nLocal
  <2>1. assets[n].asset \in S
    BY <1>7
  <2>2. Cardinality(BetterPlaces(assets, n))
          = Cardinality(Betters(S, scores, assets[n].asset))
    <3> HIDE DEF assets
    <3>1. n \in DOMAIN assets /\ assets[n].state = "scored"
      OBVIOUS
    <3>2. S \in SUBSET DOMAIN judged /\ IsFiniteSet(S)
      BY <1>2
    <3>3. Lists(assets, judged, S, categories, scores, intervals, ranks)
      BY <1>2
    <3> HIDE DEF scored
    <3> QED
      BY <3>1, <3>2, <3>3, PlacesCount
  <2>3. BetterPlaces(assets, n) = {m \in scored : Greater(assets[m].score, assets[n].score)}
    BY DEF BetterPlaces
  <2>4. assets[n].rank = 1 + Cardinality(Betters(S, scores, assets[n].asset))
    BY <1>2, <1>7, <2>1
  <2>5. categories[CategoryId(judged, assets[n].asset)]
          = judged[assets[n].asset].partition.members
    BY <1>6, <2>1
  <2> QED
    BY <1>3, <1>7, <2>2, <2>3, <2>4, <2>5
<1>9. ASSUME NEW a \in S
      PROVE  category(a) = CategoryId(judged, a)
  <2> DEFINE x == CHOOSE x \in ToSet(assets) : x.asset = a
  <2>1. \E y \in ToSet(assets) : y.asset = a
    BY <1>2 DEF Lists, ToSet
  <2>2. x \in ToSet(assets) /\ x.asset = a
    BY <2>1
  <2> HIDE DEF x
  <2>3. PICK n \in DOMAIN assets : x = assets[n]
    BY <2>2 DEF ToSet
  <2>4. n \in scored
    BY <1>2, <2>2, <2>3 DEF Lists
  <2>5. assets[n].category = CategoryId(judged, a)
    BY <1>7, <2>2, <2>3, <2>4
  <2> QED
    BY <2>3, <2>5 DEF x
<1>10. ASSUME NEW p \in report.compared
       PROVE  category(p[1]) = category(p[2])
  <2>1. /\ p[1] \in S /\ p[2] \in S
        /\ judged[p[1]].partition.members = judged[p[2]].partition.members
    <3>1. /\ S \in SUBSET DOMAIN judged /\ IsFiniteSet(S) /\ S \subseteq Int
          /\ ranks \in [S -> Int] /\ p \in TiePairs(judged, scores, ranks, mode)
      BY <1>2, <1>3, <1>5
    <3> QED
      BY <3>1, PairsShareMembers
  <2>2. CategoryId(judged, p[1]) = CategoryId(judged, p[2])
    BY <2>1 DEF CategoryId
  <2> HIDE DEF category
  <2> QED
    BY <1>9, <2>1, <2>2
<1>11. Coheres(d, report, evidence)
  BY <1>1, <1>8, <1>10 DEF Coheres
<1> QED
  BY <1>11 DEF report

\* ReportIsCoherent, for every fitted board, level and policy.
THEOREM ReportIsCoherentAlways ==
    ASSUME NEW mode,
           input.kind = "rank" => RankInput({4, 5}, mode) /\ Fitted(input.board)
    PROVE  ReportIsCoherent
<1> SUFFICES ASSUME Reported
             PROVE  Coheres(input.d, input.report, <<4, 5>>)
  BY DEF ReportIsCoherent, Coheres
<1>1. /\ RankInput({4, 5}, mode) /\ Fitted(input.board) /\ ~Refused(input.report)
  BY DEF Reported
<1>2. IsInjective(<<4, 5>>) /\ ToSet(<<4, 5>>) = {4, 5}
  <2>1. DOMAIN <<4, 5>> = {1, 2} /\ <<4, 5>>[1] = 4 /\ <<4, 5>>[2] = 5
    OBVIOUS
  <2> DEFINE e == <<4, 5>>
  <2> HIDE DEF e
  <2>2. DOMAIN e = {1, 2} /\ e[1] = 4 /\ e[2] = 5
    BY <2>1 DEF e
  <2>3. IsInjective(e)
    BY <2>2 DEF IsInjective
  <2>4. ToSet(e) = {4, 5}
    BY <2>2 DEF ToSet
  <2> QED
    BY <2>3, <2>4 DEF e
<1> QED
  BY <1>1, <1>2, ReportsCohere DEF RankInput

-----------------------------------------------------------------------------
(* Duplicate groups: union-find computes the connected components.          *)

\* A node points at itself or at a smaller one.
Forests(refs) == {p \in [refs -> refs] : \A i \in refs : p[i] <= i}

LEMMA UpperBound ==
    ASSUME NEW S \in SUBSET Nat, IsFiniteSet(S)
    PROVE  \E N \in Nat : \A y \in S : y < N
<1>1. CASE S = {}
  <2>1. 0 \in Nat /\ \A y \in S : y < 0
    BY <1>1
  <2> QED
    BY <2>1
<1>2. CASE S # {}
  <2> DEFINE value == [y \in S |-> 0 - y]
  <2>1. \A y \in S : value[y] \in Int
    OBVIOUS
  <2>2. PICK m \in S : \A y \in S : value[m] <= value[y]
    <3> HIDE DEF value
    <3> QED
      BY <1>2, <2>1, LeastValue
  <2>3. m + 1 \in Nat /\ \A y \in S : y < m + 1
    BY <2>2
  <2> QED
    BY <2>3
<1> QED
  BY <1>1, <1>2

\* Root follows the pointers.
LEMMA RootFollows ==
    ASSUME NEW refs \in SUBSET Nat, IsFiniteSet(refs), NEW p \in Forests(refs)
    PROVE  \A x \in refs : Root(p, x) = IF p[x] = x THEN x ELSE Root(p, p[x])
<1> DEFINE Step(f) == [y \in DOMAIN p |-> IF p[y] = y THEN y ELSE f[p[y]]]
           f == CHOOSE f : f = Step(f)
           Solves(g, n) == \A y \in refs : y < n => g[y] = IF p[y] = y THEN y ELSE g[p[y]]
           Q == {n \in Nat : \E g \in [refs -> refs] : Solves(g, n)}
<1>1. /\ DOMAIN p = refs
      /\ \A y \in refs : y \in Nat /\ p[y] \in refs /\ p[y] \in Nat /\ p[y] <= y
  BY DEF Forests
<1>2. 0 \in Q
  <2>1. [y \in refs |-> y] \in [refs -> refs]
    OBVIOUS
  <2>2. Solves([y \in refs |-> y], 0)
    OBVIOUS
  <2> HIDE DEF Solves
  <2> QED
    BY <2>1, <2>2
<1>3. ASSUME NEW n \in Nat, n \in Q
      PROVE  n + 1 \in Q
  <2>1. PICK g \in [refs -> refs] : Solves(g, n)
    BY <1>3
  <2> DEFINE e == [y \in refs |-> IF y = n THEN IF p[y] = y THEN y ELSE g[p[y]] ELSE g[y]]
  <2>2. e \in [refs -> refs]
    BY <1>1
  <2>3. Solves(e, n + 1)
    <3> SUFFICES ASSUME NEW y \in refs, y < n + 1
                 PROVE  e[y] = IF p[y] = y THEN y ELSE e[p[y]]
      OBVIOUS
    <3>1. p[y] # y => p[y] # n
      BY <1>1
    <3>2. p[y] # y => e[p[y]] = g[p[y]]
      BY <1>1, <3>1
    <3>3. CASE y = n
      BY <3>2, <3>3
    <3>4. CASE y # n
      <4>1. y < n
        BY <1>1, <3>4
      <4> QED
        BY <2>1, <3>2, <3>4, <4>1
    <3> QED
      BY <3>3, <3>4
  <2> HIDE DEF e, Solves
  <2> QED
    BY <2>2, <2>3
<1>4. \A n \in Nat : n \in Q
  <2> HIDE DEF Q
  <2> QED
    BY <1>2, <1>3, NatInduct
<1>5. \E g : g = Step(g)
  <2>1. PICK N \in Nat : \A y \in refs : y < N
    BY UpperBound
  <2>2. PICK g \in [refs -> refs] : Solves(g, N)
    BY <1>4
  <2>3. g = Step(g)
    BY <1>1, <2>1, <2>2
  <2> QED
    BY <2>3
<1>6. f = Step(f)
  BY <1>5
<1>7. \A x \in refs : Root(p, x) = f[x]
  BY DEF Root
<1> HIDE DEF f
<1> QED
  BY <1>1, <1>6, <1>7

LEMMA RootIs ==
    ASSUME NEW refs \in SUBSET Nat, IsFiniteSet(refs), NEW p \in Forests(refs), NEW x \in refs
    PROVE  Root(p, x) \in refs /\ Root(p, x) <= x /\ p[Root(p, x)] = Root(p, x)
<1> DEFINE Good(y) == Root(p, y) \in refs /\ Root(p, y) <= y /\ p[Root(p, y)] = Root(p, y)
           T == {y \in refs : ~Good(y)}
<1>1. \A y \in refs : y \in Nat /\ p[y] \in refs /\ p[y] \in Nat /\ p[y] <= y
  BY DEF Forests
<1>2. ASSUME T # {}
      PROVE  FALSE
  <2>1. PICK y \in T : \A z \in T : y <= z
    <3>1. T \in SUBSET Nat
      BY <1>1
    <3> HIDE DEF T
    <3> QED
      BY <1>2, <3>1, LeastNatural
  <2>2. Root(p, y) = IF p[y] = y THEN y ELSE Root(p, p[y])
    BY RootFollows
  <2>3. p[y] # y => Good(p[y])
    <3> SUFFICES ASSUME p[y] # y, p[y] \in T
                 PROVE  FALSE
      BY <1>1
    <3>1. y <= p[y]
      BY <2>1
    <3> QED
      BY <1>1, <3>1
  <2>4. CASE p[y] = y
    <3>1. Root(p, y) = y
      BY <2>2, <2>4
    <3> QED
      BY <1>1, <2>1, <2>4, <3>1
  <2>5. CASE p[y] # y
    <3>1. Root(p, y) = Root(p, p[y])
      BY <2>2, <2>5
    <3>2. Root(p, y) \in refs /\ Root(p, y) <= p[y] /\ p[Root(p, y)] = Root(p, y)
      BY <2>3, <2>5, <3>1
    <3>3. y \in Nat /\ p[y] \in Nat /\ p[y] <= y /\ Root(p, y) \in Nat
      BY <1>1, <2>1, <3>2
    <3>4. Root(p, y) <= y
      BY <3>2, <3>3
    <3> QED
      BY <2>1, <3>2, <3>4
  <2> QED
    BY <2>4, <2>5
<1> QED
  BY <1>2

\* Link makes the smaller of the two roots the root of both trees.
Rooted(refs, p, q, a, b) ==
    \E low, high \in refs :
        /\ {low, high} = {Root(p, a), Root(p, b)}
        /\ \A x \in refs : Root(q, x) = IF Root(p, x) = high THEN low ELSE Root(p, x)

LEMMA LinkRoots ==
    ASSUME NEW refs \in SUBSET Nat, IsFiniteSet(refs), NEW p \in Forests(refs),
           NEW a \in refs, NEW b \in refs
    PROVE  /\ Link(p, a, b) \in Forests(refs)
           /\ Rooted(refs, p, Link(p, a, b), a, b)
<1> DEFINE ra == Root(p, a)
           rb == Root(p, b)
           low == IF ra <= rb THEN ra ELSE rb
           high == IF ra <= rb THEN rb ELSE ra
           q == [p EXCEPT ![high] = low]
<1>1. /\ ra \in refs /\ rb \in refs /\ p[ra] = ra /\ p[rb] = rb
      /\ ra \in Nat /\ rb \in Nat
  BY RootIs
<1>2. Link(p, a, b) = q
  <2>1. Min({ra, rb}) = low /\ Max({ra, rb}) = high
    <3> HIDE DEF ra, rb
    <3>1. ra \in Int /\ rb \in Int
      BY <1>1
    <3> QED
      BY <3>1, TwoExtremes
  <2> HIDE DEF low, high
  <2> QED
    BY <2>1 DEF Link
<1> HIDE DEF ra, rb
<1>3. /\ low \in refs /\ high \in refs /\ low \in Nat /\ high \in Nat /\ low <= high
      /\ {low, high} = {ra, rb} /\ p[low] = low /\ p[high] = high
  BY <1>1
<1> HIDE DEF low, high
<1>4. p \in [refs -> refs] /\ \A y \in refs : y \in Nat /\ p[y] \in refs /\ p[y] <= y
  BY DEF Forests
<1>5. q \in [refs -> refs] /\ \A y \in refs : q[y] = IF y = high THEN low ELSE p[y]
  BY <1>3, <1>4
<1> HIDE DEF q
<1>6. q \in Forests(refs)
  BY <1>3, <1>4, <1>5 DEF Forests
<1> DEFINE Good(x) == Root(q, x) = IF Root(p, x) = high THEN low ELSE Root(p, x)
           T == {x \in refs : ~Good(x)}
<1>7. ASSUME T # {}
      PROVE  FALSE
  <2>1. PICK x \in T : \A z \in T : x <= z
    <3>1. T \in SUBSET Nat
      BY <1>4
    <3> HIDE DEF T
    <3> QED
      BY <1>7, <3>1, LeastNatural
  <2>2. /\ Root(q, x) = IF q[x] = x THEN x ELSE Root(q, q[x])
        /\ Root(p, x) = IF p[x] = x THEN x ELSE Root(p, p[x])
    BY <1>6, RootFollows
  <2>3. CASE x = high
    <3>1. Root(p, x) = high
      BY <1>3, <2>2, <2>3
    <3>2. Root(q, low) = low
      <4>1. q[low] = low
        BY <1>3, <1>5
      <4> QED
        BY <1>3, <1>6, <4>1, RootFollows
    <3>3. Root(q, x) = low
      BY <1>3, <1>5, <2>2, <2>3, <3>2
    <3> QED
      BY <3>1, <3>3
  <2>4. CASE x # high
    <3>1. q[x] = p[x]
      BY <1>5, <2>4
    <3>2. CASE p[x] = x
      BY <2>2, <2>4, <3>1, <3>2
    <3>3. CASE p[x] # x
      <4>1. Good(p[x])
        <5> SUFFICES ASSUME p[x] \in T
                     PROVE  FALSE
          BY <1>4
        <5>1. x <= p[x]
          BY <2>1
        <5>2. p[x] <= x /\ x \in Nat /\ p[x] \in Nat
          BY <1>4
        <5> QED
          BY <3>3, <5>1, <5>2
      <4> QED
        BY <2>2, <3>1, <3>3, <4>1
    <3> QED
      BY <3>2, <3>3
  <2> QED
    BY <2>3, <2>4
<1>8. \A x \in refs : Root(q, x) = IF Root(p, x) = high THEN low ELSE Root(p, x)
  BY <1>7
<1>9. Rooted(refs, p, q, a, b)
  BY <1>3, <1>8 DEF Rooted, ra, rb
<1> QED
  BY <1>2, <1>6, <1>9

-----------------------------------------------------------------------------
\* Two linked sets joined by a close pair are linked.
LEMMA LinkedUnion ==
    ASSUME NEW S, NEW T, NEW d, NEW cut, Linked(d, S, cut), Linked(d, T, cut),
           NEW a \in S, NEW b \in T, d[a][b] <= cut, d[b][a] = d[a][b]
    PROVE  Linked(d, S \cup T, cut)
<1> SUFFICES ASSUME NEW A \in SUBSET (S \cup T), A # {}, A # S \cup T
             PROVE  \E i \in A, j \in (S \cup T) \ A : d[i][j] <= cut
  BY DEF Linked
<1>1. CASE A \cap S # {} /\ A \cap S # S
  <2> DEFINE B == A \cap S
  <2>1. B \in (SUBSET S) \ {{}, S}
    BY <1>1
  <2> HIDE DEF B
  <2>2. PICK i \in B, j \in S \ B : d[i][j] <= cut
    BY <2>1 DEF Linked
  <2>3. i \in A /\ j \in (S \cup T) \ A
    BY <2>2 DEF B
  <2> QED
    BY <2>2, <2>3
<1>2. CASE A \cap T # {} /\ A \cap T # T
  <2> DEFINE B == A \cap T
  <2>1. B \in (SUBSET T) \ {{}, T}
    BY <1>2
  <2> HIDE DEF B
  <2>2. PICK i \in B, j \in T \ B : d[i][j] <= cut
    BY <2>1 DEF Linked
  <2>3. i \in A /\ j \in (S \cup T) \ A
    BY <2>2 DEF B
  <2> QED
    BY <2>2, <2>3
<1>3. CASE A \cap S = {} /\ A \cap T = T
  <2>1. b \in A /\ a \in (S \cup T) \ A
    BY <1>3
  <2> QED
    BY <2>1
<1>4. CASE A \cap S = S /\ A \cap T = {}
  <2>1. a \in A /\ b \in (S \cup T) \ A
    BY <1>4
  <2> QED
    BY <2>1
<1>5. ~(A \cap S = {} /\ A \cap T = {}) /\ ~(A \cap S = S /\ A \cap T = T)
  OBVIOUS
<1> QED
  BY <1>1, <1>2, <1>3, <1>4, <1>5

Tree(refs, p, r) == {j \in refs : Root(p, j) = r}

\* The trees are linked sets, and the first pairs lie within them.
Joins(d, refs, cut, close, p, n) ==
    /\ p \in Forests(refs)
    /\ \A i \in 1..n : Root(p, close[i][1]) = Root(p, close[i][2])
    /\ \A r \in refs : Linked(d, Tree(refs, p, r), cut)

LEMMA FirstTrees ==
    ASSUME NEW refs \in SUBSET Nat, IsFiniteSet(refs), NEW d, NEW cut, NEW close
    PROVE  Joins(d, refs, cut, close, [i \in refs |-> i], 0)
<1> DEFINE p == [i \in refs |-> i]
<1>1. p \in Forests(refs)
  BY DEF Forests
<1>2. \A r \in refs : Root(p, r) = r
  <2> TAKE r \in refs
  <2>1. p[r] = r
    OBVIOUS
  <2> HIDE DEF p
  <2> QED
    BY <1>1, <2>1, RootFollows
<1> HIDE DEF p
<1>3. \A r \in refs : Tree(refs, p, r) = {r}
  BY <1>2 DEF Tree
<1>4. \A r \in refs : Linked(d, Tree(refs, p, r), cut)
  <2> TAKE r \in refs
  <2>1. (SUBSET {r}) \ {{}, {r}} = {}
    OBVIOUS
  <2>2. Linked(d, {r}, cut)
    BY <2>1 DEF Linked
  <2> QED
    BY <1>3, <2>2
<1> QED
  BY <1>1, <1>4 DEF Joins, p

LEMMA NextTrees ==
    ASSUME NEW refs \in SUBSET Nat, IsFiniteSet(refs), NEW d, NEW cut, NEW close,
           \A i, j \in refs : d[i][j] = d[j][i],
           NEW n \in Nat, NEW p, Joins(d, refs, cut, close, p, n),
           NEW a \in refs, NEW b \in refs, close[n + 1][1] = a, close[n + 1][2] = b,
           d[a][b] <= cut, \A i \in 1..n : close[i][1] \in refs /\ close[i][2] \in refs
    PROVE  Joins(d, refs, cut, close, Link(p, a, b), n + 1)
<1> DEFINE q == Link(p, a, b)
<1>1. p \in Forests(refs)
  BY DEF Joins
<1>2. q \in Forests(refs)
  BY <1>1, LinkRoots
<1>3. PICK low, high \in refs :
        /\ {low, high} = {Root(p, a), Root(p, b)}
        /\ \A x \in refs : Root(q, x) = IF Root(p, x) = high THEN low ELSE Root(p, x)
  <2>1. Rooted(refs, p, q, a, b)
    BY <1>1, LinkRoots
  <2> HIDE DEF q
  <2> QED
    BY <2>1 DEF Rooted
<1> HIDE DEF q
<1>4. ASSUME NEW i \in 1..(n + 1)
      PROVE  Root(q, close[i][1]) = Root(q, close[i][2])
  <2>1. CASE i = n + 1
    <3>1. Root(q, a) = low /\ Root(q, b) = low
      BY <1>3
    <3> QED
      BY <2>1, <3>1
  <2>2. CASE i # n + 1
    <3>1. i \in 1..n
      BY <2>2
    <3>2. Root(p, close[i][1]) = Root(p, close[i][2])
      BY <3>1 DEF Joins
    <3> QED
      BY <1>3, <3>1, <3>2
  <2> QED
    BY <2>1, <2>2
<1>5. \A r \in refs : Linked(d, Tree(refs, p, r), cut)
  BY DEF Joins
<1>6. ASSUME NEW r \in refs
      PROVE  Linked(d, Tree(refs, q, r), cut)
  <2>1. CASE r # low /\ r # high
    <3>1. Tree(refs, q, r) = Tree(refs, p, r)
      BY <1>3, <2>1 DEF Tree
    <3> QED
      BY <1>5, <3>1
  <2>2. CASE r = low
    <3>1. Tree(refs, q, r) = Tree(refs, p, low) \cup Tree(refs, p, high)
      BY <1>3, <2>2 DEF Tree
    <3>2. a \in Tree(refs, p, Root(p, a)) /\ b \in Tree(refs, p, Root(p, b))
      BY DEF Tree
    <3>3. Root(p, a) \in refs /\ Root(p, b) \in refs
      BY <1>3
    <3> DEFINE S == Tree(refs, p, Root(p, a))  T == Tree(refs, p, Root(p, b))
    <3>4. Linked(d, S \cup T, cut)
      <4>1. Linked(d, S, cut) /\ Linked(d, T, cut) /\ a \in S /\ b \in T
        BY <1>5, <3>2, <3>3
      <4>2. d[a][b] <= cut /\ d[b][a] = d[a][b]
        OBVIOUS
      <4> HIDE DEF S, T
      <4> QED
        BY <4>1, <4>2, LinkedUnion
    <3>5. Tree(refs, p, low) \cup Tree(refs, p, high)
            = Tree(refs, p, Root(p, a)) \cup Tree(refs, p, Root(p, b))
      BY <1>3
    <3> QED
      BY <3>1, <3>4, <3>5
  <2>3. CASE r = high /\ low # high
    <3>1. Tree(refs, q, r) = {}
      BY <1>3, <2>3 DEF Tree
    <3>2. (SUBSET {}) \ {{}, {}} = {}
      OBVIOUS
    <3>3. Linked(d, {}, cut)
      BY <3>2 DEF Linked
    <3> QED
      BY <3>1, <3>3
  <2> QED
    BY <2>1, <2>2, <2>3
<1>7. Joins(d, refs, cut, close, q, n + 1)
  BY <1>2, <1>4, <1>6 DEF Joins
<1> QED
  BY <1>7 DEF q

\* The pairs within the cut, in row order.
ClosePairs(d, refs, cut) == {p \in Pairs(refs) : d[p[1]][p[2]] <= cut}

RowOrder(near) == {pq \in near \X near : LexLess(pq[1], pq[2])}

LEMMA CloseInOrder ==
    ASSUME NEW refs \in SUBSET Nat, IsFiniteSet(refs), NEW d, NEW cut
    PROVE  LET near == ClosePairs(d, refs, cut)
               close == InOrder(near, RowOrder(near))
               N == Cardinality(near)
           IN /\ N \in Nat
              /\ \A n \in 1..N : /\ close[n][1] \in refs /\ close[n][2] \in refs
                                 /\ d[close[n][1]][close[n][2]] <= cut
              /\ \A i, j \in refs : i < j /\ d[i][j] <= cut =>
                    \E n \in 1..N : close[n][1] = i /\ close[n][2] = j
<1> DEFINE near == ClosePairs(d, refs, cut)
           close == InOrder(near, RowOrder(near))
           N == Cardinality(near)
           key == [p \in near |-> p]
<1>1. IsFiniteSet(near)
  <2>1. IsFiniteSet(refs \X refs)
    BY FS_Product
  <2> QED
    BY <2>1, FS_Subset DEF ClosePairs, Pairs
<1>2. \A p \in near : /\ p[1] \in refs /\ p[2] \in refs /\ p = <<p[1], p[2]>>
                      /\ d[p[1]][p[2]] <= cut
  BY DEF ClosePairs, Pairs
<1>3. \A i, j \in refs : i < j /\ d[i][j] <= cut => <<i, j>> \in near
  BY DEF ClosePairs, Pairs
<1> HIDE DEF near
<1>4. KeysOf(near, 2, key)
  <2>1. \A p \in near : /\ DOMAIN p = 1..2
                        /\ \A i \in 1..2 : p[i] \in Int
    <3> TAKE p \in near
    <3>1. p = <<p[1], p[2]>> /\ p[1] \in Int /\ p[2] \in Int
      BY <1>2
    <3>2. DOMAIN <<p[1], p[2]>> = 1..2
      OBVIOUS
    <3> QED
      BY <3>1, <3>2
  <2>2. \A p \in near : key[p] = p
    OBVIOUS
  <2> HIDE DEF key
  <2> QED
    BY <2>1, <2>2 DEF KeysOf
<1>5. \A x, y \in near : x # y => \E i \in 1..2 : key[x][i] # key[y][i]
  <2> SUFFICES ASSUME NEW x \in near, NEW y \in near, x # y
               PROVE  x[1] # y[1] \/ x[2] # y[2]
    OBVIOUS
  <2> QED
    BY <1>2
<1>6. RowOrder(near) = LexBefore(near, key)
  BY DEF RowOrder, LexBefore
<1>7. TotalOn(near, RowOrder(near))
  <2> HIDE DEF key
  <2>1. 2 \in Nat
    OBVIOUS
  <2> QED
    BY <1>4, <1>5, <1>6, <2>1, LexOrder
<1>8. /\ close \in [1..N -> near] /\ \A x \in near : \E n \in 1..N : close[n] = x
  BY <1>1, <1>7, InOrderSorts
<1>9. N \in Nat
  BY <1>1, FS_CardinalityType
<1> HIDE DEF close, N
<1>10. \A n \in 1..N : /\ close[n][1] \in refs /\ close[n][2] \in refs
                       /\ d[close[n][1]][close[n][2]] <= cut
  BY <1>2, <1>8
<1>11. ASSUME NEW i \in refs, NEW j \in refs, i < j, d[i][j] <= cut
       PROVE  \E n \in 1..N : close[n][1] = i /\ close[n][2] = j
  <2>1. <<i, j>> \in near
    BY <1>3, <1>11
  <2>2. PICK n \in 1..N : close[n] = <<i, j>>
    BY <1>8, <2>1
  <2> QED
    BY <2>2
<1> QED
  BY <1>9, <1>10, <1>11 DEF near, close, N

\* The forest that duplicate_groups ends with.
GroupForest(d, refs, cut, p) ==
    /\ p \in Forests(refs)
    /\ DuplicateGroups(d, refs, cut)
         = {Tree(refs, p, r) : r \in {Root(p, i) : i \in refs}}
    /\ \A i, j \in refs : i < j /\ d[i][j] <= cut => Root(p, i) = Root(p, j)
    /\ \A r \in refs : Linked(d, Tree(refs, p, r), cut)

LEMMA GroupsFromForest ==
    ASSUME NEW refs \in SUBSET Nat, IsFiniteSet(refs), NEW d, NEW cut,
           \A i, j \in refs : d[i][j] = d[j][i]
    PROVE  \E p : GroupForest(d, refs, cut, p)
<1> DEFINE near == ClosePairs(d, refs, cut)
           close == InOrder(near, RowOrder(near))
           N == Cardinality(near)
           id == [i \in refs |-> i]
           Step(f) == [n \in 0..N |->
                         IF n = 0 THEN id ELSE Link(f[n - 1], close[n][1], close[n][2])]
           f == CHOOSE f : f = Step(f)
           V == Forests(refs)
           step == [n \in 1..N |-> [x \in V |-> Link(x, close[n][1], close[n][2])]]
           p == f[N]
<1>1. /\ N \in Nat
      /\ \A n \in 1..N : /\ close[n][1] \in refs /\ close[n][2] \in refs
                         /\ d[close[n][1]][close[n][2]] <= cut
      /\ \A i, j \in refs : i < j /\ d[i][j] <= cut =>
            \E n \in 1..N : close[n][1] = i /\ close[n][2] = j
  BY CloseInOrder
<1>2. DuplicateGroups(d, refs, cut)
        = {{j \in refs : Root(p, j) = r} : r \in {Root(p, i) : i \in refs}}
  BY DEF DuplicateGroups, ClosePairs, RowOrder
<1> HIDE DEF near, close, N
<1>3. id \in V
  BY DEF Forests
<1>4. step \in [1..N -> [V -> V]]
  <2>1. \A n \in 1..N : \A x \in V : Link(x, close[n][1], close[n][2]) \in V
    <3> TAKE n \in 1..N
    <3> TAKE x \in V
    <3> HIDE DEF V
    <3> QED
      BY <1>1, LinkRoots DEF V
  <2> HIDE DEF V
  <2> QED
    BY <2>1
<1> HIDE DEF id
<1>5. \E g : g = Step(g)
  <2>1. PICK g \in [0..N -> V] : g = [n \in 0..N |-> IF n = 0 THEN id ELSE step[n][g[n - 1]]]
    <3> HIDE DEF step, V
    <3> QED
      BY <1>1, <1>3, <1>4, StepsExist
  <2>2. \A n \in 0..N : n # 0 => n \in 1..N /\ g[n - 1] \in V
    <3> HIDE DEF step, V
    <3>1. \A n \in 0..N : n # 0 => n \in 1..N /\ n - 1 \in 0..N
      BY <1>1
    <3> QED
      BY <2>1, <3>1
  <2> HIDE DEF V
  <2>3. \A n \in 0..N : n # 0 => step[n][g[n - 1]] = Link(g[n - 1], close[n][1], close[n][2])
    BY <2>2
  <2> HIDE DEF step
  <2>4. g = Step(g)
    BY <2>1, <2>3
  <2> QED
    BY <2>4
<1>6. f = Step(f)
  BY <1>5
<1> HIDE DEF f, step
<1>7. f[0] = id /\ \A n \in 1..N : f[n] = Link(f[n - 1], close[n][1], close[n][2])
  <2>1. \A n \in 0..N : f[n] = IF n = 0 THEN id ELSE Link(f[n - 1], close[n][1], close[n][2])
    BY <1>6
  <2> QED
    BY <1>1, <2>1
<1> DEFINE Q == {n \in Nat : n <= N => Joins(d, refs, cut, close, f[n], n)}
<1>8. 0 \in Q
  <2>1. Joins(d, refs, cut, close, [i \in refs |-> i], 0)
    BY FirstTrees
  <2> QED
    BY <1>7, <2>1 DEF id
<1>9. ASSUME NEW n \in Nat, n \in Q
      PROVE  n + 1 \in Q
  <2> SUFFICES ASSUME n + 1 <= N
               PROVE  Joins(d, refs, cut, close, f[n + 1], n + 1)
    OBVIOUS
  <2>1. n + 1 \in 1..N /\ (n + 1) - 1 = n /\ n <= N /\ \A i \in 1..n : i \in 1..N
    BY <1>1
  <2>2. Joins(d, refs, cut, close, f[n], n)
    BY <1>9, <2>1
  <2>3. f[n + 1] = Link(f[n], close[n + 1][1], close[n + 1][2])
    BY <1>7, <2>1
  <2>4. /\ close[n + 1][1] \in refs /\ close[n + 1][2] \in refs
        /\ d[close[n + 1][1]][close[n + 1][2]] <= cut
        /\ \A i \in 1..n : close[i][1] \in refs /\ close[i][2] \in refs
    BY <1>1, <2>1
  <2> DEFINE a == close[n + 1][1]
             b == close[n + 1][2]
             q == f[n]
  <2>5. a \in refs /\ b \in refs /\ d[a][b] <= cut
    BY <2>4
  <2>6. close[n + 1][1] = a /\ close[n + 1][2] = b
    OBVIOUS
  <2>7. Joins(d, refs, cut, close, q, n)
    BY <2>2
  <2>8. f[n + 1] = Link(q, a, b)
    BY <2>3
  <2> HIDE DEF Q, V, a, b, q
  <2>9. Joins(d, refs, cut, close, Link(q, a, b), n + 1)
    BY <2>4, <2>5, <2>6, <2>7, NextTrees
  <2> QED
    BY <2>8, <2>9
<1>10. Joins(d, refs, cut, close, p, N)
  <2>1. N \in Q
    <3> HIDE DEF Q
    <3> QED
      BY <1>1, <1>8, <1>9, NatInduct
  <2> QED
    BY <1>1, <2>1
<1> HIDE DEF p
<1>11. p \in Forests(refs) /\ \A r \in refs : Linked(d, Tree(refs, p, r), cut)
  BY <1>10 DEF Joins
<1>12. \A i, j \in refs : i < j /\ d[i][j] <= cut => Root(p, i) = Root(p, j)
  BY <1>1, <1>10 DEF Joins
<1>13. DuplicateGroups(d, refs, cut) = {Tree(refs, p, r) : r \in {Root(p, i) : i \in refs}}
  BY <1>2 DEF Tree
<1>14. GroupForest(d, refs, cut, p)
  BY <1>11, <1>12, <1>13 DEF GroupForest
<1> QED
  BY <1>14

\* duplicate_groups, in whatever order it meets the close pairs: the groups
\* partition the references, each is connected, and no close pair is split.
Components(d, refs, cut, groups) ==
    /\ UNION groups = refs
    /\ \A g \in groups : Linked(d, g, cut)
    /\ \A f, g \in groups : f # g => f \cap g = {} /\ \A a \in f, b \in g : d[a][b] > cut

\* The duplicate groups of any finite set of rows are its connected components.
THEOREM GroupsAreComponents ==
    ASSUME NEW refs \in SUBSET Nat, IsFiniteSet(refs), NEW d, NEW cut \in Int,
           \A i, j \in refs : d[i][j] \in Int /\ d[i][j] = d[j][i]
    PROVE  Components(d, refs, cut, DuplicateGroups(d, refs, cut))
<1>1. PICK p : GroupForest(d, refs, cut, p)
  BY GroupsFromForest
<1> DEFINE groups == DuplicateGroups(d, refs, cut)
<1>2. /\ p \in Forests(refs)
      /\ groups = {Tree(refs, p, r) : r \in {Root(p, i) : i \in refs}}
      /\ \A i, j \in refs : i < j /\ d[i][j] <= cut => Root(p, i) = Root(p, j)
      /\ \A r \in refs : Linked(d, Tree(refs, p, r), cut)
  BY <1>1 DEF GroupForest
<1> HIDE DEF groups
<1>3. \A i \in refs : Root(p, i) \in refs
  BY <1>2, RootIs
<1>4. \A g \in groups : \E r \in refs : g = Tree(refs, p, r)
  BY <1>2, <1>3
<1>5. \A r \in refs : \A j \in Tree(refs, p, r) : j \in refs /\ Root(p, j) = r
  BY DEF Tree
<1>6. UNION groups = refs
  <2>1. ASSUME NEW i \in refs
        PROVE  i \in UNION groups
    <3>1. i \in Tree(refs, p, Root(p, i))
      BY DEF Tree
    <3> QED
      BY <1>2, <3>1
  <2>2. \A i \in UNION groups : i \in refs
    BY <1>4, <1>5
  <2> QED
    BY <2>1, <2>2
<1>7. \A g \in groups : Linked(d, g, cut)
  BY <1>2, <1>4
<1>8. ASSUME NEW f \in groups, NEW g \in groups, f # g
      PROVE  f \cap g = {} /\ \A a \in f, b \in g : d[a][b] > cut
  <2>1. PICK q, r \in refs : f = Tree(refs, p, q) /\ g = Tree(refs, p, r)
    BY <1>4
  <2>2. q # r
    BY <1>8, <2>1
  <2>3. f \cap g = {}
    BY <1>5, <2>1, <2>2
  <2>4. ASSUME NEW a \in f, NEW b \in g
        PROVE  d[a][b] > cut
    <3>1. a \in refs /\ b \in refs /\ Root(p, a) = q /\ Root(p, b) = r
      BY <1>5, <2>1
    <3>2. a \in Nat /\ b \in Nat /\ a # b /\ d[a][b] \in Int /\ d[b][a] = d[a][b]
      BY <2>2, <3>1
    <3>3. ~(d[a][b] <= cut)
      <4> SUFFICES ASSUME d[a][b] <= cut
                   PROVE  FALSE
        OBVIOUS
      <4>1. CASE a < b
        BY <1>2, <2>2, <3>1, <4>1
      <4>2. CASE b < a
        BY <1>2, <2>2, <3>1, <3>2, <4>2
      <4> QED
        BY <3>2, <4>1, <4>2
    <3> QED
      BY <3>2, <3>3
  <2> QED
    BY <2>3, <2>4
<1> QED
  BY <1>6, <1>7, <1>8 DEF Components, groups

-----------------------------------------------------------------------------
(* Renaming the rows: sums, sizes and hashes of renamed clusters.           *)

Img(s, A) == {s[i] : i \in A}

LEMMA ImageSize ==
    ASSUME NEW A, IsFiniteSet(A), NEW s, \A i, j \in A : s[i] = s[j] => i = j
    PROVE  IsFiniteSet(Img(s, A)) /\ Cardinality(Img(s, A)) = Cardinality(A)
<1> DEFINE T == Img(s, A)
           g == [i \in A |-> s[i]]
<1>1. g \in [A -> T] /\ \A y \in T : \E i \in A : g[i] = y
  BY DEF Img
<1>2. \A i, j \in A : g[i] = g[j] => i = j
  OBVIOUS
<1> HIDE DEF g, T
<1>3. g \in Injection(A, T) /\ g \in Surjection(A, T)
  BY <1>1, <1>2, Fun_IsInj, Fun_IsSurj
<1>4. ExistsBijection(A, T)
  BY <1>3 DEF Bijection, ExistsBijection
<1>5. IsFiniteSet(T) /\ Cardinality(T) = Cardinality(A)
  BY <1>4, FS_Bijection
<1> QED
  BY <1>5 DEF T

\* A sum does not change when its entries are renamed.
LEMMA SumsRenamed ==
    ASSUME NEW S, IsFiniteSet(S), NEW g, \A x, y \in S : g[x] = g[y] => x = y,
           NEW row, NEW row2, \A x \in S : row[x] \in Int /\ row2[g[x]] = row[x]
    PROVE  RowSum(row2, Img(g, S)) = RowSum(row, S)
<1> DEFINE Q == {U \in SUBSET S : RowSum(row2, Img(g, U)) = RowSum(row, U)}
<1>1. ASSUME NEW T \in SUBSET S, \A U \in SUBSET T : U # T => U \in Q
      PROVE  T \in Q
  <2>1. CASE T = {}
    <3>1. Img(g, T) = {}
      BY <2>1 DEF Img
    <3> QED
      BY <2>1, <3>1, RowSumEmpty
  <2>2. CASE T # {}
    <3>1. PICK x \in T : TRUE
      BY <2>2
    <3> DEFINE U == T \ {x}
               V == Img(g, U)
    <3>2. U \in Q
      BY <1>1
    <3>3. Img(g, T) = V \cup {g[x]} /\ g[x] \notin V
      BY DEF Img
    <3>4. IsFiniteSet(T) /\ IsFiniteSet(U)
      BY FS_Subset
    <3>5. IsFiniteSet(V)
      <4>1. \A i, j \in U : g[i] = g[j] => i = j
        OBVIOUS
      <4> HIDE DEF U
      <4> QED
        BY <3>4, <4>1, ImageSize
    <3>6. \A y \in V \cup {g[x]} : row2[y] \in Int
      BY DEF Img
    <3> HIDE DEF V
    <3>7. RowSum(row2, V \cup {g[x]}) = row2[g[x]] + RowSum(row2, V)
      BY <3>3, <3>5, <3>6, RowSumAdd
    <3>8. RowSum(row, T) = row[x] + RowSum(row, U)
      BY <3>1, <3>4, RowSumSplit
    <3> QED
      BY <3>2, <3>3, <3>7, <3>8 DEF V
  <2> QED
    BY <2>1, <2>2
<1>2. \A T \in SUBSET S : T \in Q
  <2> HIDE DEF Q
  <2> QED
    BY <1>1, SubsetInduction
<1> QED
  BY <1>2

\* One bag under two numberings of its rows.
Renames(s, bag, bag2, d, d2, h, h2) ==
    /\ s \in [bag -> bag2]
    /\ \A i, j \in bag : s[i] = s[j] => i = j
    /\ \A y \in bag2 : \E i \in bag : s[i] = y
    /\ \A i, j \in bag : d2[s[i]][s[j]] = d[i][j]
    /\ \A i \in bag : h2[s[i]] = h[i]

LEMMA LinkRenamed ==
    ASSUME NEW bag, IsFiniteSet(bag), NEW bag2, NEW d, Distances(d, bag), NEW d2, NEW h, NEW h2,
           NEW s, Renames(s, bag, bag2, d, d2, h, h2),
           NEW A \in SUBSET bag, NEW B \in SUBSET bag
    PROVE  LinkSum(d2, Img(s, A), Img(s, B)) = LinkSum(d, A, B)
<1> DEFINE S == A \X B
           g == [p \in S |-> <<s[p[1]], s[p[2]]>>]
           C == Img(s, A)
           D == Img(s, B)
           row == LinkRow(d, A, B)
           row2 == LinkRow(d2, C, D)
<1>1. IsFiniteSet(A) /\ IsFiniteSet(B) /\ IsFiniteSet(S)
  BY FS_Subset, FS_Product
<1>2. \A i, j \in bag : s[i] = s[j] => i = j
  BY DEF Renames
<1>3. IsFiniteSet(C) /\ IsFiniteSet(D)
  BY <1>1, <1>2, ImageSize
<1>4. \A p, q \in S : g[p] = g[q] => p = q
  <2> SUFFICES ASSUME NEW p \in S, NEW q \in S, g[p] = g[q]
               PROVE  p = q
    OBVIOUS
  <2>1. /\ p = <<p[1], p[2]>> /\ q = <<q[1], q[2]>>
        /\ p[1] \in bag /\ p[2] \in bag /\ q[1] \in bag /\ q[2] \in bag
    OBVIOUS
  <2>2. s[p[1]] = s[q[1]] /\ s[p[2]] = s[q[2]]
    OBVIOUS
  <2> QED
    BY <1>2, <2>1, <2>2
<1>5. Img(g, S) = C \X D
  <2>1. \A p \in S : g[p] \in C \X D
    BY DEF Img
  <2>2. ASSUME NEW y \in C, NEW z \in D
        PROVE  <<y, z>> \in Img(g, S)
    <3>1. PICK i \in A, j \in B : y = s[i] /\ z = s[j]
      BY DEF Img
    <3>2. <<i, j>> \in S /\ g[<<i, j>>] = <<y, z>>
      BY <3>1
    <3> QED
      BY <3>2 DEF Img
  <2>3. Img(g, S) \subseteq C \X D
    <3> HIDE DEF g, C, D
    <3> QED
      BY <2>1 DEF Img
  <2>4. C \X D \subseteq Img(g, S)
    <3>1. \A y \in C, z \in D : <<y, z>> \in Img(g, S)
      BY <2>2
    <3> HIDE DEF g, C, D, S
    <3> QED
      BY <3>1
  <2> QED
    BY <2>3, <2>4
<1>6. \A p \in S : row[p] \in Int /\ row2[g[p]] = row[p]
  <2> SUFFICES ASSUME NEW i \in A, NEW j \in B
               PROVE  row[<<i, j>>] \in Int /\ row2[g[<<i, j>>]] = row[<<i, j>>]
    <3>1. \A p \in S : p[1] \in A /\ p[2] \in B /\ p = <<p[1], p[2]>>
      OBVIOUS
    <3> HIDE DEF S, g, row, row2
    <3> QED
      BY <3>1
  <2>1. row[<<i, j>>] = d[i][j] /\ d[i][j] \in Int
    BY DEF LinkRow, Distances
  <2>2. g[<<i, j>>] = <<s[i], s[j]>>
    OBVIOUS
  <2>3. s[i] \in C /\ s[j] \in D
    BY DEF Img
  <2> HIDE DEF C, D, g, S
  <2>4. row2[<<s[i], s[j]>>] = d2[s[i]][s[j]]
    BY <2>3 DEF LinkRow
  <2>5. d2[s[i]][s[j]] = d[i][j]
    BY DEF Renames
  <2> QED
    BY <2>1, <2>2, <2>4, <2>5
<1>7. /\ LinkSum(d, A, B) = RowSum(row, S)
      /\ LinkSum(d2, C, D) = RowSum(row2, C \X D)
  <2> HIDE DEF C, D
  <2> QED
    BY <1>1, <1>3, LinkSumIsSum
<1> HIDE DEF C, D, g, S, row, row2
<1>8. RowSum(row2, Img(g, S)) = RowSum(row, S)
  BY <1>1, <1>4, <1>6, SumsRenamed
<1> QED
  BY <1>5, <1>7, <1>8 DEF C, D

\* The distance of two clusters is that of the second and the first.
LEMMA LinkFlips ==
    ASSUME NEW bag, IsFiniteSet(bag), NEW d, Distances(d, bag),
           \A i, j \in bag : d[i][j] = d[j][i],
           NEW A \in SUBSET bag, NEW B \in SUBSET bag
    PROVE  LinkSum(d, A, B) = LinkSum(d, B, A) /\ LinkSize(A, B) = LinkSize(B, A)
<1> DEFINE S == A \X B
           g == [p \in S |-> <<p[2], p[1]>>]
           row == LinkRow(d, A, B)
           row2 == LinkRow(d, B, A)
<1>1. IsFiniteSet(A) /\ IsFiniteSet(B) /\ IsFiniteSet(S)
  BY FS_Subset, FS_Product
<1>2. \A p, q \in S : g[p] = g[q] => p = q
  OBVIOUS
<1>3. Img(g, S) = B \X A
  <2>1. \A p \in S : g[p] \in B \X A
    OBVIOUS
  <2>2. \A y \in B, z \in A : <<z, y>> \in S /\ g[<<z, y>>] = <<y, z>>
    OBVIOUS
  <2> HIDE DEF g, S
  <2>3. Img(g, S) \subseteq B \X A
    BY <2>1 DEF Img
  <2>4. \A y \in B, z \in A : <<y, z>> \in Img(g, S)
    BY <2>2 DEF Img
  <2>5. B \X A \subseteq Img(g, S)
    BY <2>4
  <2> QED
    BY <2>3, <2>5
<1>4. \A p \in S : row[p] \in Int /\ row2[g[p]] = row[p]
  <2> SUFFICES ASSUME NEW i \in A, NEW j \in B
               PROVE  row[<<i, j>>] \in Int /\ row2[g[<<i, j>>]] = row[<<i, j>>]
    <3>1. \A p \in S : p[1] \in A /\ p[2] \in B /\ p = <<p[1], p[2]>>
      OBVIOUS
    <3> HIDE DEF S, g, row, row2
    <3> QED
      BY <3>1
  <2>1. row[<<i, j>>] = d[i][j] /\ d[i][j] \in Int /\ d[i][j] = d[j][i]
    BY DEF LinkRow, Distances
  <2>2. g[<<i, j>>] = <<j, i>> /\ row2[<<j, i>>] = d[j][i]
    BY DEF LinkRow
  <2> HIDE DEF row, row2, g
  <2> QED
    BY <2>1, <2>2
<1>5. LinkSum(d, A, B) = RowSum(row, S) /\ LinkSum(d, B, A) = RowSum(row2, B \X A)
  BY <1>1, LinkSumIsSum
<1> HIDE DEF g, S, row, row2
<1>6. RowSum(row2, Img(g, S)) = RowSum(row, S)
  BY <1>1, <1>2, <1>4, SumsRenamed
<1>7. LinkSize(A, B) = LinkSize(B, A)
  <2>1. Cardinality(A) \in Nat /\ Cardinality(B) \in Nat
    BY <1>1, FS_CardinalityType
  <2> DEFINE m == Cardinality(A)  n == Cardinality(B)
  <2> HIDE DEF m, n
  <2>2. m \in Nat /\ n \in Nat
    BY <2>1 DEF m, n
  <2>3. m * n = n * m
    BY <2>2
  <2> QED
    BY <2>3 DEF LinkSize, m, n
<1> QED
  BY <1>3, <1>5, <1>6, <1>7

LEMMA HashRenamed ==
    ASSUME NEW bag, NEW bag2, NEW d, NEW d2, NEW h, NEW h2,
           NEW s, Renames(s, bag, bag2, d, d2, h, h2), NEW A \in SUBSET bag
    PROVE  MinHash(h2, Img(s, A)) = MinHash(h, A)
<1>1. {h2[i] : i \in Img(s, A)} = {h[i] : i \in A}
  BY DEF Img, Renames
<1> QED
  BY <1>1 DEF MinHash

-----------------------------------------------------------------------------
(* The nearest clusters, among the clusters as sets.                        *)

\* Distances without direction, and contents that differ.
Distinct(d, h, bag) ==
    /\ BagTyped(d, h, bag)
    /\ \A i, j \in bag : d[i][j] = d[j][i]
    /\ \A i, j \in bag : h[i] = h[j] => i = j

\* Disjoint sets of rows.
Family(bag, F) ==
    /\ F \subseteq SUBSET bag
    /\ \A A \in F : A # {}
    /\ \A A, B \in F : A # B => A \cap B = {}

Sets(cl) == {cl[i] : i \in DOMAIN cl}

LEMMA ClusterFamily ==
    ASSUME NEW bag, IsFiniteSet(bag), NEW cl \in Clusterings(bag)
    PROVE  /\ Family(bag, Sets(cl))
           /\ \A i, j \in DOMAIN cl : cl[i] = cl[j] => i = j
           /\ IsFiniteSet(Sets(cl)) /\ Cardinality(Sets(cl)) = Cardinality(DOMAIN cl)
<1>1. /\ DOMAIN cl \in SUBSET bag /\ IsFiniteSet(DOMAIN cl)
      /\ \A i \in DOMAIN cl : cl[i] \in SUBSET bag /\ cl[i] # {}
      /\ \A i, j \in DOMAIN cl : i # j => cl[i] \cap cl[j] = {}
  BY ClusteringFacts
<1>2. \A i, j \in DOMAIN cl : cl[i] = cl[j] => i = j
  BY <1>1
<1>3. Family(bag, Sets(cl))
  BY <1>1 DEF Family, Sets
<1>4. IsFiniteSet(Img(cl, DOMAIN cl)) /\ Cardinality(Img(cl, DOMAIN cl)) = Cardinality(DOMAIN cl)
  BY <1>1, <1>2, ImageSize
<1>5. Sets(cl) = Img(cl, DOMAIN cl)
  BY DEF Sets, Img
<1> QED
  BY <1>2, <1>3, <1>4, <1>5

\* Disjoint clusters have different smallest hashes.
LEMMA HashesDiffer ==
    ASSUME NEW bag, NEW d, NEW h, Distinct(d, h, bag), NEW F, Family(bag, F),
           NEW A \in F, NEW B \in F
    PROVE  /\ MinHash(h, A) \in Int /\ MinHash(h, B) \in Int
           /\ MinHash(h, A) = MinHash(h, B) => A = B
<1>1. /\ A \in SUBSET bag /\ A # {} /\ B \in SUBSET bag /\ B # {}
      /\ A # B => A \cap B = {}
  BY DEF Family
<1>2. IsFiniteSet(A) /\ IsFiniteSet(B)
  BY <1>1, FS_Subset DEF Distinct, BagTyped
<1>3. (\A i \in A : h[i] \in Int) /\ (\A i \in B : h[i] \in Int)
  BY <1>1 DEF Distinct, BagTyped
<1>4. MinHash(h, A) \in Int /\ \E i \in A : MinHash(h, A) = h[i]
  BY <1>1, <1>2, <1>3, MinHashIs
<1>5. MinHash(h, B) \in Int /\ \E i \in B : MinHash(h, B) = h[i]
  BY <1>1, <1>2, <1>3, MinHashIs
<1>6. ASSUME MinHash(h, A) = MinHash(h, B)
      PROVE  A = B
  <2>1. PICK i \in A : MinHash(h, A) = h[i]
    BY <1>4
  <2>2. PICK j \in B : MinHash(h, B) = h[j]
    BY <1>5
  <2>3. i = j
    BY <1>1, <1>6, <2>1, <2>2 DEF Distinct
  <2> QED
    BY <1>1, <2>3
<1> QED
  BY <1>4, <1>5, <1>6

\* The two smallest hashes of a pair, sorted.
LowHash(h, A, B) == Min({MinHash(h, A), MinHash(h, B)})
HighHash(h, A, B) == Max({MinHash(h, A), MinHash(h, B)})

LEMMA PairHashes ==
    ASSUME NEW bag, NEW d, NEW h, Distinct(d, h, bag), NEW F, Family(bag, F),
           NEW A \in F, NEW B \in F, NEW C \in F, NEW D \in F
    PROVE  /\ LowHash(h, A, B) \in Int /\ HighHash(h, A, B) \in Int
           /\ LowHash(h, A, B) = LowHash(h, C, D) /\ HighHash(h, A, B) = HighHash(h, C, D)
                => {A, B} = {C, D}
<1> DEFINE a == MinHash(h, A)  b == MinHash(h, B)  c == MinHash(h, C)  e == MinHash(h, D)
<1>1. /\ a \in Int /\ b \in Int /\ c \in Int /\ e \in Int
      /\ (a = c => A = C) /\ (a = e => A = D) /\ (b = c => B = C) /\ (b = e => B = D)
      /\ (a = b => A = B) /\ (c = e => C = D)
  BY HashesDiffer
<1>2. LowHash(h, A, B) = Min({a, b}) /\ HighHash(h, A, B) = Max({a, b})
      /\ LowHash(h, C, D) = Min({c, e}) /\ HighHash(h, C, D) = Max({c, e})
  BY DEF LowHash, HighHash
<1> HIDE DEF a, b, c, e
<1>3. /\ Min({a, b}) = IF a <= b THEN a ELSE b
      /\ Max({a, b}) = IF a <= b THEN b ELSE a
      /\ Min({c, e}) = IF c <= e THEN c ELSE e
      /\ Max({c, e}) = IF c <= e THEN e ELSE c
  BY <1>1, TwoExtremes
<1>4. ASSUME Min({a, b}) = Min({c, e}), Max({a, b}) = Max({c, e})
      PROVE  (a = c /\ b = e) \/ (a = e /\ b = c)
  BY <1>1, <1>3, <1>4
<1>5. ASSUME Min({a, b}) = Min({c, e}), Max({a, b}) = Max({c, e})
      PROVE  {A, B} = {C, D}
  BY <1>1, <1>4, <1>5
<1>6. Min({a, b}) \in Int /\ Max({a, b}) \in Int
  BY <1>1, <1>3
<1> QED
  BY <1>2, <1>5, <1>6

\* One pair of clusters is nearer than another, their ids aside.
Nearer(d, h, A, B, C, D) ==
    LET left == LinkSum(d, A, B) * LinkSize(C, D)
        right == LinkSum(d, C, D) * LinkSize(A, B)
    IN \/ left < right
       \/ /\ left = right
          /\ \/ LowHash(h, A, B) < LowHash(h, C, D)
             \/ /\ LowHash(h, A, B) = LowHash(h, C, D)
                /\ HighHash(h, A, B) < HighHash(h, C, D)

ClosestPair(d, h, F, A, B) ==
    /\ A \in F /\ B \in F /\ A # B
    /\ \A X, Y \in F : X # Y /\ {X, Y} # {A, B} => ~Nearer(d, h, X, Y, A, B)

LEMMA NearerTyped ==
    ASSUME NEW bag, NEW d, NEW h, Distinct(d, h, bag), NEW F, Family(bag, F),
           NEW A \in F, NEW B \in F, NEW C \in F, NEW D \in F
    PROVE  LinkSum(d, A, B) * LinkSize(C, D) \in Int
<1>1. /\ IsFiniteSet(bag) /\ Distances(d, bag)
      /\ A \in SUBSET bag /\ B \in SUBSET bag /\ C \in SUBSET bag /\ D \in SUBSET bag
      /\ C # {} /\ D # {}
  BY DEF Distinct, BagTyped, Family
<1>2. LinkSum(d, A, B) \in Int /\ LinkSize(C, D) \in Int
  BY <1>1, LinkTyped
<1> DEFINE x == LinkSum(d, A, B)  y == LinkSize(C, D)
<1> HIDE DEF x, y
<1>3. x \in Int /\ y \in Int
  BY <1>2 DEF x, y
<1>4. x * y \in Int
  BY <1>3
<1> QED
  BY <1>4 DEF x, y

LEMMA NearestUnique ==
    ASSUME NEW bag, NEW d, NEW h, Distinct(d, h, bag), NEW F, Family(bag, F),
           NEW A, NEW B, ClosestPair(d, h, F, A, B), NEW C, NEW D, ClosestPair(d, h, F, C, D)
    PROVE  {A, B} = {C, D}
<1> SUFFICES ASSUME {A, B} # {C, D}
             PROVE  FALSE
  OBVIOUS
<1>1. A \in F /\ B \in F /\ C \in F /\ D \in F
  BY DEF ClosestPair
<1>2. ~Nearer(d, h, A, B, C, D) /\ ~Nearer(d, h, C, D, A, B)
  BY DEF ClosestPair
<1> DEFINE left == LinkSum(d, A, B) * LinkSize(C, D)
           right == LinkSum(d, C, D) * LinkSize(A, B)
           a == LowHash(h, A, B)  b == HighHash(h, A, B)
           c == LowHash(h, C, D)  e == HighHash(h, C, D)
<1>3. left \in Int /\ right \in Int
  BY <1>1, NearerTyped
<1>4. a \in Int /\ b \in Int /\ c \in Int /\ e \in Int /\ ~(a = c /\ b = e)
  BY <1>1, PairHashes
<1>5. /\ ~(left < right \/ (left = right /\ (a < c \/ (a = c /\ b < e))))
      /\ ~(right < left \/ (right = left /\ (c < a \/ (c = a /\ e < b))))
  BY <1>2 DEF Nearer
<1> HIDE DEF left, right, a, b, c, e
<1> QED
  BY <1>3, <1>4, <1>5

LEMMA NearerFlips ==
    ASSUME NEW bag, NEW d, NEW h, Distinct(d, h, bag), NEW F, Family(bag, F),
           NEW A \in F, NEW B \in F, NEW C, NEW D
    PROVE  Nearer(d, h, A, B, C, D) <=> Nearer(d, h, B, A, C, D)
<1>1. /\ IsFiniteSet(bag) /\ Distances(d, bag) /\ \A i, j \in bag : d[i][j] = d[j][i]
      /\ A \in SUBSET bag /\ B \in SUBSET bag
  BY DEF Distinct, BagTyped, Family
<1>2. LinkSum(d, A, B) = LinkSum(d, B, A) /\ LinkSize(A, B) = LinkSize(B, A)
  BY <1>1, LinkFlips
<1>3. {MinHash(h, A), MinHash(h, B)} = {MinHash(h, B), MinHash(h, A)}
  OBVIOUS
<1>4. LowHash(h, A, B) = LowHash(h, B, A) /\ HighHash(h, A, B) = HighHash(h, B, A)
  BY <1>3 DEF LowHash, HighHash
<1> QED
  BY <1>2, <1>4 DEF Nearer

LEMMA FourLess ==
    ASSUME NEW a, NEW b, NEW x, NEW y, NEW c, NEW e, NEW u, NEW v,
           LexLess(<<a, b, x, y>>, <<c, e, u, v>>)
    PROVE  a < c \/ (a = c /\ b < e) \/ (a = c /\ b = e)
<1> DEFINE s == <<a, b, x, y>>
           t == <<c, e, u, v>>
<1>1. /\ DOMAIN s = 1..4 /\ s[1] = a /\ s[2] = b /\ t[1] = c /\ t[2] = e
  OBVIOUS
<1> HIDE DEF s, t
<1>2. PICK i \in DOMAIN s : s[i] < t[i] /\ \A j \in 1..(i - 1) : s[j] = t[j]
  BY DEF LexLess, s, t
<1>3. i \in {1, 2, 3, 4}
  BY <1>1, <1>2
<1>4. CASE i = 1
  BY <1>1, <1>2, <1>4
<1>5. CASE i = 2
  <2>1. 1 \in 1..(i - 1)
    BY <1>5
  <2> QED
    BY <1>1, <1>2, <1>5, <2>1
<1>6. CASE i \in {3, 4}
  <2>1. 1 \in 1..(i - 1) /\ 2 \in 1..(i - 1)
    BY <1>6
  <2> QED
    BY <1>1, <1>2, <2>1
<1> QED
  BY <1>3, <1>4, <1>5, <1>6

\* What the agglomeration takes is the nearest pair.
LEMMA BestIsNearest ==
    ASSUME NEW bag, NEW d, NEW h, Distinct(d, h, bag), NEW cl \in Clusterings(bag),
           Cardinality(DOMAIN cl) \notin {0, 1}
    PROVE  LET best == NearestOf(d, h, cl)
           IN /\ best[1] \in DOMAIN cl /\ best[2] \in DOMAIN cl /\ best[1] # best[2]
              /\ ClosestPair(d, h, Sets(cl), cl[best[1]], cl[best[2]])
<1> DEFINE best == NearestOf(d, h, cl)
           F == Sets(cl)
           A == cl[best[1]]
           B == cl[best[2]]
<1>0. BagTyped(d, h, bag) /\ IsFiniteSet(bag)
  BY DEF Distinct, BagTyped
<1>1. /\ best \in Pairs(DOMAIN cl)
      /\ \A p \in Pairs(DOMAIN cl) \ {best} : MergesBefore(d, h, cl, best, p)
  BY <1>0, NearestPair
<1> HIDE DEF best
<1>2. Family(bag, F) /\ \A i, j \in DOMAIN cl : cl[i] = cl[j] => i = j
  BY <1>0, ClusterFamily
<1>3. DOMAIN cl \subseteq Int
  BY <1>0, ClusteringFacts DEF BagTyped
<1>4. /\ best[1] \in DOMAIN cl /\ best[2] \in DOMAIN cl /\ best[1] # best[2]
      /\ best = <<best[1], best[2]>>
  BY <1>1, <1>3 DEF Pairs
<1>5. A \in F /\ B \in F /\ A # B
  BY <1>2, <1>4 DEF Sets
<1>6. ASSUME NEW x \in DOMAIN cl, NEW y \in DOMAIN cl, x < y, {cl[x], cl[y]} # {A, B}
      PROVE  ~Nearer(d, h, cl[x], cl[y], A, B)
  <2> DEFINE q == <<x, y>>
             X == cl[x]  Y == cl[y]
             left == LinkSum(d, A, B) * LinkSize(X, Y)
             right == LinkSum(d, X, Y) * LinkSize(A, B)
             a == LowHash(h, A, B)  b == HighHash(h, A, B)
             c == LowHash(h, X, Y)  e == HighHash(h, X, Y)
  <2>1. q \in Pairs(DOMAIN cl) /\ q # best
    BY <1>4, <1>6 DEF Pairs
  <2>2. MergesBefore(d, h, cl, best, q)
    BY <1>1, <2>1
  <2>3. X \in F /\ Y \in F
    BY DEF Sets
  <2>4. q[1] = x /\ q[2] = y
    OBVIOUS
  <2>5. left < right \/ (left = right /\ LexLess(<<a, b, best[1], best[2]>>, <<c, e, x, y>>))
    BY <2>2, <2>4 DEF MergesBefore, LowHash, HighHash
  <2>6. left < right \/ (left = right /\ (a < c \/ (a = c /\ b < e) \/ (a = c /\ b = e)))
    BY <2>5, FourLess
  <2>7. left \in Int /\ right \in Int
    BY <1>2, <1>5, <2>3, NearerTyped
  <2>8. a \in Int /\ b \in Int /\ c \in Int /\ e \in Int /\ ~(a = c /\ b = e)
    <3>1. A \in F /\ B \in F /\ X \in F /\ Y \in F /\ {X, Y} # {A, B}
      BY <1>5, <1>6, <2>3
    <3> HIDE DEF A, B, X, Y, F
    <3> QED
      BY <1>2, <3>1, PairHashes
  <2> SUFFICES ~(right < left \/ (right = left /\ (c < a \/ (c = a /\ e < b))))
    BY DEF Nearer
  <2> HIDE DEF left, right, a, b, c, e
  <2> QED
    BY <2>6, <2>7, <2>8
<1>7. ASSUME NEW X \in F, NEW Y \in F, X # Y, {X, Y} # {A, B}
      PROVE  ~Nearer(d, h, X, Y, A, B)
  <2>1. PICK x \in DOMAIN cl, y \in DOMAIN cl : X = cl[x] /\ Y = cl[y]
    BY DEF Sets
  <2>2. x < y \/ y < x
    BY <1>3, <1>7, <2>1
  <2>3. {X, Y} = {Y, X}
    OBVIOUS
  <2> HIDE DEF A, B, F
  <2>4. CASE x < y
    BY <1>6, <1>7, <2>1, <2>4
  <2>5. CASE y < x
    <3>1. ~Nearer(d, h, Y, X, A, B)
      BY <1>6, <1>7, <2>1, <2>3, <2>5
    <3> QED
      BY <1>2, <3>1, NearerFlips
  <2> QED
    BY <2>2, <2>4, <2>5
<1>8. ClosestPair(d, h, F, A, B)
  BY <1>5, <1>7 DEF ClosestPair
<1> QED
  BY <1>4, <1>8 DEF best

\* The image of a family of clusters.
Images(s, F) == {Img(s, A) : A \in F}

LEMMA ImagesFacts ==
    ASSUME NEW bag, NEW bag2, NEW d, NEW d2, NEW h, NEW h2,
           NEW s, Renames(s, bag, bag2, d, d2, h, h2),
           NEW F, Family(bag, F)
    PROVE  /\ Family(bag2, Images(s, F))
           /\ \A A, B \in SUBSET bag : Img(s, A) = Img(s, B) => A = B
           /\ \A A, B \in SUBSET bag : Img(s, A \cup B) = Img(s, A) \cup Img(s, B)
<1>1. /\ s \in [bag -> bag2]
      /\ \A i, j \in bag : s[i] = s[j] => i = j
  BY DEF Renames
<1>2. ASSUME NEW A \in SUBSET bag, NEW B \in SUBSET bag
      PROVE  /\ Img(s, A) = Img(s, B) => A = B
             /\ A \cap B = {} => Img(s, A) \cap Img(s, B) = {}
             /\ Img(s, A \cup B) = Img(s, A) \cup Img(s, B)
             /\ Img(s, A) \in SUBSET bag2 /\ (A # {} => Img(s, A) # {})
  <2>1. \A i \in bag : (s[i] \in Img(s, A) <=> i \in A) /\ (s[i] \in Img(s, B) <=> i \in B)
    BY <1>1 DEF Img
  <2>2. Img(s, A) = Img(s, B) => A = B
    BY <2>1
  <2>3. A \cap B = {} => Img(s, A) \cap Img(s, B) = {}
    BY <1>1 DEF Img
  <2>4. Img(s, A \cup B) = Img(s, A) \cup Img(s, B)
    BY DEF Img
  <2>5. Img(s, A) \in SUBSET bag2 /\ (A # {} => Img(s, A) # {})
    BY <1>1 DEF Img
  <2> QED
    BY <2>2, <2>3, <2>4, <2>5
<1>3. Family(bag2, Images(s, F))
  <2>1. F \subseteq SUBSET bag /\ \A A \in F : A # {}
    BY DEF Family
  <2>2. Images(s, F) \subseteq SUBSET bag2 /\ \A Y \in Images(s, F) : Y # {}
    BY <1>2, <2>1 DEF Images
  <2>3. ASSUME NEW Y \in Images(s, F), NEW Z \in Images(s, F), Y # Z
        PROVE  Y \cap Z = {}
    <3>1. PICK A \in F, B \in F : Y = Img(s, A) /\ Z = Img(s, B)
      BY DEF Images
    <3>2. A # B
      BY <2>3, <3>1
    <3>3. A \cap B = {}
      BY <3>2 DEF Family
    <3> QED
      BY <1>2, <2>1, <3>1, <3>3
  <2> QED
    BY <2>2, <2>3 DEF Family
<1> QED
  BY <1>2, <1>3

\* Renaming the rows keeps the distinctness of the bag.
LEMMA DistinctRenamed ==
    ASSUME NEW bag, NEW bag2, IsFiniteSet(bag2), bag2 \subseteq Int,
           NEW d, NEW d2, NEW h, NEW h2,
           NEW s, Renames(s, bag, bag2, d, d2, h, h2), Distinct(d, h, bag)
    PROVE  Distinct(d2, h2, bag2)
<1>1. \A x \in bag2 : \E i \in bag : s[i] = x
  BY DEF Renames
<1>2. ASSUME NEW x \in bag2, NEW y \in bag2
      PROVE  /\ d2[x][y] \in Int /\ d2[x][y] = d2[y][x] /\ h2[x] \in Int
             /\ h2[x] = h2[y] => x = y
  <2>1. PICK i \in bag : s[i] = x
    BY <1>1
  <2>2. PICK j \in bag : s[j] = y
    BY <1>1
  <2>3. d2[x][y] = d[i][j] /\ d2[y][x] = d[j][i] /\ h2[x] = h[i] /\ h2[y] = h[j]
    BY <2>1, <2>2 DEF Renames
  <2>4. d[i][j] \in Int /\ d[i][j] = d[j][i] /\ h[i] \in Int /\ (h[i] = h[j] => i = j)
    BY DEF Distinct, BagTyped, Distances
  <2> QED
    BY <2>1, <2>2, <2>3, <2>4
<1> QED
  BY <1>2 DEF Distinct, BagTyped, Distances

LEMMA NearestRenamed ==
    ASSUME NEW bag, NEW bag2, NEW d, NEW d2, NEW h, NEW h2,
           NEW s, Renames(s, bag, bag2, d, d2, h, h2), Distinct(d, h, bag),
           NEW F, Family(bag, F), NEW A, NEW B, ClosestPair(d, h, F, A, B)
    PROVE  ClosestPair(d2, h2, Images(s, F), Img(s, A), Img(s, B))
<1>0. IsFiniteSet(bag) /\ Distances(d, bag) /\ F \subseteq SUBSET bag
  BY DEF Distinct, BagTyped, Family
<1>1. A \in F /\ B \in F /\ A # B
  BY DEF ClosestPair
<1>2. \A X, Y \in SUBSET bag : Img(s, X) = Img(s, Y) => X = Y
  BY ImagesFacts
<1>3. ASSUME NEW X \in F, NEW Y \in F
      PROVE  /\ LinkSum(d2, Img(s, X), Img(s, Y)) = LinkSum(d, X, Y)
             /\ LinkSize(Img(s, X), Img(s, Y)) = LinkSize(X, Y)
             /\ LowHash(h2, Img(s, X), Img(s, Y)) = LowHash(h, X, Y)
             /\ HighHash(h2, Img(s, X), Img(s, Y)) = HighHash(h, X, Y)
  <2>1. X \in SUBSET bag /\ Y \in SUBSET bag /\ IsFiniteSet(X) /\ IsFiniteSet(Y)
    BY <1>0, FS_Subset
  <2>2. \A i, j \in bag : s[i] = s[j] => i = j
    BY DEF Renames
  <2>3. Cardinality(Img(s, X)) = Cardinality(X) /\ Cardinality(Img(s, Y)) = Cardinality(Y)
    BY <2>1, <2>2, ImageSize
  <2>4. MinHash(h2, Img(s, X)) = MinHash(h, X) /\ MinHash(h2, Img(s, Y)) = MinHash(h, Y)
    BY <2>1, HashRenamed
  <2>5. LinkSum(d2, Img(s, X), Img(s, Y)) = LinkSum(d, X, Y)
    BY <1>0, <2>1, LinkRenamed
  <2> QED
    BY <2>3, <2>4, <2>5 DEF LinkSize, LowHash, HighHash
<1>4. \A X, Y \in F : Nearer(d2, h2, Img(s, X), Img(s, Y), Img(s, A), Img(s, B))
                        <=> Nearer(d, h, X, Y, A, B)
  BY <1>1, <1>3 DEF Nearer
<1>5. ASSUME NEW Y \in Images(s, F), NEW Z \in Images(s, F), Y # Z,
             {Y, Z} # {Img(s, A), Img(s, B)}
      PROVE  ~Nearer(d2, h2, Y, Z, Img(s, A), Img(s, B))
  <2>1. PICK C \in F, D \in F : Y = Img(s, C) /\ Z = Img(s, D)
    BY DEF Images
  <2>2. C # D /\ {C, D} # {A, B}
    BY <1>5, <2>1
  <2> QED
    BY <1>4, <2>1, <2>2 DEF ClosestPair
<1>6. Img(s, A) \in Images(s, F) /\ Img(s, B) \in Images(s, F) /\ Img(s, A) # Img(s, B)
  BY <1>0, <1>1, <1>2 DEF Images
<1> QED
  BY <1>5, <1>6 DEF ClosestPair

-----------------------------------------------------------------------------
\* A merge, among the clusters as sets.
Merged(F, A, B) == (F \ {A, B}) \cup {A \cup B}

LEMMA AbsorbSets ==
    ASSUME NEW bag, IsFiniteSet(bag), NEW cl \in Clusterings(bag),
           NEW a \in DOMAIN cl, NEW b \in DOMAIN cl, a # b
    PROVE  Sets(Absorb(cl, a, b)) = Merged(Sets(cl), cl[a], cl[b])
<1>1. \A i, j \in DOMAIN cl : cl[i] = cl[j] => i = j
  BY ClusterFamily
<1> DEFINE new == Absorb(cl, a, b)
<1>2. /\ DOMAIN new = DOMAIN cl \ {b}
      /\ \A i \in DOMAIN cl \ {b} : new[i] = IF i = a THEN cl[a] \cup cl[b] ELSE cl[i]
  BY DEF Absorb
<1> HIDE DEF new
<1>3. ASSUME NEW X \in Sets(new)
      PROVE  X \in Merged(Sets(cl), cl[a], cl[b])
  <2>1. PICK i \in DOMAIN cl \ {b} : X = new[i]
    BY <1>2 DEF Sets
  <2>2. CASE i = a
    BY <1>2, <2>1, <2>2 DEF Merged
  <2>3. CASE i # a
    <3>1. X = cl[i] /\ X \in Sets(cl)
      BY <1>2, <2>1, <2>3 DEF Sets
    <3>2. X # cl[a] /\ X # cl[b]
      BY <1>1, <2>1, <2>3, <3>1
    <3> QED
      BY <3>1, <3>2 DEF Merged
  <2> QED
    BY <2>2, <2>3
<1>4. ASSUME NEW X \in Merged(Sets(cl), cl[a], cl[b])
      PROVE  X \in Sets(new)
  <2>1. CASE X = cl[a] \cup cl[b]
    <3>1. a \in DOMAIN new /\ new[a] = X
      BY <1>2, <2>1
    <3> QED
      BY <3>1 DEF Sets
  <2>2. CASE X \in Sets(cl) /\ X # cl[a] /\ X # cl[b]
    <3>1. PICK i \in DOMAIN cl : X = cl[i]
      BY <2>2 DEF Sets
    <3>2. i # a /\ i # b
      BY <2>2, <3>1
    <3>3. i \in DOMAIN new /\ new[i] = X
      BY <1>2, <3>1, <3>2
    <3> QED
      BY <3>3 DEF Sets
  <2> QED
    BY <2>1, <2>2 DEF Merged
<1>5. Sets(new) = Merged(Sets(cl), cl[a], cl[b])
  BY <1>3, <1>4
<1> QED
  BY <1>5 DEF new

LEMMA ImagesMerged ==
    ASSUME NEW bag, NEW bag2, NEW d, NEW d2, NEW h, NEW h2,
           NEW s, Renames(s, bag, bag2, d, d2, h, h2),
           NEW F, Family(bag, F), NEW A \in F, NEW B \in F
    PROVE  Images(s, Merged(F, A, B)) = Merged(Images(s, F), Img(s, A), Img(s, B))
<1>1. /\ F \subseteq SUBSET bag
      /\ \A X, Y \in SUBSET bag : Img(s, X) = Img(s, Y) => X = Y
      /\ Img(s, A \cup B) = Img(s, A) \cup Img(s, B)
  <2>1. F \subseteq SUBSET bag
    BY DEF Family
  <2>2. /\ \A X, Y \in SUBSET bag : Img(s, X) = Img(s, Y) => X = Y
        /\ \A X, Y \in SUBSET bag : Img(s, X \cup Y) = Img(s, X) \cup Img(s, Y)
    BY ImagesFacts
  <2> QED
    BY <2>1, <2>2
<1>2. \A X \in F : Img(s, X) \in {Img(s, A), Img(s, B)} <=> X \in {A, B}
  BY <1>1
<1>3. ASSUME NEW Y \in Images(s, Merged(F, A, B))
      PROVE  Y \in Merged(Images(s, F), Img(s, A), Img(s, B))
  <2>1. PICK X \in Merged(F, A, B) : Y = Img(s, X)
    BY DEF Images
  <2> QED
    BY <1>1, <1>2, <2>1 DEF Images, Merged
<1>4. ASSUME NEW Y \in Merged(Images(s, F), Img(s, A), Img(s, B))
      PROVE  Y \in Images(s, Merged(F, A, B))
  <2>1. CASE Y = Img(s, A) \cup Img(s, B)
    <3>1. A \cup B \in Merged(F, A, B)
      BY DEF Merged
    <3> QED
      BY <1>1, <2>1, <3>1 DEF Images
  <2>2. CASE Y \in Images(s, F) /\ Y \notin {Img(s, A), Img(s, B)}
    <3>1. PICK X \in F : Y = Img(s, X)
      BY <2>2 DEF Images
    <3>2. X \in Merged(F, A, B)
      BY <1>2, <2>2, <3>1 DEF Merged
    <3> QED
      BY <3>1, <3>2 DEF Images
  <2> QED
    BY <2>1, <2>2 DEF Merged
<1> QED
  BY <1>3, <1>4

\* Two clusterings that hold the same clusters, under the two numberings.
Matches(s, cl, cl2) == Sets(cl2) = Images(s, Sets(cl))

LEMMA MatchesCount ==
    ASSUME NEW bag, IsFiniteSet(bag), NEW bag2, IsFiniteSet(bag2),
           NEW d, NEW d2, NEW h, NEW h2,
           NEW s, Renames(s, bag, bag2, d, d2, h, h2),
           NEW cl \in Clusterings(bag), NEW cl2 \in Clusterings(bag2), Matches(s, cl, cl2)
    PROVE  Cardinality(DOMAIN cl) = Cardinality(DOMAIN cl2)
<1> DEFINE F == Sets(cl)
           g == [X \in F |-> Img(s, X)]
<1>1. Family(bag, F) /\ IsFiniteSet(F) /\ Cardinality(F) = Cardinality(DOMAIN cl)
  BY ClusterFamily
<1>2. Cardinality(Sets(cl2)) = Cardinality(DOMAIN cl2)
  BY ClusterFamily
<1>3. \A X, Y \in F : g[X] = g[Y] => X = Y
  <2> HIDE DEF F
  <2>1. F \subseteq SUBSET bag
    BY <1>1 DEF Family
  <2>2. \A X, Y \in SUBSET bag : Img(s, X) = Img(s, Y) => X = Y
    BY <1>1, ImagesFacts
  <2>3. \A X, Y \in F : Img(s, X) = Img(s, Y) => X = Y
    BY <2>1, <2>2
  <2> QED
    BY <2>3 DEF g
<1>4. Img(g, F) = Images(s, F)
  <2>1. \A X \in F : g[X] = Img(s, X)
    OBVIOUS
  <2> HIDE DEF F, g
  <2>2. {g[X] : X \in F} = {Img(s, X) : X \in F}
    BY <2>1
  <2> QED
    BY <2>2 DEF Img, Images
<1> HIDE DEF g
<1>5. Cardinality(Img(g, F)) = Cardinality(F)
  <2> HIDE DEF F
  <2> QED
    BY <1>1, <1>3, ImageSize
<1> QED
  BY <1>1, <1>2, <1>4, <1>5 DEF Matches

\* A round of the agglomeration merges the same clusters under both numberings.
LEMMA MergeNearestMatches ==
    ASSUME NEW bag, bag # {}, NEW bag2, bag2 # {}, NEW d, NEW d2, NEW h, NEW h2,
           NEW s, Renames(s, bag, bag2, d, d2, h, h2),
           Distinct(d, h, bag), Distinct(d2, h2, bag2), NEW cut,
           NEW cl \in Clusterings(bag), NEW cl2 \in Clusterings(bag2), Matches(s, cl, cl2)
    PROVE  Matches(s, MergeNearest(d, h, cl, cut), MergeNearest(d2, h2, cl2, cut))
<1> DEFINE best == NearestOf(d, h, cl)
           best2 == NearestOf(d2, h2, cl2)
           A == cl[best[1]]  B == cl[best[2]]
           C == cl2[best2[1]]  D == cl2[best2[2]]
           F == Sets(cl)
<1>0. IsFiniteSet(bag) /\ IsFiniteSet(bag2) /\ Distances(d, bag) /\ Distances(d2, bag2)
      /\ (\A i, j \in bag2 : d2[i][j] = d2[j][i])
  BY DEF Distinct, BagTyped
<1>1. Cardinality(DOMAIN cl) = Cardinality(DOMAIN cl2) /\ Cardinality(DOMAIN cl) # 0
  BY <1>0, MatchesCount, ManyClusters
<1>2. CASE Cardinality(DOMAIN cl) = 1
  <2>1. MergeNearest(d, h, cl, cut) = cl /\ MergeNearest(d2, h2, cl2, cut) = cl2
    BY <1>1, <1>2, MergesNearest
  <2> QED
    BY <2>1
<1>3. CASE Cardinality(DOMAIN cl) # 1
  <2>0. Cardinality(DOMAIN cl) \notin {0, 1} /\ Cardinality(DOMAIN cl2) \notin {0, 1}
    BY <1>1, <1>3
  <2>1. /\ best[1] \in DOMAIN cl /\ best[2] \in DOMAIN cl /\ best[1] # best[2]
        /\ ClosestPair(d, h, F, A, B)
    BY <2>0, BestIsNearest
  <2>2. /\ best2[1] \in DOMAIN cl2 /\ best2[2] \in DOMAIN cl2 /\ best2[1] # best2[2]
        /\ ClosestPair(d2, h2, Sets(cl2), C, D)
    BY <2>0, BestIsNearest
  <2>3. Family(bag, F) /\ Family(bag2, Sets(cl2))
    BY <1>0, ClusterFamily
  <2>4. /\ MergeNearest(d, h, cl, cut) =
             IF Cardinality(DOMAIN cl) = 1 \/ LinkSum(d, A, B) > cut * LinkSize(A, B)
               THEN cl ELSE Absorb(cl, best[1], best[2])
        /\ MergeNearest(d2, h2, cl2, cut) =
             IF Cardinality(DOMAIN cl2) = 1 \/ LinkSum(d2, C, D) > cut * LinkSize(C, D)
               THEN cl2 ELSE Absorb(cl2, best2[1], best2[2])
    BY MergesNearest
  <2>5. /\ Sets(Absorb(cl, best[1], best[2])) = Merged(F, A, B)
        /\ Sets(Absorb(cl2, best2[1], best2[2])) = Merged(Sets(cl2), C, D)
    <3> HIDE DEF best, best2
    <3> QED
      BY <1>0, <2>1, <2>2, AbsorbSets
  <2> HIDE DEF best, best2, A, B, C, D, F
  <2>6. ClosestPair(d2, h2, Images(s, F), Img(s, A), Img(s, B))
    BY <2>1, <2>3, NearestRenamed
  <2>7. Sets(cl2) = Images(s, F)
    BY DEF Matches, F
  <2>8. {C, D} = {Img(s, A), Img(s, B)}
    BY <2>2, <2>3, <2>6, <2>7, NearestUnique
  <2>9. A \in F /\ B \in F /\ A \in SUBSET bag /\ B \in SUBSET bag
    BY <2>1, <2>3 DEF ClosestPair, Family
  <2>10. Img(s, A) \in SUBSET bag2 /\ Img(s, B) \in SUBSET bag2
    BY <2>6, <2>3, <2>7 DEF ClosestPair, Family
  <2>11. /\ LinkSum(d2, C, D) = LinkSum(d, A, B)
         /\ LinkSize(C, D) = LinkSize(A, B)
    <3>1. /\ LinkSum(d2, Img(s, A), Img(s, B)) = LinkSum(d, A, B)
      BY <1>0, <2>9, LinkRenamed
    <3>2. LinkSize(Img(s, A), Img(s, B)) = LinkSize(A, B)
      <4>1. \A i, j \in bag : s[i] = s[j] => i = j
        BY DEF Renames
      <4>2. IsFiniteSet(A) /\ IsFiniteSet(B)
        BY <1>0, <2>9, FS_Subset
      <4>3. Cardinality(Img(s, A)) = Cardinality(A) /\ Cardinality(Img(s, B)) = Cardinality(B)
        BY <2>9, <4>1, <4>2, ImageSize
      <4> QED
        BY <4>3 DEF LinkSize
    <3>3. /\ LinkSum(d2, Img(s, A), Img(s, B)) = LinkSum(d2, Img(s, B), Img(s, A))
          /\ LinkSize(Img(s, A), Img(s, B)) = LinkSize(Img(s, B), Img(s, A))
      BY <1>0, <2>10, LinkFlips
    <3>4. (C = Img(s, A) /\ D = Img(s, B)) \/ (C = Img(s, B) /\ D = Img(s, A))
      BY <2>8
    <3> QED
      BY <3>1, <3>2, <3>3, <3>4
  <2>12. Merged(Sets(cl2), C, D) = Images(s, Merged(F, A, B))
    <3>1. Images(s, Merged(F, A, B)) = Merged(Images(s, F), Img(s, A), Img(s, B))
      BY <2>3, <2>9, ImagesMerged
    <3>2. C \cup D = Img(s, A) \cup Img(s, B)
      BY <2>8
    <3>3. Merged(Sets(cl2), C, D) = Merged(Images(s, F), Img(s, A), Img(s, B))
      BY <2>7, <2>8, <3>2 DEF Merged
    <3> QED
      BY <3>1, <3>3
  <2>13. CASE LinkSum(d, A, B) > cut * LinkSize(A, B)
    <3>1. MergeNearest(d, h, cl, cut) = cl /\ MergeNearest(d2, h2, cl2, cut) = cl2
      BY <2>4, <2>11, <2>13
    <3> QED
      BY <3>1
  <2>14. CASE ~(LinkSum(d, A, B) > cut * LinkSize(A, B))
    <3>1. /\ MergeNearest(d, h, cl, cut) = Absorb(cl, best[1], best[2])
          /\ MergeNearest(d2, h2, cl2, cut) = Absorb(cl2, best2[1], best2[2])
      BY <1>1, <1>3, <2>4, <2>11, <2>14
    <3> QED
      BY <2>5, <2>12, <3>1 DEF Matches
  <2> QED
    BY <2>13, <2>14
<1> QED
  BY <1>2, <1>3

-----------------------------------------------------------------------------
(* The repair, among the clusters as sets.                                  *)

\* The smallest category below the minimum, by size and then by smallest hash.
SmallestOf(h, F, minSize, V) ==
    /\ V \in F /\ Cardinality(V) < minSize
    /\ \A X \in F : X # V /\ Cardinality(X) < minSize =>
          \/ Cardinality(V) < Cardinality(X)
          \/ Cardinality(V) = Cardinality(X) /\ MinHash(h, V) < MinHash(h, X)

\* The nearest neighbour of a category, by average distance and then by smallest hash.
NeighbourOf(d, h, F, V, T) ==
    /\ V \in F /\ T \in F /\ T # V
    /\ \A X \in F : X # V /\ X # T =>
          LET left == LinkSum(d, V, T) * LinkSize(V, X)
              right == LinkSum(d, V, X) * LinkSize(V, T)
          IN left < right \/ (left = right /\ MinHash(h, T) < MinHash(h, X))

LEMMA ThreeLess ==
    ASSUME NEW a, NEW b, NEW x, NEW c, NEW e, NEW u,
           LexLess(<<a, b, x>>, <<c, e, u>>)
    PROVE  a < c \/ (a = c /\ b < e) \/ (a = c /\ b = e)
<1> DEFINE s == <<a, b, x>>
           t == <<c, e, u>>
<1>1. DOMAIN s = 1..3 /\ s[1] = a /\ s[2] = b /\ t[1] = c /\ t[2] = e
  OBVIOUS
<1> HIDE DEF s, t
<1>2. PICK i \in DOMAIN s : s[i] < t[i] /\ \A j \in 1..(i - 1) : s[j] = t[j]
  BY DEF LexLess, s, t
<1>3. i \in {1, 2, 3}
  BY <1>1, <1>2
<1>4. CASE i = 1
  BY <1>1, <1>2, <1>4
<1>5. CASE i = 2
  <2>1. 1 \in 1..(i - 1)
    BY <1>5
  <2> QED
    BY <1>1, <1>2, <1>5, <2>1
<1>6. CASE i = 3
  <2>1. 1 \in 1..(i - 1) /\ 2 \in 1..(i - 1)
    BY <1>6
  <2> QED
    BY <1>1, <1>2, <2>1
<1> QED
  BY <1>3, <1>4, <1>5, <1>6

LEMMA TwoLess ==
    ASSUME NEW a, NEW x, NEW c, NEW u, LexLess(<<a, x>>, <<c, u>>)
    PROVE  a < c \/ a = c
<1> DEFINE s == <<a, x>>
           t == <<c, u>>
<1>1. DOMAIN s = 1..2 /\ s[1] = a /\ t[1] = c
  OBVIOUS
<1> HIDE DEF s, t
<1>2. PICK i \in DOMAIN s : s[i] < t[i] /\ \A j \in 1..(i - 1) : s[j] = t[j]
  BY DEF LexLess, s, t
<1>3. i \in {1, 2}
  BY <1>1, <1>2
<1>4. CASE i = 1
  BY <1>1, <1>2, <1>4
<1>5. CASE i = 2
  <2>1. 1 \in 1..(i - 1)
    BY <1>5
  <2> QED
    BY <1>1, <1>2, <2>1
<1> QED
  BY <1>3, <1>4, <1>5

\* What the repair folds away is the smallest undersized category.
LEMMA VictimIsSmallest ==
    ASSUME NEW bag, NEW d, NEW h, Distinct(d, h, bag), NEW cl \in Clusterings(bag),
           NEW minSize, Undersized(cl, minSize) # {}
    PROVE  LET small == Undersized(cl, minSize)
               victim == LeastOf(small, VictimOrder(h, cl, small))
           IN victim \in DOMAIN cl /\ SmallestOf(h, Sets(cl), minSize, cl[victim])
<1> DEFINE small == Undersized(cl, minSize)
           R == VictimOrder(h, cl, small)
           victim == LeastOf(small, R)
           F == Sets(cl)
           V == cl[victim]
<1>0. BagTyped(d, h, bag) /\ IsFiniteSet(bag)
  BY DEF Distinct, BagTyped
<1>1. Family(bag, F)
  BY <1>0, ClusterFamily
<1>2. small \in SUBSET DOMAIN cl /\ \A i \in small : Cardinality(cl[i]) < minSize
  BY DEF Undersized
<1>3. IsFiniteSet(small)
  BY <1>0, <1>2, ClusteringFacts, FS_Subset
<1>4. TotalOn(small, R)
  <2> HIDE DEF small
  <2> QED
    BY <1>0, <1>2, VictimsInOrder
<1>5. victim \in small /\ \A x \in small \ {victim} : <<victim, x>> \in R
  <2> HIDE DEF R, small
  <2>1. small # {}
    BY DEF small
  <2> QED
    BY <1>3, <1>4, <2>1, LeastIs
<1> HIDE DEF victim
<1>6. ASSUME NEW X \in F, X # V, Cardinality(X) < minSize
      PROVE  \/ Cardinality(V) < Cardinality(X)
             \/ Cardinality(V) = Cardinality(X) /\ MinHash(h, V) < MinHash(h, X)
  <2>1. PICK x \in DOMAIN cl : X = cl[x]
    BY DEF Sets
  <2>2. x \in small \ {victim}
    BY <1>6, <2>1 DEF Undersized
  <2>3. <<victim, x>> \in R
    BY <1>5, <2>2
  <2> DEFINE a == Cardinality(V)  b == MinHash(h, V)
             c == Cardinality(X)  e == MinHash(h, X)
  <2>4. LexLess(<<a, b, victim>>, <<c, e, x>>)
    BY <1>2, <1>5, <2>1, <2>3 DEF VictimOrder, LexBefore, VictimKey
  <2>5. b \in Int /\ e \in Int /\ b # e
    <3>1. V \in F
      BY <1>2, <1>5 DEF Sets
    <3> HIDE DEF F, V
    <3> QED
      BY <1>1, <1>6, <3>1, HashesDiffer
  <2> HIDE DEF a, b, c, e
  <2>6. a < c \/ (a = c /\ b < e) \/ (a = c /\ b = e)
    BY <2>4, ThreeLess
  <2>7. a < c \/ (a = c /\ b < e)
    BY <2>5, <2>6
  <2> QED
    BY <2>7 DEF a, b, c, e
<1>7. V \in F /\ Cardinality(V) < minSize
  BY <1>2, <1>5 DEF Sets
<1>8. SmallestOf(h, F, minSize, V)
  <2> HIDE DEF F, V
  <2> QED
    BY <1>6, <1>7 DEF SmallestOf
<1>9. victim \in DOMAIN cl
  BY <1>2, <1>5
<1> QED
  BY <1>8, <1>9 DEF victim

\* What it is folded into is its nearest neighbour.
LEMMA TargetIsNeighbour ==
    ASSUME NEW bag, NEW d, NEW h, Distinct(d, h, bag), NEW cl \in Clusterings(bag),
           NEW victim \in DOMAIN cl, Cardinality(DOMAIN cl) # 1
    PROVE  LET target == FoldTarget(d, h, cl, victim)
           IN /\ target \in DOMAIN cl /\ target # victim
              /\ NeighbourOf(d, h, Sets(cl), cl[victim], cl[target])
<1> DEFINE others == DOMAIN cl \ {victim}
           R == FoldOrder(d, h, cl, victim)
           target == FoldTarget(d, h, cl, victim)
           F == Sets(cl)
           V == cl[victim]
           T == cl[target]
<1>0. BagTyped(d, h, bag) /\ IsFiniteSet(bag)
  BY DEF Distinct, BagTyped
<1>1. Family(bag, F) /\ \A i, j \in DOMAIN cl : cl[i] = cl[j] => i = j
  BY <1>0, ClusterFamily
<1>2. TotalOn(others, R) /\ target = LeastOf(others, R)
  BY <1>0, FoldsInOrder
<1>3. IsFiniteSet(others) /\ others # {}
  <2>1. IsFiniteSet(DOMAIN cl)
    BY <1>0, ClusteringFacts
  <2>2. others # {}
    <3> SUFFICES ASSUME others = {}
                 PROVE  FALSE
      OBVIOUS
    <3>1. DOMAIN cl = {victim}
      OBVIOUS
    <3> QED
      BY <3>1, FS_Singleton
  <2> QED
    BY <2>1, <2>2, FS_Subset
<1>4. target \in others /\ \A x \in others \ {target} : <<target, x>> \in R
  <2> HIDE DEF R, others, target
  <2> QED
    BY <1>2, <1>3, LeastIs
<1> HIDE DEF target
<1>5. V \in F /\ T \in F /\ T # V
  BY <1>1, <1>4 DEF Sets
<1>6. ASSUME NEW X \in F, X # V, X # T
      PROVE  LET left == LinkSum(d, V, T) * LinkSize(V, X)
                 right == LinkSum(d, V, X) * LinkSize(V, T)
             IN left < right \/ (left = right /\ MinHash(h, T) < MinHash(h, X))
  <2>1. PICK x \in DOMAIN cl : X = cl[x]
    BY DEF Sets
  <2>2. x \in others \ {target}
    BY <1>6, <2>1
  <2>3. <<target, x>> \in R
    BY <1>4, <2>2
  <2> DEFINE left == LinkSum(d, V, T) * LinkSize(V, X)
             right == LinkSum(d, V, X) * LinkSize(V, T)
             a == MinHash(h, T)  c == MinHash(h, X)
  <2>4. left < right \/ (left = right /\ LexLess(<<a, target>>, <<c, x>>))
    BY <1>4, <2>1, <2>2, <2>3 DEF FoldOrder, RatioBefore
  <2>5. a \in Int /\ c \in Int /\ a # c
    <3> HIDE DEF F, V, T
    <3> QED
      BY <1>1, <1>5, <1>6, HashesDiffer
  <2>6. left < right \/ (left = right /\ (a < c \/ a = c))
    <3> HIDE DEF left, right, a, c
    <3> QED
      BY <2>4, TwoLess
  <2> HIDE DEF left, right, a, c
  <2>7. left < right \/ (left = right /\ a < c)
    BY <2>5, <2>6
  <2> QED
    BY <2>7 DEF left, right, a, c
<1>7. NeighbourOf(d, h, F, V, T)
  <2> HIDE DEF F, V, T
  <2> QED
    BY <1>5, <1>6 DEF NeighbourOf
<1>8. target \in DOMAIN cl /\ target # victim
  BY <1>4
<1> QED
  BY <1>7, <1>8 DEF target

LEMMA SmallestUnique ==
    ASSUME NEW bag, NEW d, NEW h, Distinct(d, h, bag), NEW F, Family(bag, F), NEW minSize,
           NEW V, SmallestOf(h, F, minSize, V), NEW W, SmallestOf(h, F, minSize, W)
    PROVE  V = W
<1> SUFFICES ASSUME V # W
             PROVE  FALSE
  OBVIOUS
<1> DEFINE a == Cardinality(V)  b == MinHash(h, V)
           c == Cardinality(W)  e == MinHash(h, W)
<1>1. V \in F /\ W \in F /\ a < minSize /\ c < minSize
  BY DEF SmallestOf
<1>2. (a < c \/ (a = c /\ b < e)) /\ (c < a \/ (c = a /\ e < b))
  BY <1>1 DEF SmallestOf
<1>3. b \in Int /\ e \in Int
  BY <1>1, HashesDiffer
<1>4. a \in Int /\ c \in Int
  <2>1. V \in SUBSET bag /\ W \in SUBSET bag /\ IsFiniteSet(bag)
    BY <1>1 DEF Family, Distinct, BagTyped
  <2>2. IsFiniteSet(V) /\ IsFiniteSet(W)
    BY <2>1, FS_Subset
  <2> QED
    BY <2>2, FS_CardinalityType
<1> HIDE DEF a, b, c, e
<1> QED
  BY <1>2, <1>3, <1>4

LEMMA NeighbourUnique ==
    ASSUME NEW bag, NEW d, NEW h, Distinct(d, h, bag), NEW F, Family(bag, F),
           NEW V, NEW S, NeighbourOf(d, h, F, V, S), NEW T, NeighbourOf(d, h, F, V, T)
    PROVE  S = T
<1> SUFFICES ASSUME S # T
             PROVE  FALSE
  OBVIOUS
<1> DEFINE left == LinkSum(d, V, S) * LinkSize(V, T)
           right == LinkSum(d, V, T) * LinkSize(V, S)
           a == MinHash(h, S)  c == MinHash(h, T)
<1>1. V \in F /\ S \in F /\ T \in F /\ S # V /\ T # V
  BY DEF NeighbourOf
<1>2. /\ left < right \/ (left = right /\ a < c)
      /\ right < left \/ (right = left /\ c < a)
  BY <1>1 DEF NeighbourOf
<1>3. left \in Int /\ right \in Int
  BY <1>1, NearerTyped
<1>4. a \in Int /\ c \in Int
  BY <1>1, HashesDiffer
<1> HIDE DEF left, right, a, c
<1> QED
  BY <1>2, <1>3, <1>4

LEMMA SmallestRenamed ==
    ASSUME NEW bag, NEW bag2, NEW d, NEW d2, NEW h, NEW h2,
           NEW s, Renames(s, bag, bag2, d, d2, h, h2), Distinct(d, h, bag),
           NEW F, Family(bag, F), NEW minSize, NEW V, SmallestOf(h, F, minSize, V)
    PROVE  SmallestOf(h2, Images(s, F), minSize, Img(s, V))
<1>0. IsFiniteSet(bag) /\ F \subseteq SUBSET bag
  BY DEF Distinct, BagTyped, Family
<1>1. \A X \in F : /\ MinHash(h2, Img(s, X)) = MinHash(h, X)
                   /\ Cardinality(Img(s, X)) = Cardinality(X)
  <2> TAKE X \in F
  <2>1. X \in SUBSET bag /\ IsFiniteSet(X) /\ \A i, j \in X : s[i] = s[j] => i = j
    BY <1>0, FS_Subset DEF Renames
  <2>2. MinHash(h2, Img(s, X)) = MinHash(h, X)
    BY <2>1, HashRenamed
  <2>3. Cardinality(Img(s, X)) = Cardinality(X)
    BY <2>1, ImageSize
  <2> QED
    BY <2>2, <2>3
<1>2. V \in F /\ Cardinality(V) < minSize
  BY DEF SmallestOf
<1>3. Img(s, V) \in Images(s, F) /\ Cardinality(Img(s, V)) < minSize
  BY <1>1, <1>2 DEF Images
<1>4. ASSUME NEW Y \in Images(s, F), Y # Img(s, V), Cardinality(Y) < minSize
      PROVE  \/ Cardinality(Img(s, V)) < Cardinality(Y)
             \/ Cardinality(Img(s, V)) = Cardinality(Y) /\ MinHash(h2, Img(s, V)) < MinHash(h2, Y)
  <2>1. PICK X \in F : Y = Img(s, X)
    BY DEF Images
  <2>2. X # V /\ Cardinality(X) < minSize
    BY <1>1, <1>4, <2>1
  <2>3. \/ Cardinality(V) < Cardinality(X)
        \/ Cardinality(V) = Cardinality(X) /\ MinHash(h, V) < MinHash(h, X)
    BY <2>2 DEF SmallestOf
  <2>4. /\ MinHash(h2, Y) = MinHash(h, X) /\ Cardinality(Y) = Cardinality(X)
        /\ MinHash(h2, Img(s, V)) = MinHash(h, V) /\ Cardinality(Img(s, V)) = Cardinality(V)
    BY <1>1, <1>2, <2>1
  <2> QED
    BY <2>3, <2>4
<1> QED
  BY <1>3, <1>4 DEF SmallestOf

LEMMA NeighbourRenamed ==
    ASSUME NEW bag, NEW bag2, NEW d, NEW d2, NEW h, NEW h2,
           NEW s, Renames(s, bag, bag2, d, d2, h, h2), Distinct(d, h, bag),
           NEW F, Family(bag, F), NEW V, NEW T, NeighbourOf(d, h, F, V, T)
    PROVE  NeighbourOf(d2, h2, Images(s, F), Img(s, V), Img(s, T))
<1>0. IsFiniteSet(bag) /\ Distances(d, bag) /\ F \subseteq SUBSET bag
  BY DEF Distinct, BagTyped, Family
<1>1. V \in F /\ T \in F /\ T # V
  BY DEF NeighbourOf
<1>2. \A X \in F : /\ MinHash(h2, Img(s, X)) = MinHash(h, X)
                   /\ LinkSum(d2, Img(s, V), Img(s, X)) = LinkSum(d, V, X)
                   /\ LinkSize(Img(s, V), Img(s, X)) = LinkSize(V, X)
  <2> TAKE X \in F
  <2>1. /\ X \in SUBSET bag /\ IsFiniteSet(X) /\ \A i, j \in X : s[i] = s[j] => i = j
        /\ V \in SUBSET bag /\ IsFiniteSet(V) /\ \A i, j \in V : s[i] = s[j] => i = j
    BY <1>0, <1>1, FS_Subset DEF Renames
  <2>2. MinHash(h2, Img(s, X)) = MinHash(h, X)
    BY <2>1, HashRenamed
  <2>3. Cardinality(Img(s, X)) = Cardinality(X) /\ Cardinality(Img(s, V)) = Cardinality(V)
    BY <2>1, ImageSize
  <2>4. LinkSum(d2, Img(s, V), Img(s, X)) = LinkSum(d, V, X)
    BY <1>0, <2>1, LinkRenamed
  <2> QED
    BY <2>2, <2>3, <2>4 DEF LinkSize
<1>3. \A X, Y \in SUBSET bag : Img(s, X) = Img(s, Y) => X = Y
  BY ImagesFacts
<1>4. /\ Img(s, V) \in Images(s, F) /\ Img(s, T) \in Images(s, F)
      /\ Img(s, T) # Img(s, V)
  BY <1>0, <1>1, <1>3 DEF Images
<1>5. ASSUME NEW Y \in Images(s, F), Y # Img(s, V), Y # Img(s, T)
      PROVE  LET left == LinkSum(d2, Img(s, V), Img(s, T)) * LinkSize(Img(s, V), Y)
                 right == LinkSum(d2, Img(s, V), Y) * LinkSize(Img(s, V), Img(s, T))
             IN left < right \/ (left = right /\ MinHash(h2, Img(s, T)) < MinHash(h2, Y))
  <2>1. PICK X \in F : Y = Img(s, X)
    BY DEF Images
  <2>2. X # V /\ X # T
    BY <1>5, <2>1
  <2>3. LET left == LinkSum(d, V, T) * LinkSize(V, X)
            right == LinkSum(d, V, X) * LinkSize(V, T)
        IN left < right \/ (left = right /\ MinHash(h, T) < MinHash(h, X))
    BY <2>2 DEF NeighbourOf
  <2> QED
    BY <1>1, <1>2, <2>1, <2>3
<1> QED
  BY <1>4, <1>5 DEF NeighbourOf

\* A round of the repair folds the same categories under both numberings.
LEMMA MergeSmallestMatches ==
    ASSUME NEW bag, bag # {}, NEW bag2, bag2 # {}, NEW d, NEW d2, NEW h, NEW h2,
           NEW s, Renames(s, bag, bag2, d, d2, h, h2),
           Distinct(d, h, bag), Distinct(d2, h2, bag2), NEW minSize,
           NEW cl \in Clusterings(bag), NEW cl2 \in Clusterings(bag2), Matches(s, cl, cl2)
    PROVE  Matches(s, MergeSmallest(d, h, cl, minSize), MergeSmallest(d2, h2, cl2, minSize))
<1> DEFINE small == Undersized(cl, minSize)
           victim == LeastOf(small, VictimOrder(h, cl, small))
           target == FoldTarget(d, h, cl, victim)
           small2 == Undersized(cl2, minSize)
           victim2 == LeastOf(small2, VictimOrder(h2, cl2, small2))
           target2 == FoldTarget(d2, h2, cl2, victim2)
           V == cl[victim]  T == cl[target]
           W == cl2[victim2]  U == cl2[target2]
           F == Sets(cl)
<1>0. IsFiniteSet(bag) /\ IsFiniteSet(bag2)
  BY DEF Distinct, BagTyped
<1>1. Cardinality(DOMAIN cl) = Cardinality(DOMAIN cl2)
  BY <1>0, MatchesCount
<1>2. Family(bag, F) /\ Family(bag2, Sets(cl2)) /\ Sets(cl2) = Images(s, F)
  BY <1>0, ClusterFamily DEF Matches
<1>3. small = {} <=> small2 = {}
  <2>1. \A X \in F : Cardinality(Img(s, X)) = Cardinality(X)
    <3> TAKE X \in F
    <3>1. X \in SUBSET bag
      <4> HIDE DEF F
      <4> QED
        BY <1>2 DEF Family
    <3>2. IsFiniteSet(X) /\ \A i, j \in X : s[i] = s[j] => i = j
      BY <1>0, <3>1, FS_Subset DEF Renames
    <3> QED
      BY <3>2, ImageSize
  <2>2. small = {} <=> \A X \in F : ~(Cardinality(X) < minSize)
    BY DEF Undersized, Sets
  <2>3. small2 = {} <=> \A Y \in Sets(cl2) : ~(Cardinality(Y) < minSize)
    BY DEF Undersized, Sets
  <2> HIDE DEF F, small, small2
  <2>4. (\A Y \in Images(s, F) : ~(Cardinality(Y) < minSize))
           <=> \A X \in F : ~(Cardinality(X) < minSize)
    BY <2>1 DEF Images
  <2> QED
    BY <1>2, <2>2, <2>3, <2>4
<1>4. /\ MergeSmallest(d, h, cl, minSize) =
           IF Cardinality(DOMAIN cl) = 1 \/ small = {} THEN cl ELSE Absorb(cl, target, victim)
      /\ MergeSmallest(d2, h2, cl2, minSize) =
           IF Cardinality(DOMAIN cl2) = 1 \/ small2 = {} THEN cl2
           ELSE Absorb(cl2, target2, victim2)
  BY MergesSmallest
<1>5. CASE Cardinality(DOMAIN cl) = 1 \/ small = {}
  <2>1. MergeSmallest(d, h, cl, minSize) = cl /\ MergeSmallest(d2, h2, cl2, minSize) = cl2
    BY <1>1, <1>3, <1>4, <1>5
  <2> QED
    BY <2>1
<1>6. CASE ~(Cardinality(DOMAIN cl) = 1 \/ small = {})
  <2>1. /\ MergeSmallest(d, h, cl, minSize) = Absorb(cl, target, victim)
        /\ MergeSmallest(d2, h2, cl2, minSize) = Absorb(cl2, target2, victim2)
    BY <1>1, <1>3, <1>4, <1>6
  <2>2. victim \in DOMAIN cl /\ SmallestOf(h, F, minSize, V)
    BY <1>6, VictimIsSmallest
  <2>3. victim2 \in DOMAIN cl2 /\ SmallestOf(h2, Sets(cl2), minSize, W)
    <3>1. Undersized(cl2, minSize) # {}
      BY <1>3, <1>6
    <3> QED
      BY <3>1, VictimIsSmallest
  <2> HIDE DEF victim, victim2
  <2>4. target \in DOMAIN cl /\ target # victim /\ NeighbourOf(d, h, F, V, T)
    BY <1>6, <2>2, TargetIsNeighbour
  <2>5. /\ target2 \in DOMAIN cl2 /\ target2 # victim2
        /\ NeighbourOf(d2, h2, Sets(cl2), W, U)
    <3>1. Cardinality(DOMAIN cl2) # 1
      BY <1>1, <1>6
    <3> QED
      BY <2>3, <3>1, TargetIsNeighbour
  <2>6. /\ Sets(Absorb(cl, target, victim)) = Merged(F, T, V)
        /\ Sets(Absorb(cl2, target2, victim2)) = Merged(Sets(cl2), U, W)
    <3> HIDE DEF target, target2
    <3> QED
      BY <1>0, <2>2, <2>3, <2>4, <2>5, AbsorbSets
  <2> HIDE DEF target, target2, V, T, W, U, F, small, small2
  <2>7. SmallestOf(h2, Images(s, F), minSize, Img(s, V))
    BY <1>2, <2>2, SmallestRenamed
  <2>8. W = Img(s, V)
    BY <1>2, <2>3, <2>7, SmallestUnique
  <2>9. NeighbourOf(d2, h2, Images(s, F), Img(s, V), Img(s, T))
    BY <1>2, <2>4, NeighbourRenamed
  <2>10. U = Img(s, T)
    BY <1>2, <2>5, <2>8, <2>9, NeighbourUnique
  <2>11. V \in F /\ T \in F
    BY <2>4 DEF NeighbourOf
  <2>12. Images(s, Merged(F, T, V)) = Merged(Images(s, F), Img(s, T), Img(s, V))
    BY <1>2, <2>11, ImagesMerged
  <2> QED
    BY <1>2, <2>1, <2>6, <2>8, <2>10, <2>12 DEF Matches
<1> QED
  BY <1>5, <1>6

\* Renaming the rows renames the categories.
THEOREM CategoriesRenamed ==
    ASSUME NEW bag, bag # {}, NEW bag2, bag2 # {}, NEW d, NEW d2, NEW h, NEW h2,
           NEW s, Renames(s, bag, bag2, d, d2, h, h2),
           Distinct(d, h, bag), Distinct(d2, h2, bag2), NEW cut, NEW minSize
    PROVE  Matches(s, Categories(d, bag, h, cut, minSize), Categories(d2, bag2, h2, cut, minSize))
<1> DEFINE start == [i \in bag |-> {i}]
           start2 == [i \in bag2 |-> {i}]
           merged == Agglomerate(d, h, start, cut)
           merged2 == Agglomerate(d2, h2, start2, cut)
<1>0. /\ IsFiniteSet(bag) /\ IsFiniteSet(bag2)
      /\ BagTyped(d, h, bag) /\ BagTyped(d2, h2, bag2)
  BY DEF Distinct, BagTyped
<1>1. start \in Clusterings(bag) /\ start2 \in Clusterings(bag2)
  BY Singletons
<1>2. Matches(s, start, start2)
  <2>1. Sets(start) = {{i} : i \in bag} /\ Sets(start2) = {{i} : i \in bag2}
    BY DEF Sets
  <2>2. \A i \in bag : Img(s, {i}) = {s[i]} /\ s[i] \in bag2
    BY DEF Img, Renames
  <2> DEFINE F == {{i} : i \in bag}
  <2>3. Images(s, F) = {{s[i]} : i \in bag}
    <3>1. ASSUME NEW Y \in Images(s, F)
          PROVE  Y \in {{s[i]} : i \in bag}
      <4>1. PICK A \in F : Y = Img(s, A)
        <5> HIDE DEF F
        <5> QED
          BY DEF Images
      <4>2. PICK i \in bag : A = {i}
        BY <4>1
      <4> QED
        BY <2>2, <4>1, <4>2
    <3>2. ASSUME NEW i \in bag
          PROVE  {s[i]} \in Images(s, F)
      <4>1. {i} \in F
        OBVIOUS
      <4>2. Img(s, {i}) \in Images(s, F)
        <5> HIDE DEF F
        <5> QED
          BY <4>1 DEF Images
      <4> QED
        BY <2>2, <4>2
    <3> HIDE DEF F
    <3> QED
      BY <3>1, <3>2
  <2>4. {{s[i]} : i \in bag} = {{i} : i \in bag2}
    <3>1. \A x \in bag2 : \E i \in bag : s[i] = x
      BY DEF Renames
    <3> QED
      BY <2>2, <3>1
  <2> QED
    BY <2>1, <2>3, <2>4 DEF Matches
<1>3. /\ Categories(d, bag, h, cut, minSize) = MergeUndersized(d, h, merged, minSize)
      /\ Categories(d2, bag2, h2, cut, minSize) = MergeUndersized(d2, h2, merged2, minSize)
  BY DEF Categories
<1> HIDE DEF start, start2
<1>4. /\ merged \in Clusterings(bag) /\ merged2 \in Clusterings(bag2)
      /\ Matches(s, merged, merged2)
  <2> DEFINE N == Cardinality(DOMAIN start)
  <2>1. PICK f : MergeRun(d, h, bag, start, cut, f)
    BY <1>0, <1>1, AgglomerateClusters
  <2>2. PICK g : MergeRun(d2, h2, bag2, start2, cut, g)
    BY <1>0, <1>1, AgglomerateClusters
  <2>3. N = Cardinality(DOMAIN start2) /\ N \in Nat
    BY <1>0, <1>1, <1>2, MatchesCount, ManyClusters
  <2>4. /\ f \in [0..N -> Clusterings(bag)] /\ f[0] = start /\ merged = f[N]
        /\ \A n \in 1..N : f[n] = MergeNearest(d, h, f[n - 1], cut)
    BY <2>1 DEF MergeRun
  <2>5. /\ g \in [0..N -> Clusterings(bag2)] /\ g[0] = start2 /\ merged2 = g[N]
        /\ \A n \in 1..N : g[n] = MergeNearest(d2, h2, g[n - 1], cut)
    BY <2>2, <2>3 DEF MergeRun
  <2> HIDE DEF N, merged, merged2
  <2> DEFINE Q == {n \in Nat : n \in 0..N => Matches(s, f[n], g[n])}
  <2>6. 0 \in Q
    BY <1>2, <2>4, <2>5
  <2>7. ASSUME NEW n \in Nat, n \in Q
        PROVE  n + 1 \in Q
    <3> SUFFICES ASSUME n + 1 \in 0..N
                 PROVE  Matches(s, f[n + 1], g[n + 1])
      OBVIOUS
    <3>1. n \in 0..N /\ n + 1 \in 1..N /\ (n + 1) - 1 = n
      BY <2>3
    <3>2. f[n] \in Clusterings(bag) /\ g[n] \in Clusterings(bag2) /\ Matches(s, f[n], g[n])
      BY <2>4, <2>5, <2>7, <3>1
    <3>3. /\ f[n + 1] = MergeNearest(d, h, f[n], cut)
          /\ g[n + 1] = MergeNearest(d2, h2, g[n], cut)
      BY <2>4, <2>5, <3>1
    <3>4. Matches(s, MergeNearest(d, h, f[n], cut), MergeNearest(d2, h2, g[n], cut))
      <4> DEFINE x == f[n]  y == g[n]
      <4>1. x \in Clusterings(bag) /\ y \in Clusterings(bag2) /\ Matches(s, x, y)
        BY <3>2
      <4> HIDE DEF x, y, Q
      <4>2. Matches(s, MergeNearest(d, h, x, cut), MergeNearest(d2, h2, y, cut))
        BY <4>1, MergeNearestMatches
      <4> QED
        BY <4>2 DEF x, y
    <3> QED
      BY <3>3, <3>4
  <2>8. N \in Q
    <3> HIDE DEF Q
    <3> QED
      BY <2>3, <2>6, <2>7, NatInduct
  <2>9. N \in 0..N
    BY <2>3
  <2> QED
    BY <2>4, <2>5, <2>8, <2>9
<1> HIDE DEF merged, merged2
<1>5. Matches(s, MergeUndersized(d, h, merged, minSize), MergeUndersized(d2, h2, merged2, minSize))
  <2> DEFINE N == Cardinality(DOMAIN merged)
             last == MergeUndersized(d, h, merged, minSize)
             last2 == MergeUndersized(d2, h2, merged2, minSize)
  <2>1. PICK f : RepairRun(d, h, bag, merged, minSize, f)
    BY <1>0, <1>4, MergeUndersizedClusters
  <2>2. PICK g : RepairRun(d2, h2, bag2, merged2, minSize, g)
    BY <1>0, <1>4, MergeUndersizedClusters
  <2>3. N = Cardinality(DOMAIN merged2) /\ N \in Nat
    BY <1>0, <1>4, MatchesCount, ManyClusters
  <2>4. /\ f \in [0..N -> Clusterings(bag)] /\ f[0] = merged /\ last = f[N]
        /\ \A n \in 1..N : f[n] = MergeSmallest(d, h, f[n - 1], minSize)
    BY <2>1 DEF RepairRun
  <2>5. /\ g \in [0..N -> Clusterings(bag2)] /\ g[0] = merged2 /\ last2 = g[N]
        /\ \A n \in 1..N : g[n] = MergeSmallest(d2, h2, g[n - 1], minSize)
    BY <2>2, <2>3 DEF RepairRun
  <2> HIDE DEF N, last, last2
  <2> DEFINE Q == {n \in Nat : n \in 0..N => Matches(s, f[n], g[n])}
  <2>6. 0 \in Q
    BY <1>4, <2>4, <2>5
  <2>7. ASSUME NEW n \in Nat, n \in Q
        PROVE  n + 1 \in Q
    <3> SUFFICES ASSUME n + 1 \in 0..N
                 PROVE  Matches(s, f[n + 1], g[n + 1])
      OBVIOUS
    <3>1. n \in 0..N /\ n + 1 \in 1..N /\ (n + 1) - 1 = n
      BY <2>3
    <3>2. f[n] \in Clusterings(bag) /\ g[n] \in Clusterings(bag2) /\ Matches(s, f[n], g[n])
      BY <2>4, <2>5, <2>7, <3>1
    <3>3. /\ f[n + 1] = MergeSmallest(d, h, f[n], minSize)
          /\ g[n + 1] = MergeSmallest(d2, h2, g[n], minSize)
      BY <2>4, <2>5, <3>1
    <3>4. Matches(s, MergeSmallest(d, h, f[n], minSize), MergeSmallest(d2, h2, g[n], minSize))
      <4> DEFINE x == f[n]  y == g[n]
      <4>1. x \in Clusterings(bag) /\ y \in Clusterings(bag2) /\ Matches(s, x, y)
        BY <3>2
      <4> HIDE DEF x, y, Q
      <4>2. Matches(s, MergeSmallest(d, h, x, minSize), MergeSmallest(d2, h2, y, minSize))
        BY <4>1, MergeSmallestMatches
      <4> QED
        BY <4>2 DEF x, y
    <3> QED
      BY <3>3, <3>4
  <2>8. N \in Q
    <3> HIDE DEF Q
    <3> QED
      BY <2>3, <2>6, <2>7, NatInduct
  <2>9. N \in 0..N
    BY <2>3
  <2>10. Matches(s, f[N], g[N])
    BY <2>8, <2>9
  <2>11. Matches(s, last, last2)
    BY <2>4, <2>5, <2>10
  <2> QED
    BY <2>11 DEF last, last2
<1> QED
  BY <1>3, <1>5

\* An input of the partition: distances without direction, and hashes that differ.
PartitionInput ==
    input.kind = "partition" =>
        /\ input.d \in [1..4 -> [1..4 -> Int]]
        /\ \A i, j \in 1..4 : input.d[i][j] = input.d[j][i]
        /\ input.h \in [1..4 -> Int]
        /\ \A i, j \in 1..4 : input.h[i] = input.h[j] => i = j
        /\ input.minSize \in Int

Exchange(i) == [j \in 1..4 |-> IF j = i THEN i + 1 ELSE IF j = i + 1 THEN i ELSE j]

Exchanged(d, i) == [j \in 1..4 |-> SwapItems(SwapItems(d, i)[j], i)]

LEMMA FourRows ==
    /\ IsFiniteSet(1..4) /\ 1..4 # {} /\ 1..4 \subseteq Int /\ 1..4 \subseteq Nat
    /\ 1 \in 1..4
<1>1. 1 \in Int /\ 4 \in Int
  OBVIOUS
<1>2. IsFiniteSet(1..4)
  BY <1>1, FS_Interval
<1> QED
  BY <1>2

LEMMA ExchangeRenames ==
    ASSUME NEW d \in [1..4 -> [1..4 -> Int]], NEW h \in [1..4 -> Int], NEW i \in 1..3
    PROVE  Renames(Exchange(i), 1..4, 1..4, d, Exchanged(d, i), h, SwapItems(h, i))
<1> DEFINE s == Exchange(i)
           h2 == SwapItems(h, i)
           d2 == Exchanged(d, i)
<1>1. i \in 1..4 /\ i + 1 \in 1..4 /\ i # i + 1
  OBVIOUS
<1>2. \A j \in 1..4 : s[j] = IF j = i THEN i + 1 ELSE IF j = i + 1 THEN i ELSE j
  BY DEF Exchange
<1>3. s \in [1..4 -> 1..4]
  BY <1>1 DEF Exchange
<1> HIDE DEF s
<1>4. \A j \in 1..4 : s[j] \in 1..4 /\ s[s[j]] = j
  BY <1>1, <1>2
<1>5. ASSUME NEW V, NEW x \in [1..4 -> V], NEW j \in 1..4
      PROVE  SwapItems(x, i)[j] = x[s[j]]
  <2>1. CASE j = i
    BY <1>1, <1>2, <2>1 DEF SwapItems
  <2>2. CASE j = i + 1
    BY <1>1, <1>2, <2>2 DEF SwapItems
  <2>3. CASE j # i /\ j # i + 1
    BY <1>1, <1>2, <2>3 DEF SwapItems
  <2> QED
    BY <2>1, <2>2, <2>3
<1>6. ASSUME NEW j \in 1..4, NEW k \in 1..4
      PROVE  d2[j][k] = d[s[j]][s[k]]
  <2>1. d2[j] = SwapItems(SwapItems(d, i)[j], i)
    BY DEF Exchanged
  <2>2. SwapItems(d, i)[j] = d[s[j]] /\ d[s[j]] \in [1..4 -> Int]
    BY <1>4, <1>5
  <2> QED
    BY <1>5, <2>1, <2>2
<1>7. \A j \in 1..4 : h2[j] = h[s[j]]
  BY <1>5
<1> HIDE DEF h2, d2
<1>8. ASSUME NEW j \in 1..4, NEW k \in 1..4
      PROVE  d2[s[j]][s[k]] = d[j][k]
  <2>1. s[j] \in 1..4 /\ s[k] \in 1..4 /\ s[s[j]] = j /\ s[s[k]] = k
    BY <1>4
  <2>2. d2[s[j]][s[k]] = d[s[s[j]]][s[s[k]]]
    BY <1>6, <2>1
  <2> QED
    BY <2>1, <2>2
<1>9. \A j \in 1..4 : h2[s[j]] = h[j]
  BY <1>4, <1>7
<1>10. /\ \A j, k \in 1..4 : s[j] = s[k] => j = k
       /\ \A y \in 1..4 : \E j \in 1..4 : s[j] = y
  BY <1>4
<1>11. Renames(s, 1..4, 1..4, d, d2, h, h2)
  BY <1>3, <1>8, <1>9, <1>10 DEF Renames
<1> QED
  BY <1>11 DEF s, d2, h2

LEMMA ExchangedCategories ==
    ASSUME NEW d \in [1..4 -> [1..4 -> Int]], NEW h \in [1..4 -> Int], NEW i \in 1..3,
           \A j, k \in 1..4 : d[j][k] = d[k][j], \A j, k \in 1..4 : h[j] = h[k] => j = k,
           NEW cut, NEW minSize
    PROVE  Sets(Categories(Exchanged(d, i), 1..4, SwapItems(h, i), cut, minSize))
             = {SwapIn(S, i) : S \in Sets(Categories(d, 1..4, h, cut, minSize))}
<1> DEFINE bag == 1..4
           s == Exchange(i)
           h2 == SwapItems(h, i)
           d2 == Exchanged(d, i)
           C == Sets(Categories(d, bag, h, cut, minSize))
<1>1. Renames(s, bag, bag, d, d2, h, h2)
  BY ExchangeRenames
<1>2. IsFiniteSet(bag) /\ bag # {} /\ bag \subseteq Int
  BY FourRows
<1>3. Distinct(d, h, bag)
  BY <1>2 DEF Distinct, BagTyped, Distances
<1>4. \A j \in bag : s[j] = IF j = i THEN i + 1 ELSE IF j = i + 1 THEN i ELSE j
  BY DEF Exchange
<1> HIDE DEF bag, s, h2, d2
<1>5. Distinct(d2, h2, bag)
  BY <1>1, <1>2, <1>3, DistinctRenamed
<1>6. Matches(s, Categories(d, bag, h, cut, minSize), Categories(d2, bag, h2, cut, minSize))
  BY <1>1, <1>2, <1>3, <1>5, CategoriesRenamed
<1>7. Sets(Categories(d2, bag, h2, cut, minSize)) = Images(s, C)
  BY <1>6 DEF Matches
<1>8. C \subseteq SUBSET bag
  <2> DEFINE cl == Categories(d, bag, h, cut, minSize)
  <2>1. cl \in Clusterings(bag)
    BY <1>2, <1>3, CategoriesAreClusters DEF Distinct
  <2> HIDE DEF cl
  <2>2. Family(bag, Sets(cl))
    BY <1>2, <2>1, ClusterFamily
  <2> QED
    BY <2>2 DEF Family, cl
<1> HIDE DEF C
<1>9. \A S \in C : Img(s, S) = SwapIn(S, i)
  BY <1>4, <1>8 DEF Img, SwapIn
<1>10. Images(s, C) = {SwapIn(S, i) : S \in C}
  BY <1>9 DEF Images
<1> QED
  BY <1>7, <1>10 DEF bag, s, h2, d2, C

\* A category is not below the minimum, or it holds every row.
LEMMA CategoriesLarge ==
    ASSUME NEW bag, bag # {}, NEW d, NEW h, BagTyped(d, h, bag), NEW cut, NEW minSize \in Int,
           NEW S \in Sets(Categories(d, bag, h, cut, minSize))
    PROVE  Cardinality(S) >= minSize \/ S = bag
<1> DEFINE cl == Categories(d, bag, h, cut, minSize)
<1>1. cl \in Clusterings(bag) /\ Settled(cl, minSize)
  BY CategoriesAreClusters
<1> HIDE DEF cl
<1>2. PICK id \in DOMAIN cl : S = cl[id]
  BY DEF Sets, cl
<1>3. /\ IsFiniteSet(DOMAIN cl) /\ cl[id] \in SUBSET bag /\ Cardinality(cl[id]) \in Int
      /\ \A x \in bag : \E j \in DOMAIN cl : x \in cl[j]
  BY <1>1, ClusteringFacts DEF BagTyped, Clusterings
<1>4. CASE Undersized(cl, minSize) = {}
  <2>1. ~(Cardinality(S) < minSize)
    BY <1>2, <1>4 DEF Undersized
  <2> QED
    BY <1>2, <1>3, <2>1
<1>5. CASE Cardinality(DOMAIN cl) = 1
  <2>1. \A j \in DOMAIN cl : j = id
    <3>1. PICK e : DOMAIN cl = {e}
      BY <1>3, <1>5, FS_Singleton
    <3> QED
      BY <3>1
  <2> QED
    BY <1>2, <1>3, <2>1
<1> QED
  BY <1>1, <1>4, <1>5 DEF Settled

\* References are grouped as a set: exchanging two neighbouring rows exchanges them in
\* the categories, no category is left below the minimum unless it is alone, and the
\* near-duplicate groups are the connected components; for every symmetric matrix of
\* four rows, every minimum and every cut.
THEOREM GroupingNeverFollowsOrder ==
    ASSUME PartitionInput
    PROVE  GroupingIgnoresOrder
<1> SUFFICES ASSUME input.kind = "partition"
             PROVE  GroupingIgnoresOrder
  BY DEF GroupingIgnoresOrder
<1> DEFINE d == input.d  h == input.h  cut == input.cut  minSize == input.minSize
<1>1. /\ d \in [1..4 -> [1..4 -> Int]] /\ h \in [1..4 -> Int] /\ minSize \in Int
      /\ \A i, j \in 1..4 : d[i][j] = d[j][i]
      /\ \A i, j \in 1..4 : h[i] = h[j] => i = j
  BY DEF PartitionInput
<1> HIDE DEF d, h, cut, minSize
<1>2. \A e, k : CategorySets(e, k) = Sets(Categories(e, 1..4, k, cut, minSize))
  BY DEF CategorySets, Sets, cut, minSize
<1>3. ASSUME NEW i \in 1..3
      PROVE  CategorySets(Exchanged(d, i), SwapItems(h, i))
               = {SwapIn(S, i) : S \in CategorySets(d, h)}
  BY <1>1, <1>2, ExchangedCategories
<1>4. ASSUME NEW S \in CategorySets(d, h)
      PROVE  Cardinality(S) >= minSize \/ S = 1..4
  <2>1. BagTyped(d, h, 1..4)
    BY <1>1, FourRows DEF BagTyped, Distances
  <2>2. S \in Sets(Categories(d, 1..4, h, cut, minSize))
    BY <1>2
  <2> QED
    BY <1>1, <2>1, <2>2, FourRows, CategoriesLarge
<1>5. ASSUME NEW c \in 1..2
      PROVE  Components(d, 1..4, c, DuplicateGroups(d, 1..4, c))
  <2>1. c \in Int
    OBVIOUS
  <2>2. \A i, j \in 1..4 : d[i][j] \in Int /\ d[i][j] = d[j][i]
    BY <1>1
  <2> QED
    BY <2>1, <2>2, FourRows, GroupsAreComponents
<1>6. \A i \in 1..3 :
        LET swapped == [j \in 1..4 |-> SwapItems(SwapItems(d, i)[j], i)]
        IN CategorySets(swapped, SwapItems(h, i)) = {SwapIn(S, i) : S \in CategorySets(d, h)}
  BY <1>3 DEF Exchanged
<1>7. \A c \in 1..2 :
        LET groups == DuplicateGroups(d, 1..4, c)
        IN /\ UNION groups = 1..4
           /\ \A g \in groups : Linked(d, g, c)
           /\ \A f, g \in groups : f # g =>
                 f \cap g = {} /\ \A a \in f, b \in g : d[a][b] > c
  BY <1>5 DEF Components
<1> QED
  BY <1>4, <1>6, <1>7 DEF GroupingIgnoresOrder, d, h, minSize

-----------------------------------------------------------------------------
(* The effective size of a board depends on its bag of rows only.           *)

LEMMA GroupsNotEmpty ==
    ASSUME NEW d, NEW refs, NEW cut
    PROVE  {} \notin DuplicateGroups(d, refs, cut)
<1>1. PICK parent : DuplicateGroups(d, refs, cut)
        = {{j \in refs : Root(parent, j) = r} : r \in {Root(parent, i) : i \in refs}}
  BY DEF DuplicateGroups
<1> QED
  BY <1>1

\* There is one way to cut a set of rows into connected components.
LEMMA ComponentsUnique ==
    ASSUME NEW d, NEW refs, NEW cut \in Int, \A i, j \in refs : d[i][j] \in Int,
           NEW P, Components(d, refs, cut, P), {} \notin P,
           NEW Q, Components(d, refs, cut, Q), {} \notin Q
    PROVE  P \subseteq Q
<1> SUFFICES ASSUME NEW g \in P
             PROVE  g \in Q
  OBVIOUS
<1>1. PICK a \in g : TRUE
  OBVIOUS
<1>2. UNION P = refs /\ UNION Q = refs
  BY DEF Components
<1>3. PICK h \in Q : a \in h
  BY <1>1, <1>2
<1>4. g \subseteq refs /\ h \subseteq refs
  BY <1>2
<1>5. g \subseteq h
  <2> SUFFICES ASSUME g \cap h # g
               PROVE  FALSE
    OBVIOUS
  <2> DEFINE A == g \cap h
  <2>1. A \in (SUBSET g) \ {{}, g}
    BY <1>1, <1>3
  <2>2. Linked(d, g, cut)
    BY DEF Components
  <2>3. PICK i \in A, j \in g \ A : d[i][j] <= cut
    BY <2>1, <2>2 DEF Linked
  <2>4. j \in refs /\ i \in refs
    BY <1>4, <2>3
  <2>5. PICK k \in Q : j \in k
    BY <1>2, <2>4
  <2>6. i \in h /\ k # h
    BY <2>3, <2>5
  <2>7. d[i][j] > cut
    BY <2>5, <2>6 DEF Components
  <2>8. d[i][j] \in Int
    BY <2>4
  <2> QED
    BY <2>3, <2>7, <2>8
<1>6. h \subseteq g
  <2> SUFFICES ASSUME h \cap g # h
               PROVE  FALSE
    OBVIOUS
  <2> DEFINE A == h \cap g
  <2>1. A \in (SUBSET h) \ {{}, h}
    BY <1>1, <1>3
  <2>2. Linked(d, h, cut)
    BY DEF Components
  <2>3. PICK i \in A, j \in h \ A : d[i][j] <= cut
    BY <2>1, <2>2 DEF Linked
  <2>4. j \in refs /\ i \in refs
    BY <1>4, <2>3
  <2>5. PICK k \in P : j \in k
    BY <1>2, <2>4
  <2>6. i \in g /\ k # g
    BY <2>3, <2>5
  <2>7. d[i][j] > cut
    BY <2>5, <2>6 DEF Components
  <2>8. d[i][j] \in Int
    BY <2>4
  <2> QED
    BY <2>3, <2>7, <2>8
<1> QED
  BY <1>5, <1>6

\* The components of renamed rows are the renamed components.
LEMMA ComponentsRenamed ==
    ASSUME NEW bag, NEW bag2, NEW d, NEW d2, NEW h, NEW h2,
           NEW s, Renames(s, bag, bag2, d, d2, h, h2),
           NEW cut, NEW P, Components(d, bag, cut, P)
    PROVE  Components(d2, bag2, cut, Images(s, P))
<1>1. /\ s \in [bag -> bag2] /\ \A i, j \in bag : s[i] = s[j] => i = j
      /\ \A y \in bag2 : \E i \in bag : s[i] = y
      /\ \A i, j \in bag : d2[s[i]][s[j]] = d[i][j]
  BY DEF Renames
<1>2. /\ UNION P = bag
      /\ \A g \in P : Linked(d, g, cut)
      /\ \A f, g \in P : f # g => f \cap g = {} /\ \A a \in f, b \in g : d[a][b] > cut
  BY DEF Components
<1>3. \A g \in P : g \in SUBSET bag
  BY <1>2
<1>4. UNION Images(s, P) = bag2
  <2>1. ASSUME NEW y \in bag2
        PROVE  y \in UNION Images(s, P)
    <3>1. PICK i \in bag : s[i] = y
      BY <1>1
    <3>2. PICK g \in P : i \in g
      BY <1>2
    <3>3. y \in Img(s, g) /\ Img(s, g) \in Images(s, P)
      BY <3>1, <3>2 DEF Img, Images
    <3> QED
      BY <3>3
  <2>2. ASSUME NEW Y \in Images(s, P)
        PROVE  Y \subseteq bag2
    <3>1. PICK g \in P : Y = Img(s, g)
      BY DEF Images
    <3> QED
      BY <1>1, <1>3, <3>1 DEF Img
  <2> QED
    BY <2>1, <2>2
<1>5. ASSUME NEW Y \in Images(s, P)
      PROVE  Linked(d2, Y, cut)
  <2>1. PICK g \in P : Y = Img(s, g)
    BY DEF Images
  <2>2. g \in SUBSET bag /\ Linked(d, g, cut)
    BY <1>2, <1>3
  <2> SUFFICES ASSUME NEW A \in (SUBSET Y) \ {{}, Y}
               PROVE  \E i \in A, j \in Y \ A : d2[i][j] <= cut
    BY DEF Linked
  <2> DEFINE B == {i \in g : s[i] \in A}
  <2>3. B \in (SUBSET g) \ {{}, g}
    BY <2>1 DEF Img
  <2>4. PICK i \in B, j \in g \ B : d[i][j] <= cut
    BY <2>2, <2>3 DEF Linked
  <2>5. s[i] \in A /\ s[j] \in Y \ A
    BY <2>1, <2>4 DEF Img
  <2>6. d2[s[i]][s[j]] = d[i][j]
    BY <1>1, <2>2, <2>4
  <2> QED
    BY <2>4, <2>5, <2>6
<1>6. ASSUME NEW Y \in Images(s, P), NEW Z \in Images(s, P), Y # Z
      PROVE  Y \cap Z = {} /\ \A a \in Y, b \in Z : d2[a][b] > cut
  <2>1. PICK f \in P, g \in P : Y = Img(s, f) /\ Z = Img(s, g)
    BY DEF Images
  <2>2. f # g /\ f \in SUBSET bag /\ g \in SUBSET bag
    BY <1>3, <1>6, <2>1
  <2>3. f \cap g = {} /\ \A a \in f, b \in g : d[a][b] > cut
    BY <1>2, <2>2
  <2>4. Y \cap Z = {}
    BY <1>1, <2>1, <2>2, <2>3 DEF Img
  <2>5. ASSUME NEW a \in Y, NEW b \in Z
        PROVE  d2[a][b] > cut
    <3>1. PICK i \in f, j \in g : a = s[i] /\ b = s[j]
      BY <2>1 DEF Img
    <3>2. d2[a][b] = d[i][j]
      BY <1>1, <2>2, <3>1
    <3> QED
      BY <2>3, <3>2
  <2> QED
    BY <2>4, <2>5
<1> QED
  BY <1>4, <1>5, <1>6 DEF Components

\* The effective size of renamed groups is that of the groups.
LEMMA NEffRenamed ==
    ASSUME NEW bag, IsFiniteSet(bag), NEW bag2, NEW d, NEW d2, NEW h, NEW h2,
           NEW s, Renames(s, bag, bag2, d, d2, h, h2),
           NEW P \in SUBSET (SUBSET bag), {} \notin P
    PROVE  NEff(Images(s, P)) = NEff(P)
<1> DEFINE g == [A \in P |-> Img(s, A)]
           R == Images(s, P)
<1>1. IsFiniteSet(P)
  BY FS_SUBSET, FS_Subset
<1>2. \A i, j \in bag : s[i] = s[j] => i = j
  BY DEF Renames
<1>3. ASSUME NEW A \in P
      PROVE  /\ g[A] = Img(s, A)
             /\ Cardinality(Img(s, A)) = Cardinality(A) /\ Cardinality(A) \in Nat
  <2>1. IsFiniteSet(A) /\ \A i, j \in A : s[i] = s[j] => i = j
    BY <1>2, FS_Subset
  <2> QED
    BY <2>1, ImageSize, FS_CardinalityType
<1>4. ASSUME NEW A \in P, NEW B \in P, g[A] = g[B]
      PROVE  A = B
  <2>1. \A i \in bag : (s[i] \in Img(s, A) <=> i \in A) /\ (s[i] \in Img(s, B) <=> i \in B)
    BY <1>2 DEF Img
  <2> QED
    BY <1>3, <1>4, <2>1
<1>5. Img(g, P) = R
  <2> HIDE DEF g
  <2> QED
    BY <1>3 DEF Img, Images
<1>6. IsFiniteSet(R)
  <2> HIDE DEF g
  <2> QED
    BY <1>1, <1>4, <1>5, ImageSize
<1>7. \A A \in P : Img(s, A) \in R
  BY DEF Images
<1>8. \A A \in P : /\ SizeRow(P)[A] \in Int /\ SizeRow(R)[g[A]] = SizeRow(P)[A]
                   /\ SquareRow(P)[A] \in Int /\ SquareRow(R)[g[A]] = SquareRow(P)[A]
  <2> TAKE A \in P
  <2> DEFINE m == Cardinality(A)
  <2>1. m \in Nat /\ Cardinality(Img(s, A)) = m /\ g[A] = Img(s, A) /\ Img(s, A) \in R
    BY <1>3, <1>7
  <2>2. SizeRow(P)[A] = m /\ SquareRow(P)[A] = m * m
    BY DEF SizeRow, SquareRow
  <2> HIDE DEF m, g, R
  <2>3. SizeRow(R)[g[A]] = m /\ SquareRow(R)[g[A]] = m * m
    BY <2>1 DEF SizeRow, SquareRow
  <2>4. m * m \in Int
    BY <2>1
  <2> QED
    BY <2>1, <2>2, <2>3, <2>4
<1>9. /\ RowSum(SizeRow(R), Img(g, P)) = RowSum(SizeRow(P), P)
      /\ RowSum(SquareRow(R), Img(g, P)) = RowSum(SquareRow(P), P)
  <2>1. \A A, B \in P : g[A] = g[B] => A = B
    BY <1>4
  <2> HIDE DEF g, R
  <2> QED
    BY <1>1, <1>8, <2>1, SumsRenamed
<1>10. R = {} <=> P = {}
  BY DEF Images
<1> HIDE DEF g, R
<1>11. /\ MapThenSumSet(LAMBDA x : Cardinality(x), R) = MapThenSumSet(LAMBDA x : Cardinality(x), P)
       /\ MapThenSumSet(LAMBDA x : Cardinality(x) * Cardinality(x), R)
            = MapThenSumSet(LAMBDA x : Cardinality(x) * Cardinality(x), P)
  BY <1>1, <1>5, <1>6, <1>9, SizesTotal, SquaresTotal
<1> QED
  BY <1>10, <1>11 DEF NEff, R

\* s numbers the entries of f as g has them.
Renumbers(s, S, f, g) ==
    /\ s \in [S -> S]
    /\ \A i, j \in S : s[i] = s[j] => i = j
    /\ \A y \in S : \E i \in S : s[i] = y
    /\ \A i \in S : g[s[i]] = f[i]

\* Two lists with the same bag of entries are one list under two numberings.
LEMMA SameBag ==
    ASSUME NEW S, IsFiniteSet(S), NEW f, DOMAIN f = S, NEW g, DOMAIN g = S,
           ToBag(f) = ToBag(g)
    PROVE  \E s : Renumbers(s, S, f, g)
<1> DEFINE F(x) == {i \in S : f[i] = x}
           G(x) == {i \in S : g[i] = x}
           b(x) == CHOOSE b : b \in Bijection(F(x), G(x))
           s == [i \in S |-> b(f[i])[i]]
<1>1. Range(f) = Range(g) /\ \A x \in Range(f) : Cardinality(F(x)) = Cardinality(G(x))
  <2>1. /\ DOMAIN ToBag(f) = Range(f) /\ \A x \in Range(f) : ToBag(f)[x] = Cardinality(F(x))
        /\ DOMAIN ToBag(g) = Range(g) /\ \A x \in Range(g) : ToBag(g)[x] = Cardinality(G(x))
    BY DEF ToBag
  <2> QED
    BY <2>1
<1>2. \A x \in Range(f) : b(x) \in Bijection(F(x), G(x))
  <2> TAKE x \in Range(f)
  <2>1. IsFiniteSet(F(x)) /\ IsFiniteSet(G(x)) /\ Cardinality(F(x)) = Cardinality(G(x))
    <3>1. F(x) \subseteq S /\ G(x) \subseteq S
      OBVIOUS
    <3> QED
      BY <1>1, <3>1, FS_Subset
  <2> DEFINE X == F(x)  Y == G(x)
  <2>2. ExistsBijection(X, Y)
    <3> HIDE DEF X, Y
    <3> SUFFICES IsFiniteSet(X) /\ IsFiniteSet(Y) /\ Cardinality(X) = Cardinality(Y)
      BY FS_SameCardinalityBij
    <3> QED
      BY <2>1 DEF X, Y
  <2>3. \E c : c \in Bijection(X, Y)
    BY <2>2 DEF ExistsBijection
  <2> QED
    BY <2>3
<1> HIDE DEF b
<1>3. ASSUME NEW x \in Range(f)
      PROVE  /\ b(x) \in [F(x) -> G(x)]
             /\ \A i, j \in F(x) : b(x)[i] = b(x)[j] => i = j
             /\ \A y \in G(x) : \E i \in F(x) : b(x)[i] = y
  <2> DEFINE X == F(x)  Y == G(x)  c == b(x)
  <2>1. c \in Bijection(X, Y)
    BY <1>2
  <2> HIDE DEF X, Y, c
  <2>2. /\ c \in [X -> Y] /\ (\A i, j \in X : c[i] = c[j] => i = j)
        /\ \A y \in Y : \E i \in X : c[i] = y
    BY <2>1, Fun_BijectionProperties
  <2> QED
    BY <2>2 DEF X, Y, c
<1>4. \A i \in S : f[i] \in Range(f) /\ i \in F(f[i]) /\ g[i] \in Range(f) /\ i \in G(g[i])
  <2>1. \A i \in S : f[i] \in Range(f) /\ g[i] \in Range(g)
    BY DEF Range
  <2> QED
    BY <1>1, <2>1
<1>5. \A i \in S : s[i] = b(f[i])[i] /\ s[i] \in S /\ g[s[i]] = f[i]
  <2> TAKE i \in S
  <2> DEFINE x == f[i]  c == b(x)  X == F(x)  Y == G(x)
  <2>1. x \in Range(f) /\ i \in X
    BY <1>4
  <2>2. c \in [X -> Y]
    BY <1>3, <2>1
  <2>3. s[i] = c[i]
    OBVIOUS
  <2> HIDE DEF c, X, s
  <2>4. c[i] \in Y
    BY <2>1, <2>2
  <2> QED
    BY <2>3, <2>4 DEF c
<1>6. s \in [S -> S]
  BY <1>5
<1> HIDE DEF s
<1>7. ASSUME NEW i \in S, NEW j \in S, s[i] = s[j]
      PROVE  i = j
  <2>1. f[i] = f[j]
    BY <1>5, <1>7
  <2>2. i \in F(f[i]) /\ j \in F(f[i]) /\ b(f[i])[i] = b(f[i])[j]
    BY <1>4, <1>5, <1>7, <2>1
  <2> QED
    BY <1>3, <1>4, <2>2
<1>8. ASSUME NEW y \in S
      PROVE  \E i \in S : s[i] = y
  <2> DEFINE x == g[y]
  <2>1. x \in Range(f) /\ y \in G(x)
    BY <1>4
  <2>2. PICK i \in F(x) : b(x)[i] = y
    BY <1>3, <2>1
  <2>3. i \in S /\ f[i] = x
    OBVIOUS
  <2> QED
    BY <1>5, <2>2, <2>3
<1> QED
  BY <1>5, <1>6, <1>7, <1>8 DEF Renumbers

\* Distances of rows are symmetric integers.
LEMMA DistancesSymmetric ==
    ASSUME NEW n \in Nat, NEW rows \in [1..n -> Int]
    PROVE  \A i, j \in 1..n : /\ RowDistances(rows)[i][j] \in Int
                              /\ RowDistances(rows)[i][j] = RowDistances(rows)[j][i]
<1> SUFFICES ASSUME NEW i \in 1..n, NEW j \in 1..n
             PROVE  /\ RowDistances(rows)[i][j] \in Int
                    /\ RowDistances(rows)[i][j] = RowDistances(rows)[j][i]
  OBVIOUS
<1> DEFINE v == rows[i]  w == rows[j]
           x == RowDistances(rows)[i][j]  y == RowDistances(rows)[j][i]
<1>1. v \in Int /\ w \in Int
  OBVIOUS
<1>2. /\ x = IF v < w THEN w - v ELSE v - w
      /\ y = IF w < v THEN v - w ELSE w - v
  BY DEF RowDistances
<1> HIDE DEF v, w, x, y
<1>3. x \in Int /\ x = y
  BY <1>1, <1>2
<1> QED
  BY <1>3 DEF x, y

\* Renumbered rows have the renumbered distances.
LEMMA DistancesRenumbered ==
    ASSUME NEW n \in Nat, NEW rows \in [1..n -> Int], NEW rows2 \in [1..n -> Int],
           NEW s, Renumbers(s, 1..n, rows, rows2), NEW h, \A i, j \in 1..n : h[i] = h[j]
    PROVE  Renames(s, 1..n, 1..n, RowDistances(rows), RowDistances(rows2), h, h)
<1> DEFINE d == RowDistances(rows)  d2 == RowDistances(rows2)
<1>1. /\ s \in [1..n -> 1..n] /\ \A i \in 1..n : rows2[s[i]] = rows[i]
      /\ \A i, j \in 1..n : s[i] = s[j] => i = j
      /\ \A y \in 1..n : \E i \in 1..n : s[i] = y
  BY DEF Renumbers
<1>2. ASSUME NEW i \in 1..n, NEW j \in 1..n
      PROVE  d2[s[i]][s[j]] = d[i][j]
  <2> DEFINE k == s[i]  m == s[j]
  <2>1. k \in 1..n /\ m \in 1..n /\ rows2[k] = rows[i] /\ rows2[m] = rows[j]
    BY <1>1
  <2> HIDE DEF k, m
  <2>2. d2[k][m] = IF rows2[k] < rows2[m] THEN rows2[m] - rows2[k] ELSE rows2[k] - rows2[m]
    BY <2>1 DEF RowDistances
  <2>3. d[i][j] = IF rows[i] < rows[j] THEN rows[j] - rows[i] ELSE rows[i] - rows[j]
    BY DEF RowDistances
  <2>4. d2[k][m] = d[i][j]
    BY <2>1, <2>2, <2>3
  <2> QED
    BY <2>4 DEF k, m
<1>3. \A i \in 1..n : h[s[i]] = h[i]
  BY <1>1
<1> HIDE DEF d, d2
<1>4. Renames(s, 1..n, 1..n, d, d2, h, h)
  BY <1>1, <1>2, <1>3 DEF Renames
<1> QED
  BY <1>4 DEF d, d2

\* Rows with the same bag have the same effective size.
LEMMA SameRowsSameSize ==
    ASSUME NEW n \in Nat, NEW rows \in [1..n -> Int], NEW rows2 \in [1..n -> Int],
           NEW s, Renumbers(s, 1..n, rows, rows2), NEW cut \in Int
    PROVE  NEff(DuplicateGroups(RowDistances(rows2), 1..n, cut))
             = NEff(DuplicateGroups(RowDistances(rows), 1..n, cut))
<1> DEFINE bag == 1..n
           d == RowDistances(rows)
           d2 == RowDistances(rows2)
           P == DuplicateGroups(d, bag, cut)
           Q == DuplicateGroups(d2, bag, cut)
           R == Images(s, P)
           h == [i \in bag |-> 0]
<1>1. IsFiniteSet(bag) /\ bag \in SUBSET Nat
  <2>1. 1 \in Int /\ n \in Int
    OBVIOUS
  <2>2. IsFiniteSet(1..n)
    BY <2>1, FS_Interval
  <2> QED
    BY <2>2
<1>2. /\ \A i, j \in bag : d[i][j] \in Int /\ d[i][j] = d[j][i]
      /\ \A i, j \in bag : d2[i][j] \in Int /\ d2[i][j] = d2[j][i]
  BY DistancesSymmetric
<1>4. Renames(s, bag, bag, d, d2, h, h)
  <2>1. \A i, j \in 1..n : h[i] = h[j]
    OBVIOUS
  <2> HIDE DEF h
  <2> QED
    BY <2>1, DistancesRenumbered
<1> HIDE DEF bag, d, d2, h
<1>6. /\ Components(d, bag, cut, P) /\ {} \notin P
      /\ Components(d2, bag, cut, Q) /\ {} \notin Q
  BY <1>1, <1>2, GroupsAreComponents, GroupsNotEmpty
<1> HIDE DEF P, Q
<1>7. P \in SUBSET (SUBSET bag)
  BY <1>6 DEF Components
<1>8. Components(d2, bag, cut, R)
  BY <1>4, <1>6, ComponentsRenamed
<1>9. {} \notin R
  <2> SUFFICES ASSUME NEW A \in P, Img(s, A) = {}
               PROVE  FALSE
    BY DEF Images
  <2>1. A # {}
    BY <1>6
  <2>2. PICK i \in A : TRUE
    BY <2>1
  <2>3. s[i] \in Img(s, A)
    BY DEF Img
  <2> QED
    BY <2>3
<1>10. NEff(R) = NEff(P)
  <2>1. {} \notin P
    BY <1>6
  <2> HIDE DEF R
  <2>2. \A B, X, e, e2, g, g2, z : IsFiniteSet(B) =>
            (Renames(z, B, X, e, e2, g, g2) =>
                \A O \in SUBSET (SUBSET B) : {} \notin O => NEff(Images(z, O)) = NEff(O))
    BY NEffRenamed
  <2>3. IsFiniteSet(bag)
    BY <1>1
  <2>4. \A O \in SUBSET (SUBSET bag) : {} \notin O => NEff(Images(s, O)) = NEff(O)
    BY <1>4, <2>2, <2>3
  <2>5. NEff(Images(s, P)) = NEff(P)
    BY <1>7, <2>1, <2>4
  <2> QED
    BY <2>5 DEF R
<1> HIDE DEF R
<1>11. R = Q
  <2>1. R \subseteq Q /\ Q \subseteq R
    BY <1>2, <1>6, <1>8, <1>9, ComponentsUnique
  <2> QED
    BY <2>1
<1> QED
  BY <1>10, <1>11 DEF bag, d, d2, P, Q

\* Entries bounded by multiples of others add up to no more than the multiple.
LEMMA RowSumBounded ==
    ASSUME NEW S, IsFiniteSet(S), NEW row, NEW row2, NEW m \in Nat,
           \A x \in S : row[x] \in Int /\ row2[x] \in Int /\ row[x] <= m * row2[x]
    PROVE  RowSum(row, S) <= m * RowSum(row2, S)
<1> DEFINE a(T) == RowSum(row, T)
           b(T) == RowSum(row2, T)
           Q == {T \in SUBSET S : a(T) \in Int /\ b(T) \in Int /\ a(T) <= m * b(T)}
<1>1. ASSUME NEW T \in SUBSET S, \A U \in SUBSET T : U # T => U \in Q
      PROVE  T \in Q
  <2>1. CASE T = {}
    <3>1. a(T) = 0 /\ b(T) = 0
      BY <2>1, RowSumEmpty
    <3> DEFINE u == a(T)  v == b(T)
    <3> HIDE DEF u, v
    <3>2. u = 0 /\ v = 0
      BY <3>1 DEF u, v
    <3>3. u \in Int /\ v \in Int /\ u <= m * v
      BY <3>2
    <3> QED
      BY <3>3 DEF u, v
  <2>2. CASE T # {}
    <3>1. PICK x \in T : TRUE
      BY <2>2
    <3> DEFINE U == T \ {x}
               u == a(T)  v == b(T)  u1 == a(U)  v1 == b(U)  r == row[x]  r2 == row2[x]
    <3>2. IsFiniteSet(T) /\ x \in T /\ x \in S /\ U # T /\ U \in SUBSET T
      BY <3>1, FS_Subset
    <3>3. \A y \in T : row[y] \in Int /\ row2[y] \in Int
      OBVIOUS
    <3>4. u = r + u1
      BY <3>2, <3>3, RowSumSplit
    <3>5. v = r2 + v1
      BY <3>2, <3>3, RowSumSplit
    <3>6. U \in Q
      BY <1>1, <3>2
    <3>7. u1 \in Int /\ v1 \in Int /\ u1 <= m * v1
      BY <3>6
    <3>8. r \in Int /\ r2 \in Int /\ r <= m * r2
      BY <3>2
    <3> HIDE DEF u, v, u1, v1, r, r2
    <3>9. m * v = m * r2 + m * v1
      BY <3>5, <3>7, <3>8
    <3>10. m * r2 \in Int /\ m * v1 \in Int
      BY <3>7, <3>8
    <3>11. u \in Int /\ v \in Int /\ u <= m * v
      BY <3>4, <3>5, <3>7, <3>8, <3>9, <3>10
    <3> QED
      BY <3>11 DEF u, v
  <2> QED
    BY <2>1, <2>2
<1>2. S \in Q
  <2> HIDE DEF Q
  <2>1. \A T \in SUBSET S : (\A U \in SUBSET T : U # T => U \in Q) => T \in Q
    BY <1>1
  <2>2. \A T \in SUBSET S : T \in Q
    BY <2>1, SubsetInduction
  <2> QED
    BY <2>2
<1> QED
  BY <1>2

\* The effective size of a cover of n rows by disjoint groups lies between 1 and n.
LEMMA NEffOfCover ==
    ASSUME NEW n \in Nat \ {0}, NEW G \in SUBSET (SUBSET (1..n)), {} \notin G, Disjoint(G),
           UNION G = 1..n
    PROVE  /\ NEff(G)[1] \in Nat /\ NEff(G)[2] \in Nat /\ NEff(G)[1] > 0
           /\ NEff(G)[1] >= NEff(G)[2] /\ NEff(G)[1] <= n * NEff(G)[2]
<1> DEFINE total == RowSum(SizeRow(G), G)  squares == RowSum(SquareRow(G), G)
<1>1. IsFiniteSet(1..n) /\ Cardinality(1..n) = n
  BY FS_Interval
<1>2. G # {}
  BY <1>1, FS_EmptySet
<1>3. /\ IsFiniteSet(G) /\ total = n /\ squares \in Nat /\ total <= squares
  <2>1. /\ IsFiniteSet(G) /\ total = Cardinality(UNION G)
        /\ squares \in Nat /\ total <= squares
    BY <1>1, GroupsTotal
  <2> QED
    BY <1>1, <2>1
<1>4. squares <= n * total
  <2>1. ASSUME NEW g \in G
        PROVE  /\ SquareRow(G)[g] \in Int /\ SizeRow(G)[g] \in Int
               /\ SquareRow(G)[g] <= n * SizeRow(G)[g]
    <3> DEFINE m == Cardinality(g)
    <3>1. m \in Nat /\ m <= n
      BY <1>1, FS_Subset, FS_CardinalityType
    <3>2. SquareRow(G)[g] = m * m /\ SizeRow(G)[g] = m
      BY DEF SquareRow, SizeRow
    <3> HIDE DEF m
    <3>3. PICK b \in Nat : n = m + b
      <4>1. n - m \in Nat /\ n = m + (n - m)
        BY <3>1
      <4> QED
        BY <4>1
    <3>4. n * m = m * m + b * m /\ b * m \in Nat /\ m * m \in Nat
      BY <3>1, <3>3
    <3> QED
      BY <3>1, <3>2, <3>4
  <2> QED
    BY <1>3, <2>1, RowSumBounded
<1>5. NEff(G)[1] = total * total /\ NEff(G)[2] = squares
  <2> HIDE DEF total, squares
  <2>1. NEff(G) = <<total * total, squares>>
    BY <1>2, <1>3, SizesTotal, SquaresTotal DEF NEff, total, squares
  <2> QED
    BY <2>1
<1> HIDE DEF total, squares
<1>6. total * total = n * n /\ n * total = n * n /\ n * n \in Nat /\ n * n > 0
  BY <1>3
<1>7. n * n <= n * squares
  <2>1. PICK b \in Nat : squares = n + b
    <3>1. squares - n \in Nat /\ squares = n + (squares - n)
      BY <1>3
    <3> QED
      BY <3>1
  <2>2. n * squares = n * n + n * b /\ n * b \in Nat
    BY <2>1
  <2> QED
    BY <1>6, <2>2
<1> QED
  BY <1>3, <1>4, <1>5, <1>6, <1>7

\* The effective size of n rows lies between 1 and n.
LEMMA RowsNEffBounded ==
    ASSUME NEW n \in Nat \ {0}, NEW rows \in [1..n -> Int], NEW fit, fit.dupCut \in Int
    PROVE  LET e == RowsNEff(rows, fit)
           IN e[1] \in Nat /\ e[2] \in Nat /\ e[1] > 0 /\ e[1] >= e[2] /\ e[1] <= n * e[2]
<1> DEFINE bag == 1..n
           d == RowDistances(rows)
           cut == fit.dupCut
           P == DuplicateGroups(d, bag, cut)
<1>1. IsFiniteSet(bag) /\ bag \in SUBSET Nat
  <2>1. 1 \in Int /\ n \in Int
    OBVIOUS
  <2>2. IsFiniteSet(1..n)
    BY <2>1, FS_Interval
  <2> QED
    BY <2>2
<1>2. \A i, j \in bag : d[i][j] \in Int /\ d[i][j] = d[j][i]
  BY DistancesSymmetric
<1>3. RowsNEff(rows, fit) = NEff(P)
  <2>1. DOMAIN rows = bag
    OBVIOUS
  <2> HIDE DEF bag
  <2> QED
    BY <2>1 DEF RowsNEff
<1>4. cut \in Int
  OBVIOUS
<1> HIDE DEF d, cut, bag
<1>5. Components(d, bag, cut, P) /\ {} \notin P
  BY <1>1, <1>2, <1>4, GroupsAreComponents, GroupsNotEmpty
<1> HIDE DEF P
<1>6. UNION P = bag /\ P \in SUBSET (SUBSET bag) /\ Disjoint(P)
  BY <1>5 DEF Components, Disjoint
<1>7. /\ NEff(P)[1] \in Nat /\ NEff(P)[2] \in Nat /\ NEff(P)[1] > 0
      /\ NEff(P)[1] >= NEff(P)[2] /\ NEff(P)[1] <= n * NEff(P)[2]
  BY <1>5, <1>6, NEffOfCover DEF bag
<1> QED
  BY <1>3, <1>7

FitPolicies == [k : Int, kCap : Int, cut : Int, dupCut : Int, minSize : Int,
                level : Int \X Int, multiplier : Int \X Int]

\* What build_board makes of columns it accepts.
BoardOf(ids, hashes, rows, model, fit, neff, locations) ==
    [id |-> BoardHash(hashes, rows, model, fit), ids |-> ids, hashes |-> hashes,
     rows |-> rows, model |-> model, fit |-> fit, neff |-> neff,
     digest |-> EmbeddingDigest(hashes, rows), locations |-> locations,
     locationDigest |-> IF locations = <<>> THEN NoDigest
                        ELSE LocationDigest(hashes, locations),
     verified |-> TRUE]

\* And what write_board makes of that board.
ArtifactOf(ids, hashes, rows, model, fit, neff, locations) ==
    [version |-> FormatVersion, id |-> BoardHash(hashes, rows, model, fit), ids |-> ids,
     hashes |-> hashes, rows |-> rows, model |-> model, fit |-> fit, neff |-> neff,
     digest |-> EmbeddingDigest(hashes, rows), locations |-> locations,
     locationDigest |-> IF locations = <<>> THEN NoDigest
                        ELSE LocationDigest(hashes, locations)]

\* Columns that build_board accepts.
Buildable(ids, hashes, rows, fit, neff, locations) ==
    /\ Len(ids) \in Nat /\ (ids = <<>> => Len(ids) = 0)
    /\ IdentityOK(ids, hashes)
    /\ MetadataOK(fit, neff, Len(ids))
    /\ fit.kCap \in Int /\ fit.k \in Int /\ neff[1] \in Int /\ neff[1] > 0
    /\ Len(rows) = Len(ids)
    /\ Complete(locations, Len(ids))

\* write_board then read_board is the identity on what build_board made.
THEOREM BoardRoundTrip ==
    ASSUME NEW ids, NEW hashes, NEW rows, NEW model, NEW fit, NEW neff, NEW locations,
           Buildable(ids, hashes, rows, fit, neff, locations), NEW defaults
    PROVE  LET b == BoardOf(ids, hashes, rows, model, fit, neff, locations)
               a == ArtifactOf(ids, hashes, rows, model, fit, neff, locations)
           IN /\ BuildBoard(ids, hashes, rows, model, fit, neff, locations) = b
              /\ WriteBoard(b) = a
              /\ ReadBoard(a, FALSE, defaults) = b
<1> DEFINE b == BoardOf(ids, hashes, rows, model, fit, neff, locations)
           a == ArtifactOf(ids, hashes, rows, model, fit, neff, locations)
<1>1. BuildBoard(ids, hashes, rows, model, fit, neff, locations) = b
  BY DEF BuildBoard, Buildable, BoardOf
<1>2. /\ b.id = BoardHash(hashes, rows, model, fit) /\ b.ids = ids /\ b.hashes = hashes
      /\ b.rows = rows /\ b.model = model /\ b.fit = fit /\ b.neff = neff
      /\ b.digest = EmbeddingDigest(hashes, rows) /\ b.locations = locations
      /\ b.locationDigest = (IF locations = <<>> THEN NoDigest
                             ELSE LocationDigest(hashes, locations))
      /\ b.verified = TRUE
  BY DEF BoardOf
<1>3. /\ a.id = BoardHash(hashes, rows, model, fit) /\ a.ids = ids /\ a.hashes = hashes
      /\ a.rows = rows /\ a.model = model /\ a.fit = fit /\ a.neff = neff
      /\ a.digest = EmbeddingDigest(hashes, rows) /\ a.locations = locations
      /\ a.locationDigest = (IF locations = <<>> THEN NoDigest
                             ELSE LocationDigest(hashes, locations))
      /\ a.version = 3
  BY DEF ArtifactOf, FormatVersion
<1>4. WriteBoard(b) = a
  <2> HIDE DEF a, b
  <2>1. /\ IdentityOK(ids, hashes) /\ MetadataOK(fit, neff, Len(ids))
        /\ Len(rows) = Len(ids) /\ Len(hashes) = Len(ids)
    BY DEF Buildable, IdentityOK
  <2>2. /\ b.verified /\ IdentityOK(b.ids, b.hashes) /\ MetadataOK(b.fit, b.neff, Len(b.ids))
        /\ Len(b.rows) = Len(b.hashes) /\ b.digest = EmbeddingDigest(b.hashes, b.rows)
        /\ b.id = BoardHash(b.hashes, b.rows, b.model, b.fit)
        /\ b.locationDigest = IF b.locations = <<>> THEN NoDigest
                              ELSE LocationDigest(b.hashes, b.locations)
    BY <1>2, <2>1
  <2>3. WriteBoard(b) = [version |-> FormatVersion, id |-> b.id, ids |-> b.ids,
                         hashes |-> b.hashes, rows |-> b.rows, model |-> b.model,
                         fit |-> b.fit, neff |-> b.neff, digest |-> b.digest,
                         locations |-> b.locations, locationDigest |-> b.locationDigest]
    BY <2>2 DEF WriteBoard
  <2> QED
    BY <1>2, <2>3 DEF a, ArtifactOf
<1>5. StructureOK(a)
  <2>1. MetadataOK(fit, neff, Len(ids)) /\ Len(ids) \in Nat /\ fit.kCap \in Int
        /\ neff[1] > 0 /\ fit.k \in Int /\ IdentityOK(ids, hashes) /\ Len(rows) = Len(ids)
        /\ (ids = <<>> => Len(ids) = 0)
    BY DEF Buildable
  <2>2. /\ Len(ids) >= 2 /\ fit.kCap >= 1
        /\ fit.k = IF fit.kCap < Len(ids) - 1 THEN fit.kCap ELSE Len(ids) - 1
    BY <2>1 DEF MetadataOK
  <2> DEFINE n == Len(ids)  kk == fit.k  cap == fit.kCap
  <2>3. n \in Nat /\ kk \in Int /\ cap \in Int /\ n >= 2 /\ cap >= 1
        /\ kk = IF cap < n - 1 THEN cap ELSE n - 1
    BY <2>1, <2>2
  <2> HIDE DEF n, kk, cap
  <2>4. kk >= 0 /\ kk < n
    BY <2>3
  <2>5. n # 0
    BY <2>3
  <2> HIDE DEF a
  <2> QED
    BY <1>3, <2>1, <2>4, <2>5 DEF StructureOK, n, kk
<1>6. LocationsOK(a)
  <2> HIDE DEF a
  <2> QED
    BY <1>3 DEF LocationsOK, Buildable, Complete, FormatVersion
<1>7. VersionOK(a, FALSE) /\ IntegrityOK(a) /\ a.version \notin LegacyVersions
  <2>1. a.version = FormatVersion /\ a.version \notin LegacyVersions
    BY <1>3 DEF FormatVersion, LegacyVersions
  <2> HIDE DEF a
  <2> QED
    BY <1>3, <2>1 DEF VersionOK, IntegrityOK
<1> DEFINE r == ReadBoard(a, FALSE, defaults)
<1>8. r = b
  <2> HIDE DEF a
  <2>1. r = [id |-> a.id, ids |-> a.ids, hashes |-> a.hashes, rows |-> a.rows,
             model |-> a.model, fit |-> a.fit, neff |-> a.neff, digest |-> a.digest,
             locations |-> a.locations,
             locationDigest |-> IF a.locations = <<>> THEN NoDigest ELSE a.locationDigest,
             verified |-> TRUE]
    BY <1>5, <1>6, <1>7 DEF ReadBoard
  <2> QED
    BY <1>3, <2>1 DEF BoardOf
<1> HIDE DEF a, b
<1> QED
  BY <1>1, <1>4, <1>8 DEF a, b

\* Policies whose fields are the board's identity are equal when the identity is.
LEMMA PolicyIdentified ==
    ASSUME NEW fit \in FitPolicies, NEW fit2 \in FitPolicies,
           <<fit.k, fit.kCap, fit.cut, fit.dupCut, fit.minSize, fit.level, fit.multiplier>>
             = <<fit2.k, fit2.kCap, fit2.cut, fit2.dupCut, fit2.minSize, fit2.level,
                 fit2.multiplier>>
    PROVE  fit2 = fit
<1>1. /\ fit.k = fit2.k /\ fit.kCap = fit2.kCap /\ fit.cut = fit2.cut
      /\ fit.dupCut = fit2.dupCut /\ fit.minSize = fit2.minSize
      /\ fit.level = fit2.level /\ fit.multiplier = fit2.multiplier
  OBVIOUS
<1>2. /\ fit = [k |-> fit.k, kCap |-> fit.kCap, cut |-> fit.cut, dupCut |-> fit.dupCut,
                minSize |-> fit.minSize, level |-> fit.level, multiplier |-> fit.multiplier]
      /\ fit2 = [k |-> fit2.k, kCap |-> fit2.kCap, cut |-> fit2.cut, dupCut |-> fit2.dupCut,
                 minSize |-> fit2.minSize, level |-> fit2.level,
                 multiplier |-> fit2.multiplier]
  BY DEF FitPolicies
<1> QED
  BY <1>1, <1>2

\* Boards of one identity hold the same references, rows and policy, and so the
\* same effective size.
THEOREM SameIdSameBoard ==
    ASSUME NEW n \in Nat, NEW rows \in [1..n -> Int], NEW rows2 \in [1..n -> Int],
           NEW hashes, NEW hashes2, DOMAIN hashes = 1..n, DOMAIN hashes2 = 1..n,
           NEW fit \in FitPolicies, NEW fit2 \in FitPolicies, NEW model, NEW model2,
           BoardHash(hashes, rows, model, fit) = BoardHash(hashes2, rows2, model2, fit2)
    PROVE  /\ EmbeddingDigest(hashes, rows) = EmbeddingDigest(hashes2, rows2)
           /\ model2 = model /\ fit2 = fit
           /\ RowsNEff(rows2, fit2) = RowsNEff(rows, fit)
<1> DEFINE f == [i \in 1..n |-> <<hashes[i], rows[i]>>]
           g == [i \in 1..n |-> <<hashes2[i], rows2[i]>>]
<1>1. /\ EmbeddingDigest(hashes, rows) = EmbeddingDigest(hashes2, rows2)
      /\ model2 = model
      /\ <<fit.k, fit.kCap, fit.cut, fit.dupCut, fit.minSize, fit.level, fit.multiplier>>
           = <<fit2.k, fit2.kCap, fit2.cut, fit2.dupCut, fit2.minSize, fit2.level,
               fit2.multiplier>>
  BY DEF BoardHash
<1>2. fit2 = fit
  BY <1>1, PolicyIdentified
<1>3. EmbeddingDigest(hashes, rows) = ToBag(f) /\ EmbeddingDigest(hashes2, rows2) = ToBag(g)
  BY DEF EmbeddingDigest, Column
<1>4. IsFiniteSet(1..n)
  BY FS_Interval
<1>5. DOMAIN f = 1..n /\ DOMAIN g = 1..n
  OBVIOUS
<1>6. \A i \in 1..n : f[i][2] = rows[i] /\ g[i][2] = rows2[i]
  OBVIOUS
<1> HIDE DEF f, g
<1>7. ToBag(f) = ToBag(g)
  BY <1>1, <1>3
<1>8. PICK s : Renumbers(s, 1..n, f, g)
  BY <1>4, <1>5, <1>7, SameBag
<1>9. Renumbers(s, 1..n, rows, rows2)
  <2>1. ASSUME NEW i \in 1..n
        PROVE  rows2[s[i]] = rows[i]
    <3>1. s[i] \in 1..n /\ g[s[i]] = f[i]
      BY <1>8 DEF Renumbers
    <3> QED
      BY <1>6, <3>1
  <2> QED
    BY <1>8, <2>1 DEF Renumbers
<1>10. fit.dupCut \in Int
  BY DEF FitPolicies
<1>11. RowsNEff(rows2, fit2) = RowsNEff(rows, fit)
  <2> DEFINE cut == fit.dupCut
  <2>1. DOMAIN rows = 1..n /\ DOMAIN rows2 = 1..n
    OBVIOUS
  <2>2. /\ RowsNEff(rows, fit) = NEff(DuplicateGroups(RowDistances(rows), 1..n, cut))
        /\ RowsNEff(rows2, fit2) = NEff(DuplicateGroups(RowDistances(rows2), 1..n, cut))
    BY <1>2, <2>1 DEF RowsNEff
  <2>3. cut \in Int
    BY <1>10
  <2> HIDE DEF cut
  <2>4. NEff(DuplicateGroups(RowDistances(rows2), 1..n, cut))
          = NEff(DuplicateGroups(RowDistances(rows), 1..n, cut))
    BY <1>9, <2>3, SameRowsSameSize
  <2> QED
    BY <2>2, <2>4
<1> QED
  BY <1>1, <1>2, <1>11

\* A board of three references, and a file whose columns and policy are altered.
ArtifactInput ==
    input.kind = "artifact" =>
        /\ input.rows \in Seq(Int) /\ Len(input.rows) = 3
        /\ input.hashes \in Seq(STRING) /\ Len(input.hashes) = 3
        /\ input.newRows \in Seq(Int) /\ input.newHashes \in Seq(STRING)
        /\ input.newFit \in FitPolicies

\* An accepted artifact of the current format satisfies every check of read_board.
LEMMA ReadAccepts ==
    ASSUME NEW a, NEW defaults, ~Refused(ReadBoard(a, FALSE, defaults)), a.version = FormatVersion
    PROVE  /\ StructureOK(a) /\ IntegrityOK(a)
           /\ LET read == ReadBoard(a, FALSE, defaults)
              IN /\ read.hashes = a.hashes /\ read.rows = a.rows /\ read.model = a.model
                 /\ read.fit = a.fit /\ read.neff = a.neff
<1> DEFINE ok == VersionOK(a, FALSE) /\ StructureOK(a) /\ LocationsOK(a) /\ IntegrityOK(a)
           read == ReadBoard(a, FALSE, defaults)
<1>1. ok
  <2> SUFFICES ASSUME ~ok
               PROVE  FALSE
    OBVIOUS
  <2>1. read = [refused |-> TRUE]
    BY DEF ReadBoard
  <2> HIDE DEF read
  <2>2. "refused" \in DOMAIN read
    BY <2>1
  <2> QED
    BY <2>2 DEF Refused, read
<1>2. ~(a.version \in LegacyVersions)
  BY DEF FormatVersion, LegacyVersions
<1>3. read = [id |-> a.id, ids |-> a.ids, hashes |-> a.hashes, rows |-> a.rows,
              model |-> a.model, fit |-> a.fit, neff |-> a.neff, digest |-> a.digest,
              locations |-> a.locations,
              locationDigest |-> IF a.locations = <<>> THEN NoDigest ELSE a.locationDigest,
              verified |-> TRUE]
  BY <1>1, <1>2 DEF ReadBoard
<1>4. /\ read.hashes = a.hashes /\ read.rows = a.rows /\ read.model = a.model
      /\ read.fit = a.fit /\ read.neff = a.neff
  <2> HIDE DEF read
  <2> QED
    BY <1>3
<1> QED
  BY <1>1, <1>4

\* A sequence is a function on its positions.
LEMMA SequenceOf ==
    ASSUME NEW S, NEW s \in Seq(S), NEW n, Len(s) = n
    PROVE  s \in [1..n -> S] /\ DOMAIN s = 1..n
OBVIOUS

LEMMA FitIsAPolicy ==
    /\ Fit \in FitPolicies /\ Fit.dupCut \in Int
    /\ \A neff : (neff[1] >= neff[2] /\ neff[1] <= 3 * neff[2]) => MetadataOK(Fit, neff, 3)
<1>1. /\ Fit.k = 2 /\ Fit.kCap = 5 /\ Fit.cut = 2 /\ Fit.dupCut = 1 /\ Fit.minSize = 1
      /\ Fit.level = <<1, 2>> /\ Fit.multiplier = <<3, 2>>
  BY DEF Fit
<1>2. Fit \in FitPolicies
  BY DEF Fit, FitPolicies
<1>3. Fit.level[1] = 1 /\ Fit.level[2] = 2 /\ Fit.multiplier[1] = 3
  BY <1>1
<1>4. \A neff : (neff[1] >= neff[2] /\ neff[1] <= 3 * neff[2]) => MetadataOK(Fit, neff, 3)
  <2>1. /\ 3 >= 2 /\ Fit.kCap >= 1 /\ Fit.minSize >= 1 /\ Fit.cut >= 0 /\ Fit.dupCut >= 0
        /\ 0 < Fit.level[1] /\ Fit.level[1] < Fit.level[2] /\ Fit.multiplier[1] >= 0
    BY <1>1, <1>3
  <2>2. Fit.k = IF Fit.kCap < 3 - 1 THEN Fit.kCap ELSE 3 - 1
    BY <1>1
  <2> QED
    BY <2>1, <2>2, Zenon DEF MetadataOK
<1>5. Fit.dupCut \in Int
  BY <1>1
<1> QED
  BY <1>2, <1>4, <1>5, Zenon

\* board_id binds everything scores depend on, whatever the rows and hashes: a file
\* that read_board accepts under a board's identity, with its rows, hashes and
\* policy replaced by any others, is scored as the board is; and what write_board
\* wrote is read back as it was built.
THEOREM BoardIdentityBinds ==
    ArtifactInput => BoardIdentityBindsScores
<1> SUFFICES ASSUME ArtifactInput, input.kind = "artifact"
             PROVE  BoardIdentityBindsScores
  BY DEF BoardIdentityBindsScores
<1> DEFINE ids == <<"x", "y", "z">>
           hashes == input.hashes
           rows == input.rows
           hashes2 == input.newHashes
           rows2 == input.newRows
           fit2 == input.newFit
           neff == RowsNEff(rows, Fit)
           neff2 == RowsNEff(rows2, fit2)
           built == BuildBoard(ids, hashes, rows, "m", Fit, neff, <<>>)
           artifact == WriteBoard(built)
           digest2 == EmbeddingDigest(hashes2, rows2)
           edited == [artifact EXCEPT !.rows = rows2, !.hashes = hashes2, !.fit = fit2,
                                      !.neff = neff2, !.digest = digest2]
           read == ReadBoard(edited, FALSE, Fit)
<1>1. /\ rows \in Seq(Int) /\ Len(rows) = 3 /\ hashes \in Seq(STRING) /\ Len(hashes) = 3
      /\ rows2 \in Seq(Int) /\ hashes2 \in Seq(STRING) /\ fit2 \in FitPolicies
  BY DEF ArtifactInput
<1>2. rows \in [1..3 -> Int] /\ DOMAIN hashes = 1..3 /\ DOMAIN rows = 1..3
  <2> HIDE DEF rows, hashes
  <2> QED
    BY <1>1, SequenceOf
<1>3. Len(ids) = 3 /\ ids # <<>> /\ IsInjective(ids)
  BY DEF IsInjective
<1>4. Buildable(ids, hashes, rows, Fit, neff, <<>>)
  <2>1. /\ neff[1] \in Nat /\ neff[2] \in Nat /\ neff[1] > 0 /\ neff[1] >= neff[2]
        /\ neff[1] <= 3 * neff[2]
    <3>1. 3 \in Nat \ {0}
      OBVIOUS
    <3> HIDE DEF rows
    <3> QED
      BY <1>2, <3>1, FitIsAPolicy, RowsNEffBounded
  <2> HIDE DEF neff, rows, hashes
  <2>2. MetadataOK(Fit, neff, 3)
    BY <2>1, FitIsAPolicy
  <2>3. Fit.kCap \in Int /\ Fit.k \in Int
    BY FitIsAPolicy DEF FitPolicies
  <2> HIDE DEF ids
  <2> QED
    BY <1>1, <1>3, <2>1, <2>2, <2>3 DEF Buildable, IdentityOK, Complete
<1>5. /\ artifact = ArtifactOf(ids, hashes, rows, "m", Fit, neff, <<>>)
      /\ built = BoardOf(ids, hashes, rows, "m", Fit, neff, <<>>)
      /\ ReadBoard(artifact, FALSE, Fit) = built
  <2> HIDE DEF ids, hashes, rows, neff
  <2> QED
    BY ZenonT(40), <1>4, BoardRoundTrip
<1> HIDE DEF ids, neff, neff2, hashes, rows, hashes2, rows2, fit2, built, artifact, digest2
<1>6. /\ edited.version = FormatVersion /\ edited.id = BoardHash(hashes, rows, "m", Fit)
      /\ edited.ids = ids /\ edited.model = "m" /\ edited.hashes = hashes2
      /\ edited.rows = rows2 /\ edited.fit = fit2 /\ edited.neff = neff2
      /\ edited.digest = digest2
  BY <1>5 DEF ArtifactOf
<1>7. /\ built.rows = rows /\ built.hashes = hashes /\ built.model = "m" /\ built.fit = Fit
      /\ built.neff = neff
  BY <1>5 DEF BoardOf
<1> HIDE DEF edited
<1>8. ASSUME ~Refused(read)
      PROVE  ScoredFrom(read) = ScoredFrom(built)
  <2>1. /\ StructureOK(edited) /\ IntegrityOK(edited)
        /\ read.hashes = edited.hashes /\ read.rows = edited.rows
        /\ read.model = edited.model /\ read.fit = edited.fit /\ read.neff = edited.neff
    BY <1>6, <1>8, ReadAccepts
  <2> HIDE DEF read
  <2>2. Len(rows2) = 3 /\ Len(hashes2) = 3
    BY <1>3, <1>6, <2>1 DEF StructureOK, IdentityOK
  <2>3. rows2 \in [1..3 -> Int] /\ DOMAIN hashes2 = 1..3 /\ DOMAIN rows2 = 1..3
        /\ DOMAIN rows = 1..3
    BY <1>1, <1>2, <2>2, SequenceOf
  <2>4. BoardHash(hashes, rows, "m", Fit) = BoardHash(hashes2, rows2, "m", fit2)
    <3>1. edited.version \notin LegacyVersions
      BY <1>6 DEF FormatVersion, LegacyVersions
    <3> QED
      BY <1>6, <2>1, <3>1 DEF IntegrityOK
  <2>5. /\ EmbeddingDigest(hashes, rows) = EmbeddingDigest(hashes2, rows2)
        /\ fit2 = Fit /\ RowsNEff(rows2, fit2) = RowsNEff(rows, Fit)
    <3>1. 3 \in Nat
      OBVIOUS
    <3>2. Fit \in FitPolicies /\ fit2 \in FitPolicies
      BY <1>1, FitIsAPolicy
    <3> DEFINE n == 3
    <3>3. /\ n \in Nat /\ rows \in [1..n -> Int] /\ rows2 \in [1..n -> Int]
          /\ DOMAIN hashes = 1..n /\ DOMAIN hashes2 = 1..n
      BY <1>2, <2>3, <3>1
    <3> HIDE DEF n
    <3> QED
      BY <2>4, <3>2, <3>3, SameIdSameBoard
  <2>6. /\ Column([j \in DOMAIN rows |-> <<hashes[j], rows[j]>>])
             = EmbeddingDigest(hashes, rows)
        /\ Column([j \in DOMAIN rows2 |-> <<hashes2[j], rows2[j]>>])
             = EmbeddingDigest(hashes2, rows2)
    BY <1>2, <2>3 DEF EmbeddingDigest
  <2>7. neff2 = neff
    BY <2>5 DEF neff, neff2
  <2>8. ScoredFrom(read) = <<EmbeddingDigest(hashes2, rows2), "m", fit2, neff2>>
    BY <1>6, <2>1, <2>6 DEF ScoredFrom
  <2>9. ScoredFrom(built) = <<EmbeddingDigest(hashes, rows), "m", Fit, neff>>
    BY <1>7, <2>6 DEF ScoredFrom
  <2> QED
    BY <2>5, <2>7, <2>8, <2>9
<1> QED
  BY <1>5, <1>8 DEF BoardIdentityBindsScores, ids, hashes, rows, hashes2, rows2, fit2, neff,
     neff2, built, artifact, digest2, edited
=============================================================================
