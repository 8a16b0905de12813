--------------------------- MODULE AlgorithmProofs ---------------------------
(***************************************************************************)
(* What holds of the pure parts for inputs of every size: the p-value, the *)
(* attempt reducer, the resampling, the orientation, the byte count of the *)
(* encoder, the orders and fillings the ranking uses, the compositor and   *)
(* the scans that admit the provider's images.                             *)
(*                                                                         *)
(* What a recursive definition computes is shown by its least              *)
(* counterexample: a set of naturals on which a statement fails has a      *)
(* least element (LeastNatural), and the step from its predecessor         *)
(* contradicts it.                                                         *)
(***************************************************************************)
EXTENDS MCAlgorithms, FiniteSetTheorems, FunctionTheorems, WellFoundedInduction, TLAPS

-----------------------------------------------------------------------------
(* Least elements, and sums over a finite set.                              *)

LEMMA LeastNatural ==
    ASSUME NEW T \in SUBSET Nat, T # {}
    PROVE  \E x \in T : \A y \in T : x <= y
<1>1. PICK x \in T : \A y \in T : ~(<<y, x>> \in OpToRel(<, Nat))
  BY NatLessThanWellFounded, WFMin
<1>2. ASSUME NEW y \in T
      PROVE  x <= y
  <2>1. <<y, x>> \in Nat \X Nat /\ y \in Nat /\ x \in Nat
    OBVIOUS
  <2>2. ~(y < x)
    BY <1>1, <2>1 DEF OpToRel
  <2> QED
    BY <2>1, <2>2
<1> QED
  BY <1>2

\* A finite set has an element of least value.
LEMMA LeastValue ==
    ASSUME NEW S, IsFiniteSet(S), S # {}, NEW value, \A c \in S : value[c] \in Int
    PROVE  \E m \in S : \A c \in S : value[m] <= value[c]
<1> DEFINE Below(c) == {b \in S : value[b] < value[c]}
           Ranks == {Cardinality(Below(c)) : c \in S}
<1>1. \A c \in S : IsFiniteSet(Below(c)) /\ Cardinality(Below(c)) \in Nat
  <2> TAKE c \in S
  <2>1. Below(c) \subseteq S
    OBVIOUS
  <2> QED
    BY <2>1, FS_Subset, FS_CardinalityType
<1>2. PICK least \in Ranks : \A n \in Ranks : least <= n
  <2>1. Ranks \in SUBSET Nat /\ Ranks # {}
    BY <1>1
  <2> QED
    BY <2>1, LeastNatural
<1>3. PICK m \in S : least = Cardinality(Below(m))
  OBVIOUS
<1>4. ASSUME NEW c \in S, ~(value[m] <= value[c])
      PROVE  FALSE
  <2>1. value[c] < value[m]
    BY <1>4
  <2>2. Below(c) \subseteq Below(m) /\ c \in Below(m) /\ c \notin Below(c)
    BY <2>1
  <2>3. Cardinality(Below(c)) < Cardinality(Below(m))
    <3>1. Below(c) # Below(m)
      BY <2>2
    <3> QED
      BY <1>1, <2>2, <3>1, FS_Subset
  <2>4. Cardinality(Below(m)) <= Cardinality(Below(c))
    BY <1>2, <1>3
  <2> QED
    BY <1>1, <2>3, <2>4
<1> QED
  BY <1>4

\* MapThenSumSet over the entries of a row, as a recursive function.
SumStep(row, sum, s) ==
    IF s = {} THEN 0 ELSE LET x == CHOOSE x \in s : TRUE IN row[x] + sum[s \ {x}]

RowSum(row, S) == LET sum[s \in SUBSET S] == SumStep(row, sum, s) IN sum[S]

\* A function that is this sum wherever it is defined.
Sums(row, T, f) == f = [s \in T |-> SumStep(row, f, s)]

\* The subsets of at most n elements.
Subsets(S, n) == {s \in SUBSET S : Cardinality(s) <= n}

\* A sum exists for the subsets up to every size: a larger one extends it.
LEMMA SumExists ==
    ASSUME NEW row, NEW S, IsFiniteSet(S), NEW n \in Nat
    PROVE  \E f : Sums(row, Subsets(S, n), f)
<1> DEFINE Has(m) == \E f : Sums(row, Subsets(S, m), f)
           Missing == {m \in Nat : ~Has(m)}
<1>1. ASSUME NEW s \in SUBSET S
      PROVE  IsFiniteSet(s) /\ Cardinality(s) \in Nat
  BY FS_Subset, FS_CardinalityType
<1>2. ASSUME NEW s \in SUBSET S, s # {}, NEW x \in s
      PROVE  s \ {x} \in SUBSET S /\ Cardinality(s \ {x}) = Cardinality(s) - 1
  BY <1>1, FS_RemoveElement
<1>3. Has(0)
  <2> DEFINE zero == [s \in Subsets(S, 0) |-> 0]
  <2>1. \A s \in Subsets(S, 0) : s = {}
    BY <1>1, FS_EmptySet DEF Subsets
  <2>2. Sums(row, Subsets(S, 0), zero)
    BY <2>1 DEF Sums, SumStep
  <2> QED
    BY <2>2
<1>4. ASSUME NEW m \in Nat, Has(m)
      PROVE  Has(m + 1)
  <2>1. PICK sum : Sums(row, Subsets(S, m), sum)
    BY <1>4
  <2> DEFINE more == [s \in Subsets(S, m + 1) |-> SumStep(row, sum, s)]
  <2>2. \A s \in Subsets(S, m) : s \in Subsets(S, m + 1) /\ more[s] = sum[s]
    BY <1>1, <2>1 DEF Subsets, Sums
  <2>3. ASSUME NEW s \in Subsets(S, m + 1)
        PROVE  SumStep(row, sum, s) = SumStep(row, more, s)
    <3> DEFINE x == CHOOSE x \in s : TRUE
    <3>1. CASE s = {}
      BY <3>1 DEF SumStep
    <3>2. CASE s # {}
      <4>1. x \in s
        BY <3>2
      <4>2. s \ {x} \in Subsets(S, m)
        <5>1. s \in SUBSET S /\ Cardinality(s) <= m + 1
          BY DEF Subsets
        <5>2. s \ {x} \in SUBSET S /\ Cardinality(s \ {x}) = Cardinality(s) - 1
          BY <1>2, <3>2, <4>1, <5>1
        <5>3. Cardinality(s) \in Nat
          BY <1>1, <5>1
        <5> QED
          BY <5>1, <5>2, <5>3 DEF Subsets
      <4>3. more[s \ {x}] = sum[s \ {x}]
        BY <2>2, <4>2
      <4> HIDE DEF more
      <4> QED
        BY <3>2, <4>3 DEF SumStep
    <3> QED
      BY <3>1, <3>2
  <2>4. Sums(row, Subsets(S, m + 1), more)
    BY <2>3 DEF Sums
  <2> QED
    BY <2>4
<1>5. ASSUME Missing # {}
      PROVE  FALSE
  <2>1. PICK m \in Missing : \A k \in Missing : m <= k
    BY <1>5, LeastNatural
  <2>2. m # 0
    BY <1>3
  <2>3. m - 1 \in Nat /\ m - 1 \notin Missing
    BY <2>1, <2>2
  <2>4. Has((m - 1) + 1)
    BY <1>4, <2>3
  <2>5. (m - 1) + 1 = m
    BY <2>1
  <2> QED
    BY <2>1, <2>4, <2>5
<1> QED
  BY <1>5

\* The sum of integers over a finite set is an integer.
LEMMA SumIsInteger ==
    ASSUME NEW row, NEW S, IsFiniteSet(S), \A j \in S : row[j] \in Int
    PROVE  RowSum(row, S) \in Int
<1> DEFINE sum == CHOOSE f : Sums(row, SUBSET S, f)
           Bad == {s \in SUBSET S : sum[s] \notin Int}
           Sizes == {Cardinality(s) : s \in Bad}
<1>1. ASSUME NEW s \in SUBSET S
      PROVE  IsFiniteSet(s) /\ Cardinality(s) \in Nat /\ Cardinality(s) <= Cardinality(S)
  BY FS_Subset, FS_CardinalityType
<1>2. Subsets(S, Cardinality(S)) = SUBSET S
  BY <1>1 DEF Subsets
<1>3. Sums(row, SUBSET S, sum)
  <2>1. \E f : Sums(row, SUBSET S, f)
    <3>1. Cardinality(S) \in Nat
      BY FS_CardinalityType
    <3>2. \A n \in Nat : \E f : Sums(row, Subsets(S, n), f)
      BY SumExists
    <3> QED
      BY <1>2, <3>1, <3>2
  <2> QED
    BY <2>1
<1>4. RowSum(row, S) = sum[S]
  BY DEF RowSum, Sums
<1> HIDE DEF sum
<1>5. \A s \in SUBSET S : sum[s] = SumStep(row, sum, s)
  BY <1>3 DEF Sums
<1>6. ASSUME Bad # {}
      PROVE  FALSE
  <2>1. Sizes \in SUBSET Nat /\ Sizes # {}
    BY <1>1, <1>6
  <2>2. PICK size \in Sizes : \A n \in Sizes : size <= n
    BY <2>1, LeastNatural
  <2>3. PICK s \in Bad : size = Cardinality(s)
    OBVIOUS
  <2>4. s # {}
    BY <1>5, <2>3 DEF SumStep
  <2> DEFINE x == CHOOSE x \in s : TRUE
  <2>5. x \in s
    BY <2>4
  <2>6. s \ {x} \in SUBSET S /\ Cardinality(s \ {x}) = Cardinality(s) - 1
    BY <1>1, <2>3, <2>5, FS_RemoveElement
  <2>7. sum[s \ {x}] \in Int
    BY <1>1, <2>1, <2>2, <2>3, <2>6
  <2>8. sum[s] = row[x] + sum[s \ {x}]
    BY <1>5, <2>3, <2>4 DEF SumStep
  <2> QED
    BY <2>3, <2>5, <2>7, <2>8
<1>7. S \in SUBSET S /\ S \notin Bad
  BY <1>6
<1> QED
  BY <1>4, <1>7

-----------------------------------------------------------------------------
(* The p-value.                                                             *)

\* The nonconformity of every item of a bag of integer distances is a number.
LEMMA NonconformityTyped ==
    ASSUME NEW bag, IsFiniteSet(bag), NEW d, \A i, j \in bag : d[i][j] \in Int, NEW k
    PROVE  \A i \in bag : Nonconformity(d, bag, k)[i] \in Int
<1> TAKE i \in bag
<1>1. Nearest(d, bag, i, k) \subseteq bag
  BY DEF Nearest
<1>2. Nonconformity(d, bag, k)[i] = RowSum(d[i], Nearest(d, bag, i, k))
  BY DEF Nonconformity, MapThenSumSet, MapThenFoldSet, RowSum, SumStep
<1>3. RowSum(d[i], Nearest(d, bag, i, k)) \in Int
  <2>1. IsFiniteSet(Nearest(d, bag, i, k))
    BY <1>1, FS_Subset
  <2>2. \A j \in Nearest(d, bag, i, k) : d[i][j] \in Int
    BY <1>1
  <2> QED
    BY <2>1, <2>2, SumIsInteger
<1> QED
  BY <1>2, <1>3

\* The items at least as unusual as c, and those with a count of t or less.
Rivals(bag, alpha, c) == {r \in bag \ {c} : alpha[r] >= alpha[c]}
Extreme(bag, alpha, t) == {c \in bag : 1 + Cardinality(Rivals(bag, alpha, c)) <= t}

\* Ranked by any integer value, at most t items have a count of t or less: the
\* least unusual of them counts all the others.
LEMMA FewAreExtreme ==
    ASSUME NEW bag, IsFiniteSet(bag), NEW alpha, \A c \in bag : alpha[c] \in Int,
           NEW t \in Nat
    PROVE  Cardinality(Extreme(bag, alpha, t)) <= t
<1> DEFINE low == Extreme(bag, alpha, t)
<1>1. low \subseteq bag /\ IsFiniteSet(low)
  <2>1. low \subseteq bag
    BY DEF Extreme
  <2> QED
    BY <2>1, FS_Subset
<1>2. CASE low = {}
  BY <1>2, FS_EmptySet
<1>3. CASE low # {}
  <2>1. PICK m \in low : \A c \in low : alpha[m] <= alpha[c]
    BY <1>1, <1>3, LeastValue
  <2>2. low \ {m} \subseteq Rivals(bag, alpha, m)
    BY <1>1, <2>1 DEF Rivals
  <2>3. IsFiniteSet(Rivals(bag, alpha, m))
    BY FS_Subset DEF Rivals
  <2>4. Cardinality(low \ {m}) <= Cardinality(Rivals(bag, alpha, m))
    BY <2>2, <2>3, FS_Subset
  <2>5. Cardinality(low \ {m}) = Cardinality(low) - 1
    BY <1>1, <2>1, FS_RemoveElement
  <2>6. 1 + Cardinality(Rivals(bag, alpha, m)) <= t
    BY <2>1 DEF Extreme
  <2>7. Cardinality(low) \in Nat /\ Cardinality(Rivals(bag, alpha, m)) \in Nat
    BY <1>1, <2>3, FS_CardinalityType
  <2> QED
    BY <2>4, <2>5, <2>6, <2>7
<1> QED
  BY <1>2, <1>3

\* Whoever is the candidate, the bag is ranked by the same values.
LEMMA CountOverBag ==
    ASSUME NEW bag, IsFiniteSet(bag), NEW d, NEW k, NEW c \in bag
    PROVE  PCount(d, bag \ {c}, c, k)
             = 1 + Cardinality(Rivals(bag,
                 Nonconformity(d, bag, Smaller(k, Cardinality(bag) - 1)), c))
<1>1. (bag \ {c}) \cup {c} = bag
  OBVIOUS
<1>2. Cardinality(bag \ {c}) = Cardinality(bag) - 1
  BY FS_RemoveElement
<1> QED
  BY <1>1, <1>2 DEF PCount, AtLeastAsUnusual, Rivals

\* conformal_p_value is valid for every finite bag with integer distances, every
\* number of neighbours and every bound on the count.
THEOREM PValuesAreValid ==
    ASSUME input.kind = "bag" =>
             /\ IsFiniteSet(input.bag)
             /\ \A i, j \in input.bag : input.d[i][j] \in Int
    PROVE  PValueIsValid
<1> SUFFICES ASSUME input.kind = "bag", NEW t \in 0..Cardinality(input.bag)
             PROVE  Cardinality({c \in input.bag :
                        PCount(input.d, input.bag \ {c}, c, input.k) <= t}) <= t
  BY DEF PValueIsValid
<1> DEFINE alpha == Nonconformity(input.d, input.bag,
                                  Smaller(input.k, Cardinality(input.bag) - 1))
<1>1. {c \in input.bag : PCount(input.d, input.bag \ {c}, c, input.k) <= t}
        = Extreme(input.bag, alpha, t)
  BY CountOverBag DEF Extreme
<1>2. \A c \in input.bag : alpha[c] \in Int
  BY NonconformityTyped
<1>3. t \in Nat
  OBVIOUS
<1> HIDE DEF alpha
<1> QED
  BY <1>1, <1>2, <1>3, FewAreExtreme

-----------------------------------------------------------------------------
(* The reducer.                                                             *)

\* What the contract says of the first n events.
SeenUpTo(h, n) == {EventProviderHandle(h[i]) : i \in 1..n} \ {NoHandle}

TraceUpTo(attempt, h, n) ==
    /\ \A i \in 1..n : h[i].attempt = attempt /\ h[i].sequence = i
    /\ n # 0 => h[1].state = "prepared"
    /\ \A i \in 2..n : /\ h[i].state \in LegalTransitions[h[i - 1].state]
                       /\ CancellationAuthority(h[i - 1].state, h[i])
    /\ \A h1, h2 \in SeenUpTo(h, n) : h1 = h2

HandleAmong(S) == IF S = {} THEN NoHandle ELSE CHOOSE x \in S : TRUE

HeadAt(h, n) ==
    IF n = 0 THEN EmptyHead
    ELSE [state |-> h[n].state, head |-> h[n], next |-> n + 1,
          handle |-> HandleAmong(SeenUpTo(h, n))]

VerdictAt(attempt, h, n) == IF TraceUpTo(attempt, h, n) THEN HeadAt(h, n) ELSE Rejected

\* One step of the pass.
PassStep(attempt, h, n, before) ==
    IF ~Accepts(attempt, before, n, h[n]) THEN Rejected
    ELSE [state  |-> h[n].state,
          head   |-> h[n],
          next   |-> n + 1,
          handle |-> IF EventProviderHandle(h[n]) = NoHandle
                       THEN before.handle ELSE EventProviderHandle(h[n])]

\* The one handle remembered decides whether the next one is the same.
LEMMA HandleRemembered ==
    ASSUME NEW S, NoHandle \notin S, \A x, y \in S : x = y, NEW p,
           NEW T, T = S \cup ({p} \ {NoHandle})
    PROVE  /\ (\A x, y \in T : x = y)
                <=> (NoHandle \in {p, HandleAmong(S)} \/ p = HandleAmong(S))
           /\ (\A x, y \in T : x = y)
                => HandleAmong(T) = IF p = NoHandle THEN HandleAmong(S) ELSE p
<1>1. CASE p = NoHandle
  <2>1. T = S
    BY <1>1
  <2> QED
    BY <1>1, <2>1
<1>2. CASE p # NoHandle /\ S = {}
  <2>1. T = {p}
    BY <1>2
  <2>2. HandleAmong(S) = NoHandle /\ HandleAmong(T) = p
    BY <1>2, <2>1 DEF HandleAmong
  <2> QED
    BY <1>2, <2>1, <2>2
<1>3. CASE p # NoHandle /\ S # {}
  <2>1. PICK x \in S : S = {x}
    BY <1>3
  <2>2. HandleAmong(S) = x /\ x # NoHandle
    BY <2>1 DEF HandleAmong
  <2>3. T = {x, p}
    BY <1>3, <2>1
  <2>4. (\A y, z \in T : y = z) => p = x /\ T = {p}
    BY <2>3
  <2>5. T = {p} => HandleAmong(T) = p
    BY DEF HandleAmong
  <2> QED
    BY <1>3, <2>2, <2>3, <2>4, <2>5
<1> QED
  BY <1>1, <1>2, <1>3

\* An event continues a legal history exactly when the pass accepts it, and then
\* the pass has the head of the longer one.
LEMMA StepAgrees ==
    ASSUME NEW attempt, NEW h \in Seq(Events), NEW n \in 1..Len(h)
    PROVE  PassStep(attempt, h, n, VerdictAt(attempt, h, n - 1)) = VerdictAt(attempt, h, n)
<1> DEFINE e == h[n]
           p == EventProviderHandle(e)
           seen == SeenUpTo(h, n - 1)
           before == HeadAt(h, n - 1)
           Continues == IF n = 1 THEN e.state = "prepared"
                        ELSE /\ e.state \in LegalTransitions[h[n - 1].state]
                             /\ CancellationAuthority(h[n - 1].state, e)
           Admits == IF before.state = "none" THEN e.state = "prepared"
                     ELSE /\ before.state \notin TerminalStates
                          /\ e.state \in LegalTransitions[before.state]
                          /\ CancellationAuthority(before.state, e)
<1>1. \A i \in 1..n : h[i] \in Events /\ h[i].state \in States
  BY DEF Events
<1>2. CASE ~TraceUpTo(attempt, h, n - 1)
  <2>1. ~TraceUpTo(attempt, h, n)
    <3>1. SeenUpTo(h, n - 1) \subseteq SeenUpTo(h, n)
      BY DEF SeenUpTo
    <3> QED
      BY <1>2, <3>1 DEF TraceUpTo
  <2> QED
    BY <1>2, <2>1 DEF PassStep, VerdictAt, Accepts
<1>3. CASE TraceUpTo(attempt, h, n - 1)
  <2>1. SeenUpTo(h, n) = seen \cup ({p} \ {NoHandle})
    <3>1. 1..n = (1..(n - 1)) \cup {n}
      OBVIOUS
    <3> QED
      BY <3>1 DEF SeenUpTo
  <2>2. NoHandle \notin seen /\ \A x, y \in seen : x = y
    BY <1>3 DEF TraceUpTo, SeenUpTo
  <2>3. /\ (\A x, y \in SeenUpTo(h, n) : x = y)
             <=> (NoHandle \in {p, HandleAmong(seen)} \/ p = HandleAmong(seen))
        /\ (\A x, y \in SeenUpTo(h, n) : x = y)
             => HandleAmong(SeenUpTo(h, n)) = IF p = NoHandle THEN HandleAmong(seen) ELSE p
    <3>1. \A S, q, T :
             (NoHandle \notin S /\ (\A x, y \in S : x = y) /\ T = S \cup ({q} \ {NoHandle}))
               => /\ (\A x, y \in T : x = y)
                       <=> (NoHandle \in {q, HandleAmong(S)} \/ q = HandleAmong(S))
                  /\ (\A x, y \in T : x = y)
                       => HandleAmong(T) = IF q = NoHandle THEN HandleAmong(S) ELSE q
      BY HandleRemembered
    <3> HIDE DEF seen, p
    <3> QED
      BY <2>1, <2>2, <3>1
  <2>4. before.handle = HandleAmong(seen)
    <3>1. CASE n = 1
      <4>1. seen = {}
        BY <3>1 DEF SeenUpTo
      <4> QED
        BY <3>1, <4>1 DEF HeadAt, EmptyHead, HandleAmong
    <3>2. CASE n # 1
      BY <3>2 DEF HeadAt
    <3> QED
      BY <3>1, <3>2
  <2>5. before # Rejected
    BY DEF HeadAt, EmptyHead, Rejected
  <2>6. Admits <=> Continues
    <3>1. CASE n = 1
      BY <3>1 DEF HeadAt, EmptyHead
    <3>2. CASE n # 1
      <4>1. before.state = h[n - 1].state /\ h[n - 1].state \in States
        BY <1>1, <3>2 DEF HeadAt
      <4>2. before.state # "none"
        BY <4>1 DEF States
      <4>3. before.state \in TerminalStates => LegalTransitions[before.state] = {}
        BY DEF TerminalStates, LegalTransitions
      <4> QED
        BY <3>2, <4>1, <4>2, <4>3
    <3> QED
      BY <3>1, <3>2
  <2>7. Accepts(attempt, before, n, e) <=> TraceUpTo(attempt, h, n)
    <3>1. Accepts(attempt, before, n, e)
            <=> /\ e.attempt = attempt /\ e.sequence = n
                /\ Continues
                /\ NoHandle \in {p, HandleAmong(seen)} \/ p = HandleAmong(seen)
      <4>1. Accepts(attempt, before, n, e)
              <=> /\ before # Rejected
                  /\ e.attempt = attempt /\ e.sequence = n
                  /\ Admits
                  /\ NoHandle \in {p, before.handle} \/ p = before.handle
        BY DEF Accepts
      <4> HIDE DEF before, Admits, Continues, p, seen, e
      <4> QED
        BY <2>4, <2>5, <2>6, <4>1
    <3>2. TraceUpTo(attempt, h, n)
            <=> /\ e.attempt = attempt /\ e.sequence = n
                /\ Continues
                /\ \A x, y \in SeenUpTo(h, n) : x = y
      <4>1. ASSUME TraceUpTo(attempt, h, n)
            PROVE  /\ e.attempt = attempt /\ e.sequence = n
                   /\ Continues
                   /\ \A x, y \in SeenUpTo(h, n) : x = y
        BY <4>1 DEF TraceUpTo
      <4>2. ASSUME e.attempt = attempt, e.sequence = n, Continues,
                   \A x, y \in SeenUpTo(h, n) : x = y
            PROVE  TraceUpTo(attempt, h, n)
        <5>1. \A i \in 1..n : h[i].attempt = attempt /\ h[i].sequence = i
          BY <1>3, <4>2 DEF TraceUpTo
        <5>2. h[1].state = "prepared"
          BY <1>3, <4>2 DEF TraceUpTo
        <5>3. \A i \in 2..n : /\ h[i].state \in LegalTransitions[h[i - 1].state]
                              /\ CancellationAuthority(h[i - 1].state, h[i])
          BY <1>3, <4>2 DEF TraceUpTo
        <5> QED
          BY <4>2, <5>1, <5>2, <5>3 DEF TraceUpTo
      <4> QED
        BY <4>1, <4>2
    <3> QED
      BY <2>3, <3>1, <3>2
  <2>8. TraceUpTo(attempt, h, n) => PassStep(attempt, h, n, before) = HeadAt(h, n)
    <3> SUFFICES ASSUME TraceUpTo(attempt, h, n)
                 PROVE  PassStep(attempt, h, n, before) = HeadAt(h, n)
      OBVIOUS
    <3>1. \A x, y \in SeenUpTo(h, n) : x = y
      BY DEF TraceUpTo
    <3>2. HandleAmong(SeenUpTo(h, n)) = IF p = NoHandle THEN before.handle ELSE p
      BY <2>3, <2>4, <3>1
    <3> QED
      BY <2>7, <3>2 DEF PassStep, HeadAt
  <2> QED
    BY <1>3, <2>7, <2>8 DEF VerdictAt, PassStep
<1> QED
  BY <1>2, <1>3

\* The pass over a history, and its value at every position.
Passes(attempt, h, f) ==
    f = [n \in 0..Len(h) |-> IF n = 0 THEN EmptyHead ELSE PassStep(attempt, h, n, f[n - 1])]

LEMMA PassExists ==
    ASSUME NEW attempt, NEW h \in Seq(Events)
    PROVE  Passes(attempt, h, [n \in 0..Len(h) |-> VerdictAt(attempt, h, n)])
<1> DEFINE f == [n \in 0..Len(h) |-> VerdictAt(attempt, h, n)]
<1>1. ASSUME NEW n \in 0..Len(h)
      PROVE  VerdictAt(attempt, h, n)
               = IF n = 0 THEN EmptyHead ELSE PassStep(attempt, h, n, f[n - 1])
  <2>1. CASE n = 0
    BY <2>1 DEF VerdictAt, TraceUpTo, SeenUpTo, HeadAt
  <2>2. CASE n # 0
    <3>1. f[n - 1] = VerdictAt(attempt, h, n - 1)
      BY <2>2
    <3> QED
      BY <2>2, <3>1, StepAgrees
  <2> QED
    BY <2>1, <2>2
<1> HIDE DEF f
<1>2. f = [n \in 0..Len(h) |-> IF n = 0 THEN EmptyHead
                               ELSE PassStep(attempt, h, n, f[n - 1])]
  BY <1>1 DEF f
<1> QED
  BY <1>2 DEF Passes, f

LEMMA PassIsVerdict ==
    ASSUME NEW attempt, NEW h \in Seq(Events), NEW f, Passes(attempt, h, f)
    PROVE  \A n \in 0..Len(h) : f[n] = VerdictAt(attempt, h, n)
<1> DEFINE Wrong == {n \in 0..Len(h) : f[n] # VerdictAt(attempt, h, n)}
<1>1. \A n \in 0..Len(h) :
         f[n] = IF n = 0 THEN EmptyHead ELSE PassStep(attempt, h, n, f[n - 1])
  BY DEF Passes
<1>2. f[0] = VerdictAt(attempt, h, 0)
  BY <1>1 DEF VerdictAt, TraceUpTo, SeenUpTo, HeadAt
<1>3. ASSUME Wrong # {}
      PROVE  FALSE
  <2>1. PICK n \in Wrong : \A m \in Wrong : n <= m
    <3>1. Wrong \in SUBSET Nat
      OBVIOUS
    <3> HIDE DEF Wrong
    <3> QED
      BY <1>3, <3>1, LeastNatural
  <2>2. n \in 1..Len(h)
    BY <1>2, <2>1
  <2>3. f[n - 1] = VerdictAt(attempt, h, n - 1)
    BY <2>1, <2>2
  <2>4. f[n] = VerdictAt(attempt, h, n)
    BY <1>1, <2>2, <2>3, StepAgrees
  <2> QED
    BY <2>1, <2>4
<1> QED
  BY <1>3

\* reduce_attempt_events accepts exactly the legal histories and returns their
\* head.
LEMMA ReducesByContract ==
    ASSUME NEW attempt, NEW h \in Seq(Events)
    PROVE  Reduce(attempt, h)
             = IF LegalHistory(attempt, h) THEN HeadOf(h) ELSE Rejected
<1> DEFINE f == CHOOSE f : Passes(attempt, h, f)
<1>1. Passes(attempt, h, f)
  BY PassExists
<1>2. Reduce(attempt, h) = IF Len(h) > MaxEvents THEN Rejected ELSE f[Len(h)]
  BY DEF Reduce, Passes, PassStep
<1>3. f[Len(h)] = VerdictAt(attempt, h, Len(h))
  BY <1>1, PassIsVerdict
<1>4. TraceUpTo(attempt, h, Len(h)) <=> LegalTrace(attempt, h)
  <2>1. h # <<>> <=> Len(h) # 0
    OBVIOUS
  <2>2. SeenUpTo(h, Len(h)) = HandlesSeen(h)
    BY DEF SeenUpTo, HandlesSeen
  <2> QED
    BY <2>1, <2>2 DEF TraceUpTo, LegalTrace
<1>5. HeadAt(h, Len(h)) = HeadOf(h)
  BY DEF HeadAt, HeadOf, SeenUpTo, HandlesSeen, HandleAmong
<1>6. Len(h) > MaxEvents <=> ~(Len(h) <= MaxEvents)
  BY DEF MaxEvents
<1> QED
  BY <1>2, <1>3, <1>4, <1>5, <1>6 DEF LegalHistory, VerdictAt

\* Where the states of a legal history can stand.
LEMMA Stages ==
    ASSUME NEW attempt, NEW h \in Seq(Events), LegalTrace(attempt, h)
    PROVE  \A i \in 1..Len(h) :
              /\ i = 1 <=> h[i].state = "prepared"
              /\ i = 2 => h[i].state \in {"submitted", "failed", "cancelled"}
              /\ i > 2 => h[i].state \in {"outcome_unknown", "response_received"}
                                            \cup TerminalStates
              /\ i > 3 => h[i].state \in {"response_received"} \cup TerminalStates
              /\ i > 4 => h[i].state \in TerminalStates
              /\ i < 6
<1> DEFINE s(i) == h[i].state
<1>1. \A i \in 1..Len(h) : s(i) \in States
  BY DEF Events
<1>2. \A i \in 1..Len(h) : i > 1 => /\ i - 1 \in 1..Len(h)
                                     /\ s(i) \in LegalTransitions[s(i - 1)]
  BY DEF LegalTrace
<1>3. 1 \in 1..Len(h) => s(1) = "prepared"
  BY DEF LegalTrace
<1>4. /\ LegalTransitions["prepared"] = {"failed", "cancelled", "submitted"}
      /\ LegalTransitions["submitted"]
           = {"response_received", "failed", "cancelled", "outcome_unknown"}
      /\ LegalTransitions["outcome_unknown"] = {"response_received", "failed", "cancelled"}
      /\ LegalTransitions["response_received"] = {"succeeded", "failed"}
      /\ \A t \in TerminalStates : LegalTransitions[t] = {}
  BY DEF LegalTransitions, TerminalStates
<1>5. \A i \in 1..Len(h) : i > 1 => s(i) # "prepared"
  BY <1>1, <1>2, <1>4 DEF States, TerminalStates
<1>6. 2 \in 1..Len(h) => s(2) \in {"submitted", "failed", "cancelled"}
  BY <1>2, <1>3, <1>4
<1>7. \A i \in 1..Len(h) : i > 2 => s(i) # "submitted"
  <2> TAKE i \in 1..Len(h)
  <2> HAVE i > 2
  <2>1. i - 1 \in 1..Len(h) /\ s(i) \in LegalTransitions[s(i - 1)]
    BY <1>2
  <2>2. s(i - 1) \in States \ {"prepared"}
    BY <1>1, <1>5, <2>1
  <2>3. \A t \in States \ {"prepared"} : "submitted" \notin LegalTransitions[t]
    BY <1>4 DEF States, TerminalStates
  <2> QED
    BY <2>1, <2>2, <2>3
<1>8. \A i \in 1..Len(h) : i > 2 => s(i) \in {"outcome_unknown", "response_received"}
                                               \cup TerminalStates
  BY <1>1, <1>5, <1>7 DEF States, TerminalStates
<1>9. \A i \in 1..Len(h) : i > 3 => s(i) \in {"response_received"} \cup TerminalStates
  <2> TAKE i \in 1..Len(h)
  <2> HAVE i > 3
  <2>1. s(i) \in LegalTransitions[s(i - 1)]
    BY <1>2
  <2>2. s(i - 1) \in {"outcome_unknown", "response_received"} \cup TerminalStates
    BY <1>8
  <2> QED
    BY <1>4, <2>1, <2>2 DEF TerminalStates
<1>10. \A i \in 1..Len(h) : i > 4 => s(i) \in TerminalStates
  <2> TAKE i \in 1..Len(h)
  <2> HAVE i > 4
  <2>1. s(i) \in LegalTransitions[s(i - 1)]
    BY <1>2
  <2>2. s(i - 1) \in {"response_received"} \cup TerminalStates
    BY <1>9
  <2> QED
    BY <1>4, <2>1, <2>2 DEF TerminalStates
<1>11. \A i \in 1..Len(h) : i < 6
  <2> TAKE i \in 1..Len(h)
  <2>1. CASE i > 5
    <3>1. s(i) \in LegalTransitions[s(i - 1)]
      BY <1>2, <2>1
    <3>2. s(i - 1) \in TerminalStates
      BY <1>10, <2>1
    <3> QED
      BY <1>4, <3>1, <3>2
  <2> QED
    BY <2>1
<1> QED
  BY <1>3, <1>5, <1>6, <1>8, <1>9, <1>10, <1>11

\* A history that ends in success is one of the bundle validator's two traces.
LEMMA SuccessIsBundled ==
    ASSUME NEW attempt, NEW h \in Seq(Events), LegalTrace(attempt, h),
           HeadOf(h).state = "succeeded"
    PROVE  BundleTrace(h)
<1> DEFINE s(i) == h[i].state
           n == Len(h)
<1>0. n \in Nat
  OBVIOUS
<1>1. h # <<>> /\ n \in 1..n /\ s(n) = "succeeded"
  BY DEF HeadOf, EmptyHead
<1>2. \A i \in 1..n : i > 1 => /\ i - 1 \in 1..n
                                /\ s(i) \in LegalTransitions[s(i - 1)]
                                /\ s(i - 1) \in States
  BY DEF LegalTrace, Events
<1>3. /\ \A t \in States : "succeeded" \in LegalTransitions[t] <=> t = "response_received"
      /\ \A t \in States : "response_received" \in LegalTransitions[t]
                              <=> t \in {"submitted", "outcome_unknown"}
      /\ \A t \in States : "outcome_unknown" \in LegalTransitions[t] <=> t = "submitted"
  BY DEF States, LegalTransitions
<1>4. n > 1 /\ s(n - 1) = "response_received"
  <2>1. n > 1
    BY <1>1, Stages
  <2>2. s(n) \in LegalTransitions[s(n - 1)] /\ s(n - 1) \in States
    BY <1>1, <1>2, <2>1
  <2> QED
    BY <1>1, <1>3, <2>1, <2>2
<1>5. n > 2 /\ s(n - 2) \in {"submitted", "outcome_unknown"}
  <2>1. n - 1 \in 1..n
    BY <1>1, <1>4
  <2>2. n - 1 # 1
    BY <1>4, <2>1, Stages
  <2>3. n - 1 > 1
    <3> HIDE DEF n
    <3> QED
      BY <1>0, <2>1, <2>2
  <2>4. (n - 1) - 1 = n - 2
    OBVIOUS
  <2>5. s(n - 1) \in LegalTransitions[s(n - 2)] /\ s(n - 2) \in States
    BY <1>2, <2>1, <2>3, <2>4
  <2> QED
    BY <1>3, <1>4, <2>3, <2>5
<1>6. CASE s(n - 2) = "submitted"
  <2>1. n = 4
    <3>1. n - 2 \in 1..n
      BY <1>5
    <3>2. n - 2 # 1 /\ ~(n - 2 > 2)
      BY <1>6, <3>1, Stages DEF TerminalStates
    <3> HIDE DEF n
    <3> QED
      BY <1>0, <3>1, <3>2
  <2>2. s(1) = "prepared"
    BY <2>1, Stages
  <2>3. [i \in 1..n |-> h[i].state]
          = <<"prepared", "submitted", "response_received", "succeeded">>
    BY <1>1, <1>4, <1>6, <2>1, <2>2
  <2> QED
    BY <1>1, <2>3 DEF BundleTrace, LegalTrace
<1>7. CASE s(n - 2) = "outcome_unknown"
  <2>1. n = 5
    <3>1. n - 2 \in 1..n
      BY <1>5
    <3>2. n - 2 # 1 /\ n - 2 # 2
      BY <1>7, <3>1, Stages
    <3>3. n < 6
      BY <1>1, Stages
    <3> HIDE DEF n
    <3> QED
      BY <1>0, <3>1, <3>2, <3>3
  <2>2. s(1) = "prepared"
    BY <2>1, Stages
  <2>3. s(2) = "submitted"
    <3>1. s(3) \in LegalTransitions[s(2)] /\ s(2) \in States
      BY <1>2, <2>1
    <3> QED
      BY <1>3, <1>7, <2>1, <3>1
  <2>4. [i \in 1..n |-> h[i].state]
          = <<"prepared", "submitted", "outcome_unknown", "response_received", "succeeded">>
    BY <1>1, <1>4, <1>7, <2>1, <2>2, <2>3
  <2> QED
    BY <1>1, <2>4 DEF BundleTrace, LegalTrace
<1> QED
  BY <1>5, <1>6, <1>7

\* The reducer of attempt_state.py and its contract agree on every sequence of
\* events whatever, of any length; no legal history is longer than the code's
\* bound; and every success has a shape the bundle validator admits.
THEOREM ReducerAgrees ==
    ASSUME history \in Seq(Events)
    PROVE  ReducerMeetsContract
<1>1. IF LegalHistory(Subject, history)
        THEN Reduce(Subject, history) = HeadOf(history)
        ELSE Reduce(Subject, history) = Rejected
  BY ReducesByContract
<1>2. LegalTrace(Subject, history) => Len(history) <= MaxEvents
  <2> SUFFICES ASSUME LegalTrace(Subject, history)
               PROVE  Len(history) <= 5
    BY DEF MaxEvents
  <2>1. \A i \in 1..Len(history) : i < 6
    BY Stages
  <2> QED
    BY <2>1
<1>3. (LegalHistory(Subject, history) /\ HeadOf(history).state = "succeeded")
        => BundleTrace(history)
  BY SuccessIsBundled DEF LegalHistory
<1> QED
  BY <1>1, <1>2, <1>3 DEF ReducerMeetsContract

-----------------------------------------------------------------------------
(* The compositor.                                                          *)

LEMMA DivisionBounds ==
    ASSUME NEW a \in Nat, NEW b \in Nat \ {0}
    PROVE  a \div b \in Nat /\ b * (a \div b) <= a /\ a < b * ((a \div b) + 1)
  OBVIOUS

LEMMA LessByProduct ==
    ASSUME NEW b \in Nat \ {0}, NEW q \in Nat, NEW s \in Nat, b * q < b * s
    PROVE  q < s
  OBVIOUS

\* _nearest_source_offset takes the sample under the centre, for all sizes; the
\* clamp to the last sample never bites.
THEOREM NearestIsUnderCentre ==
    ASSUME NEW sourceSpan \in Nat \ {0}, NEW targetSpan \in Nat \ {0},
           NEW i \in 0..(targetSpan - 1)
    PROVE  NearestOffset(i, sourceSpan, targetSpan) = UnderCentre(i, sourceSpan, targetSpan)
<1> DEFINE a == (2 * i + 1) * sourceSpan
           b == 2 * targetSpan
           q == a \div b
<1>1. a \in Nat /\ b \in Nat \ {0}
  OBVIOUS
<1>2. q \in Nat /\ b * q <= a /\ a < b * (q + 1)
  <2> HIDE DEF a, b
  <2> QED
    BY <1>1, DivisionBounds
<1>3. a < b * sourceSpan
  <2>1. 2 * i + 1 < b /\ 2 * i + 1 \in Nat
    OBVIOUS
  <2>2. \A m, n \in Nat, k \in Nat \ {0} : m < n => m * k < n * k
    OBVIOUS
  <2> HIDE DEF b
  <2> QED
    BY <1>1, <2>1, <2>2
<1>4. q < sourceSpan
  <2>1. b * q < b * sourceSpan
    <3> HIDE DEF a, b, q
    <3> QED
      BY <1>1, <1>2, <1>3
  <2> HIDE DEF b, q
  <2> QED
    BY <1>1, <1>2, <2>1, LessByProduct
<1>5. NearestOffset(i, sourceSpan, targetSpan) = q
  <2>1. q \in {sourceSpan - 1, q} /\ \A y \in {sourceSpan - 1, q} : q <= y
    BY <1>2, <1>4
  <2>2. \A m, n \in {sourceSpan - 1, q} :
           (\A y \in {sourceSpan - 1, q} : m <= y /\ n <= y) => m = n
    BY <1>2
  <2>3. NearestOffset(i, sourceSpan, targetSpan) = Min({sourceSpan - 1, q})
    BY DEF NearestOffset
  <2> HIDE DEF q
  <2> QED
    BY <2>1, <2>2, <2>3 DEF Min
<1>6. q \in 0..(sourceSpan - 1) /\ b * q <= a /\ a < b * (q + 1)
  BY <1>2, <1>4
<1>7. ASSUME NEW s \in 0..(sourceSpan - 1), b * s <= a, a < b * (s + 1)
      PROVE  s = q
  <2> HIDE DEF a, b, q
  <2>1. b * s < b * (q + 1) /\ b * q < b * (s + 1) /\ s \in Nat
    BY <1>1, <1>2, <1>7
  <2>2. s < q + 1 /\ q < s + 1
    BY <1>1, <1>2, <2>1, LessByProduct
  <2> QED
    BY <1>2, <2>1, <2>2
<1>8. UnderCentre(i, sourceSpan, targetSpan)
        = CHOOSE s \in 0..(sourceSpan - 1) : b * s <= a /\ a < b * (s + 1)
  BY DEF UnderCentre
<1> HIDE DEF a, b, q
<1> QED
  BY <1>5, <1>6, <1>7, <1>8

\* The picture with the insert pasted, encoded.
ComposedPng(x) ==
    EncodePng([w |-> x.source.w, h |-> x.source.h,
               px |-> Paste(x.source, x.insert, x.packet.region)])

\* What Compose went through when it did not fail.
LEMMA ComposeSteps ==
    ASSUME NEW x, ~IsFailed(Compose(x))
    PROVE  /\ AncestryReplays(x)
           /\ PacketBinds(x)
           /\ x.insert = CompileInsert(x.raster, x.raw, x.structural, x.locality,
                                       x.confirmation)
           /\ ~IsFailed(x.insert)
           /\ Compose(x) = Produce(x, ComposedPng(x), Compile(ComposedPng(x), ComposedPng(x)))
  BY DEF Compose, ComposedPng, IsFailed, Failed

\* The confirmed crop of a raster, resampled to the confirmed region.
InsertPixels(raster, c) ==
    [q \in (0..(Width(c.target.bounds) - 1)) \X (0..(Height(c.target.bounds) - 1)) |->
       raster.px[<<c.crop.left + NearestOffset(q[1], Width(c.crop), Width(c.target.bounds)),
                   c.crop.top + NearestOffset(q[2], Height(c.crop),
                                              Height(c.target.bounds))>>]]

\* What a compiled insert is.
LEMMA InsertSteps ==
    ASSUME NEW raster, NEW raw, NEW structural, NEW locality, NEW c,
           ~IsFailed(CompileInsert(raster, raw, structural, locality, c))
    PROVE  /\ RawInputsBind(raster, raw, structural, locality, c)
           /\ CompileInsert(raster, raw, structural, locality, c).px = InsertPixels(raster, c)
<1> DEFINE made == CompileInsert(raster, raw, structural, locality, c)
<1>1. RawInputsBind(raster, raw, structural, locality, c)
        /\ Inside(c.crop, raster.w, raster.h)
  BY DEF CompileInsert, IsFailed, Failed
<1> QED
  BY <1>1 DEF CompileInsert, InsertPixels

\* What Produce hands back when it does not fail.
LEMMA ProduceSteps ==
    ASSUME NEW x, NEW png, NEW compiled, ~IsFailed(Produce(x, png, compiled))
    PROVE  LET made == Produce(x, png, compiled)
           IN /\ made.output = compiled.raster
              /\ made.output.px = png.image.px
              /\ OccurrenceOK(made.occurrence, png)
              /\ made.occurrence =
                   [intent |-> x.packet, original |-> png, output |-> compiled.raster,
                    lineage |-> [source |-> x.source, mask |-> x.mask, raw |-> x.raw,
                                 raster |-> x.raster, structural |-> x.structural,
                                 locality |-> x.locality, insert |-> x.insert,
                                 confirmation |-> x.insert.confirmation]]
  BY DEF Produce, IsFailed, Failed

LEMMA ComposedOccurrence ==
    ASSUME NEW x, ~IsFailed(Compose(x))
    PROVE  LET made == Compose(x)
               png == ComposedPng(x)
           IN /\ made.output.px = png.image.px
              /\ OccurrenceOK(made.occurrence, png)
              /\ made.occurrence =
                   [intent |-> x.packet, original |-> png, output |-> Compile(png, png).raster,
                    lineage |-> [source |-> x.source, mask |-> x.mask, raw |-> x.raw,
                                 raster |-> x.raster, structural |-> x.structural,
                                 locality |-> x.locality, insert |-> x.insert,
                                 confirmation |-> x.insert.confirmation]]
<1> DEFINE png == ComposedPng(x)
           compiled == Compile(png, png)
<1>1. Compose(x) = Produce(x, png, compiled)
  BY ComposeSteps
<1> HIDE DEF png, compiled
<1>2. ~IsFailed(Produce(x, png, compiled))
  BY <1>1
<1>3. /\ Compose(x).output.px = png.image.px
      /\ OccurrenceOK(Compose(x).occurrence, png)
      /\ Compose(x).occurrence =
           [intent |-> x.packet, original |-> png, output |-> compiled.raster,
            lineage |-> [source |-> x.source, mask |-> x.mask, raw |-> x.raw,
                         raster |-> x.raster, structural |-> x.structural,
                         locality |-> x.locality, insert |-> x.insert,
                         confirmation |-> x.insert.confirmation]]
  BY <1>1, <1>2, ProduceSteps
<1> QED
  BY <1>3 DEF png, compiled

\* One operation has one output: what two calls compose under one key is the same
\* occurrence, bytes included, so resolve_compositor_replay finds no conflict
\* between them, whatever each caller handed in.
THEOREM OneKeyOneOccurrence ==
    ASSUME NEW x, NEW y, ~IsFailed(Compose(x)), ~IsFailed(Compose(y))
    PROVE  LET first == Compose(x).occurrence
               second == Compose(y).occurrence
           IN ResolveReplay(first, second)
                = IF ReplayKey(first) = ReplayKey(second) THEN first ELSE second
<1> DEFINE first == Compose(x).occurrence
           second == Compose(y).occurrence
           Shape(z, o) ==
               /\ OccurrenceOK(o, ComposedPng(z)) /\ o.original = ComposedPng(z)
               /\ o = [intent |-> z.packet, original |-> ComposedPng(z),
                       output |-> Compile(ComposedPng(z), ComposedPng(z)).raster,
                       lineage |-> o.lineage]
               /\ o.lineage.source = z.source /\ o.lineage.insert = z.insert
<1>1. ASSUME NEW z, ~IsFailed(Compose(z)), NEW o, o = Compose(z).occurrence
      PROVE  Shape(z, o)
  <2> DEFINE png == ComposedPng(z)
             lineage == [source |-> z.source, mask |-> z.mask, raw |-> z.raw,
                         raster |-> z.raster, structural |-> z.structural,
                         locality |-> z.locality, insert |-> z.insert,
                         confirmation |-> z.insert.confirmation]
  <2>1. /\ OccurrenceOK(o, png)
        /\ o = [intent |-> z.packet, original |-> png, output |-> Compile(png, png).raster,
                lineage |-> lineage]
    BY <1>1, ComposedOccurrence
  <2>2. lineage.source = z.source /\ lineage.insert = z.insert
    OBVIOUS
  <2> HIDE DEF png, lineage
  <2>3. o.original = png /\ o.lineage = lineage
    BY <2>1
  <2>4. o = [intent |-> z.packet, original |-> png, output |-> Compile(png, png).raster,
             lineage |-> o.lineage]
    BY <2>1, <2>3
  <2> QED
    BY <2>1, <2>2, <2>3, <2>4 DEF png
<1>2. Shape(x, first) /\ Shape(y, second)
  <2> HIDE DEF Shape
  <2> QED
    BY <1>1
<1>3. ReplayKey(first) = ReplayKey(second) => first = second
  <2> SUFFICES ASSUME ReplayKey(first) = ReplayKey(second)
               PROVE  first = second
    OBVIOUS
  <2>1. first.intent = second.intent /\ first.lineage = second.lineage
    BY DEF ReplayKey
  <2>2. x.packet = y.packet /\ x.source = y.source /\ x.insert = y.insert
    BY <1>2, <2>1
  <2>3. ComposedPng(x) = ComposedPng(y)
    BY <2>2 DEF ComposedPng
  <2> HIDE DEF first, second
  <2> QED
    BY <1>2, <2>1, <2>2, <2>3
<1> QED
  BY <1>2, <1>3 DEF ResolveReplay

\* What the verdicts on the raw output say of it: the raster is what the bytes
\* compile to that the provider's receipt binds.
LEMMA RawIsBound ==
    ASSUME NEW x, ~IsFailed(Compose(x))
    PROVE  /\ x.bytes = x.raw.receipt.outputs[x.raw.index].content
           /\ ~IsFailed(Compile(x.bytes, x.bytes))
           /\ x.raster = Compile(x.bytes, x.bytes).raster
<1> DEFINE media == CompileMedia(x.raw.receipt, x.raw.index, x.bytes)
           replayed == JudgeStructure(x.source, x.raw.receipt, x.raw.index, x.bytes,
                                      x.raw, media)
<1>1. /\ ~IsFailed(replayed)
      /\ replayed.raster = x.raster /\ replayed.judgment = x.structural
  BY ComposeSteps DEF AncestryReplays, VerdictsReplay, VerifyStructure
<1>2. x.structural.measured.compiled
  <2>1. RawInputsBind(x.raster, x.raw, x.structural, x.locality, x.confirmation)
    <3>1. /\ x.insert = CompileInsert(x.raster, x.raw, x.structural, x.locality,
                                      x.confirmation)
          /\ ~IsFailed(x.insert)
      BY ComposeSteps
    <3>2. ~IsFailed(CompileInsert(x.raster, x.raw, x.structural, x.locality,
                                  x.confirmation))
      BY <3>1
    <3> QED
      BY <3>2, InsertSteps
  <2> QED
    BY <2>1 DEF RawInputsBind
<1>3. ~IsFailed(media) /\ replayed.raster = media.raster
  <2> HIDE DEF media
  <2> QED
    BY <1>1, <1>2 DEF JudgeStructure, IsFailed, Failed, Measured
<1>4. /\ x.raw.receipt.outputs[x.raw.index].content = x.bytes
      /\ media = Compile(x.bytes, x.bytes)
  BY <1>3 DEF CompileMedia, IsFailed, Failed
<1> QED
  BY <1>1, <1>3, <1>4

\* The sizes and the region of an edit are integers.
EditTyped(x) ==
    /\ x.source.w \in Nat /\ x.source.h \in Nat
    /\ x.packet.region \in [left : Int, right : Int, top : Int, bottom : Int]

\* Whatever artifacts Compose accepts, of pictures of any size: outside the
\* packet's region its output is the source, and inside it is the confirmed crop,
\* resampled, of the raster of the bytes the provider's receipt binds.
THEOREM ComposesConfirmedCrop ==
    ASSUME NEW x, EditTyped(x), ~IsFailed(Compose(x))
    PROVE  LET region == x.packet.region
               crop == x.confirmation.crop
               raw == Compile(x.bytes, x.bytes).raster
           IN /\ x.bytes = x.raw.receipt.outputs[x.raw.index].content
              /\ \A p \in DOMAIN x.source.px :
                    Compose(x).output.px[p] =
                      IF In(p, region)
                      THEN raw.px[<<crop.left + NearestOffset(p[1] - region.left,
                                                  Width(crop), Width(region)),
                                    crop.top + NearestOffset(p[2] - region.top,
                                                  Height(crop), Height(region))>>]
                      ELSE x.source.px[p]
<1> DEFINE region == x.packet.region
           crop == x.confirmation.crop
           Sample(q) ==
             x.raster.px[<<crop.left + NearestOffset(q[1], Width(crop), Width(region)),
                           crop.top + NearestOffset(q[2], Height(crop), Height(region))>>]
<1>1. Compose(x).output.px = Paste(x.source, x.insert, region)
  BY ComposedOccurrence DEF ComposedPng, EncodePng
<1>2. /\ region = x.confirmation.target.bounds
      /\ RasterOK(x.source)
  BY ComposeSteps DEF PacketBinds, AncestryReplays
<1>3. x.insert.px = [q \in (0..(Width(region) - 1)) \X (0..(Height(region) - 1)) |-> Sample(q)]
  <2>1. /\ x.insert = CompileInsert(x.raster, x.raw, x.structural, x.locality,
                                    x.confirmation)
        /\ ~IsFailed(x.insert)
    BY ComposeSteps
  <2>2. ~IsFailed(CompileInsert(x.raster, x.raw, x.structural, x.locality,
                                x.confirmation))
    BY <2>1
  <2>3. x.insert.px = InsertPixels(x.raster, x.confirmation)
    BY <2>1, <2>2, InsertSteps
  <2> QED
    BY <1>2, <2>3 DEF InsertPixels
<1>4. ASSUME NEW p \in DOMAIN x.source.px, In(p, region)
      PROVE  x.insert.px[<<p[1] - region.left, p[2] - region.top>>]
               = Sample(<<p[1] - region.left, p[2] - region.top>>)
  <2>1. p[1] \in Int /\ p[2] \in Int
    BY <1>2 DEF RasterOK, EditTyped
  <2>2. <<p[1] - region.left, p[2] - region.top>>
          \in (0..(Width(region) - 1)) \X (0..(Height(region) - 1))
    BY <1>4, <2>1 DEF In, Width, Height, EditTyped
  <2> HIDE DEF region, Sample
  <2> QED
    BY <1>3, <2>2
<1>5. ASSUME NEW p \in DOMAIN x.source.px
      PROVE  Compose(x).output.px[p]
               = IF In(p, region) THEN Sample(<<p[1] - region.left, p[2] - region.top>>)
                                  ELSE x.source.px[p]
  BY <1>1, <1>4 DEF Paste
<1> QED
  BY <1>5, RawIsBound

-----------------------------------------------------------------------------
(* The orientation.                                                         *)

\* _apply_orientation, for pictures of every size and the eight EXIF values: the
\* stored pixel stands where EXIF shows it.
THEOREM OrientsAsDeclared ==
    ASSUME NEW image, image.w \in Nat \ {0}, image.h \in Nat \ {0},
           image.orientation \in 1..8
    PROVE  \A p \in (0..(image.w - 1)) \X (0..(image.h - 1)) :
              LET place == Shown(image.orientation, p[1], p[2], image.w, image.h)
              IN /\ place \in DOMAIN Orient(image).px
                 /\ Orient(image).px[place] = image.px[p]
<1> TAKE p \in (0..(image.w - 1)) \X (0..(image.h - 1))
<1>1. p[1] \in 0..(image.w - 1) /\ p[2] \in 0..(image.h - 1) /\ p = <<p[1], p[2]>>
  OBVIOUS
<1>2. CASE image.orientation = 1
  BY <1>1, <1>2 DEF Orient, Shown, Turns
<1>3. CASE image.orientation = 2
  BY <1>1, <1>3 DEF Orient, Shown, Turns
<1>4. CASE image.orientation = 3
  BY <1>1, <1>4 DEF Orient, Shown, Turns
<1>5. CASE image.orientation = 4
  BY <1>1, <1>5 DEF Orient, Shown, Turns
<1>6. CASE image.orientation = 5
  BY <1>1, <1>6 DEF Orient, Shown, Turns
<1>7. CASE image.orientation = 6
  BY <1>1, <1>7 DEF Orient, Shown, Turns
<1>8. CASE image.orientation = 7
  BY <1>1, <1>8 DEF Orient, Shown, Turns
<1>9. CASE image.orientation = 8
  BY <1>1, <1>9 DEF Orient, Shown, Turns
<1> QED
  BY <1>2, <1>3, <1>4, <1>5, <1>6, <1>7, <1>8, <1>9

\* Induction over the naturals, and over the subsets of a finite set, for what a
\* set collects.
LEMMA NatInduct ==
    ASSUME NEW Q, 0 \in Q, \A n \in Nat : n \in Q => n + 1 \in Q
    PROVE  \A n \in Nat : n \in Q
<1>1. ASSUME Nat \ Q # {}
      PROVE  FALSE
  <2>1. PICK n \in Nat \ Q : \A m \in Nat \ Q : n <= m
    BY <1>1, LeastNatural
  <2>2. n # 0
    OBVIOUS
  <2>3. n - 1 \in Nat /\ n - 1 \in Q
    BY <2>1, <2>2
  <2>4. (n - 1) + 1 = n
    BY <2>1
  <2> QED
    BY <2>3, <2>4
<1> QED
  BY <1>1

LEMMA SubsetInduction ==
    ASSUME NEW S, IsFiniteSet(S), NEW Q,
           \A T \in SUBSET S : (\A U \in SUBSET T : U # T => U \in Q) => T \in Q
    PROVE  \A T \in SUBSET S : T \in Q
<1> DEFINE Missing == {T \in SUBSET S : T \notin Q}
           Sizes == {Cardinality(T) : T \in Missing}
<1>1. ASSUME NEW T \in SUBSET S
      PROVE  IsFiniteSet(T) /\ Cardinality(T) \in Nat
  BY FS_Subset, FS_CardinalityType
<1>2. ASSUME Missing # {}
      PROVE  FALSE
  <2>1. Sizes \in SUBSET Nat /\ Sizes # {}
    BY <1>1, <1>2
  <2>2. PICK size \in Sizes : \A n \in Sizes : size <= n
    BY <2>1, LeastNatural
  <2>3. PICK T \in Missing : size = Cardinality(T)
    OBVIOUS
  <2>4. ASSUME NEW U \in SUBSET T, U # T
        PROVE  U \in Q
    <3>1. Cardinality(U) < Cardinality(T)
      <4>1. Cardinality(U) <= Cardinality(T) /\ Cardinality(U) # Cardinality(T)
        BY <1>1, <2>3, <2>4, FS_Subset
      <4>2. Cardinality(U) \in Nat /\ Cardinality(T) \in Nat
        BY <1>1, <2>3
      <4> QED
        BY <4>1, <4>2
    <3>2. U \in SUBSET S /\ Cardinality(U) \in Nat
      BY <1>1, <2>3
    <3> QED
      BY <1>1, <2>2, <2>3, <3>1, <3>2
  <2> QED
    BY <2>3, <2>4
<1> QED
  BY <1>2

\* Two sums of a row agree.
LEMMA SumsAgree ==
    ASSUME NEW row, NEW S, IsFiniteSet(S), NEW f, NEW g,
           Sums(row, SUBSET S, f), Sums(row, SUBSET S, g)
    PROVE  \A T \in SUBSET S : f[T] = g[T]
<1> DEFINE Q == {T \in SUBSET S : f[T] = g[T]}
<1>1. \A T \in SUBSET S : f[T] = SumStep(row, f, T) /\ g[T] = SumStep(row, g, T)
  BY DEF Sums
<1>2. ASSUME NEW T \in SUBSET S, \A U \in SUBSET T : U # T => U \in Q
      PROVE  T \in Q
  <2> DEFINE y == CHOOSE y \in T : TRUE
  <2>1. CASE T = {}
    BY <1>1, <2>1 DEF SumStep
  <2>2. CASE T # {}
    <3>1. y \in T
      BY <2>2
    <3>2. f[T \ {y}] = g[T \ {y}]
      BY <1>2, <3>1
    <3> QED
      BY <1>1, <2>2, <3>2 DEF SumStep
  <2> QED
    BY <2>1, <2>2
<1>3. \A T \in SUBSET S : T \in Q
  <2> HIDE DEF Q
  <2> QED
    BY <1>2, SubsetInduction
<1> QED
  BY <1>3

\* A sum takes its entries in any order.
LEMMA SumsSplit ==
    ASSUME NEW row, NEW S, IsFiniteSet(S), NEW f, Sums(row, SUBSET S, f),
           \A x \in S : row[x] \in Int
    PROVE  \A T \in SUBSET S : /\ f[T] \in Int
                               /\ \A x \in T : f[T] = row[x] + f[T \ {x}]
<1> DEFINE Q == {T \in SUBSET S : /\ f[T] \in Int
                                  /\ \A x \in T : f[T] = row[x] + f[T \ {x}]}
<1>1. \A T \in SUBSET S : f[T] = SumStep(row, f, T)
  BY DEF Sums
<1>2. ASSUME NEW T \in SUBSET S, \A U \in SUBSET T : U # T => U \in Q
      PROVE  T \in Q
  <2> DEFINE y == CHOOSE y \in T : TRUE
  <2>1. CASE T = {}
    <3>1. f[T] = 0
      BY <1>1, <2>1 DEF SumStep
    <3> QED
      BY <2>1, <3>1
  <2>2. CASE T # {}
    <3>1. y \in T
      BY <2>2
    <3>2. f[T] = row[y] + f[T \ {y}]
      BY <1>1, <2>2 DEF SumStep
    <3> HIDE DEF y
    <3>3. \A x \in T : T \ {x} \in Q
      BY <1>2
    <3>4. \A x \in T : f[T \ {x}] \in Int /\ row[x] \in Int
      BY <3>3
    <3>5. ASSUME NEW x \in T, x # y
          PROVE  f[T] = row[x] + f[T \ {x}]
      <4> DEFINE rest == (T \ {x}) \ {y}
      <4>1. (T \ {y}) \ {x} = rest
        OBVIOUS
      <4>2. f[T \ {y}] = row[x] + f[rest]
        BY <3>1, <3>3, <3>5, <4>1
      <4>3. f[T \ {x}] = row[y] + f[rest]
        BY <3>1, <3>3, <3>5
      <4>4. f[rest] \in Int
        <5>1. rest # T /\ rest \in SUBSET T
          BY <3>1
        <5> QED
          BY <1>2, <5>1
      <4>5. row[x] \in Int /\ row[y] \in Int
        BY <3>1, <3>4
      <4> HIDE DEF rest
      <4> QED
        BY <3>2, <4>2, <4>3, <4>4, <4>5
    <3>6. f[T] \in Int
      <4>1. f[T \ {y}] \in Int /\ row[y] \in Int
        BY <3>1, <3>4
      <4> QED
        BY <3>2, <4>1
    <3> QED
      BY <3>2, <3>5, <3>6
  <2> QED
    BY <2>1, <2>2
<1>3. \A T \in SUBSET S : T \in Q
  <2> HIDE DEF Q
  <2> QED
    BY <1>2, SubsetInduction
<1> QED
  BY <1>3

\* The sum of a row exists, and every sum of the row is that one.
LEMMA RowSums ==
    ASSUME NEW row, NEW S, IsFiniteSet(S)
    PROVE  \E f : Sums(row, SUBSET S, f) /\ RowSum(row, S) = f[S]
<1>1. Subsets(S, Cardinality(S)) = SUBSET S
  BY FS_Subset, FS_CardinalityType DEF Subsets
<1>2. \E f : Sums(row, SUBSET S, f)
  <2>1. Cardinality(S) \in Nat
    BY FS_CardinalityType
  <2>2. \A n \in Nat : \E f : Sums(row, Subsets(S, n), f)
    BY SumExists
  <2> QED
    BY <1>1, <2>1, <2>2
<1> DEFINE sum == CHOOSE f : Sums(row, SUBSET S, f)
<1>3. Sums(row, SUBSET S, sum)
  BY <1>2
<1>4. RowSum(row, S) = sum[S]
  BY DEF RowSum, Sums
<1> QED
  BY <1>3, <1>4

LEMMA SumIsRowSum ==
    ASSUME NEW row, NEW S, IsFiniteSet(S), NEW f, Sums(row, SUBSET S, f)
    PROVE  f[S] = RowSum(row, S)
<1>1. PICK g : Sums(row, SUBSET S, g) /\ RowSum(row, S) = g[S]
  BY RowSums
<1> QED
  BY <1>1, SumsAgree

\* What a sum is, element by element.
LEMMA RowSumEmpty ==
    ASSUME NEW row
    PROVE  RowSum(row, {}) = 0
<1>1. IsFiniteSet({})
  BY FS_EmptySet
<1>2. PICK f : Sums(row, SUBSET {}, f) /\ RowSum(row, {}) = f[{}]
  BY <1>1, RowSums
<1> QED
  BY <1>2 DEF Sums, SumStep

LEMMA RowSumSplit ==
    ASSUME NEW row, NEW S, IsFiniteSet(S), \A x \in S : row[x] \in Int, NEW x \in S
    PROVE  RowSum(row, S) = row[x] + RowSum(row, S \ {x})
<1>1. PICK f : Sums(row, SUBSET S, f) /\ RowSum(row, S) = f[S]
  BY RowSums
<1> DEFINE g == [T \in SUBSET (S \ {x}) |-> f[T]]
<1>2. Sums(row, SUBSET (S \ {x}), g)
  <2>1. ASSUME NEW T \in SUBSET (S \ {x})
        PROVE  f[T] = SumStep(row, g, T)
    <3>1. f[T] = SumStep(row, f, T)
      BY <1>1 DEF Sums
    <3>2. CASE T = {}
      BY <3>1, <3>2 DEF SumStep
    <3>3. CASE T # {}
      <4> DEFINE y == CHOOSE y \in T : TRUE
      <4>1. g[T \ {y}] = f[T \ {y}]
        OBVIOUS
      <4> HIDE DEF g
      <4> QED
        BY <3>1, <3>3, <4>1 DEF SumStep
    <3> QED
      BY <3>2, <3>3
  <2> QED
    BY <2>1 DEF Sums
<1>3. g[S \ {x}] = RowSum(row, S \ {x})
  <2>1. IsFiniteSet(S \ {x})
    BY FS_RemoveElement
  <2> HIDE DEF g
  <2> QED
    BY <1>2, <2>1, SumIsRowSum
<1>4. f[S] = row[x] + f[S \ {x}]
  <2>1. Sums(row, SUBSET S, f)
    BY <1>1
  <2> HIDE DEF g
  <2>2. \A T \in SUBSET S : /\ f[T] \in Int
                             /\ \A y \in T : f[T] = row[y] + f[T \ {y}]
    BY <2>1, SumsSplit
  <2> QED
    BY <2>2
<1> QED
  BY <1>1, <1>3, <1>4

LEMMA RowSumAdd ==
    ASSUME NEW row, NEW S, IsFiniteSet(S), NEW x, x \notin S,
           \A y \in S \cup {x} : row[y] \in Int
    PROVE  RowSum(row, S \cup {x}) = row[x] + RowSum(row, S)
<1>1. IsFiniteSet(S \cup {x}) /\ (S \cup {x}) \ {x} = S
  BY FS_AddElement
<1> QED
  BY <1>1, RowSumSplit

-----------------------------------------------------------------------------
(* The canonical PNG encoder.                                               *)

\* What the blocks of a deflate stream take: their framing and their bytes.
BlockRow(S) == [b \in S |-> 5 + b.size]

LEMMA StoredTotal ==
    ASSUME NEW S, IsFiniteSet(S)
    PROVE  MapThenSumSet(LAMBDA b : 5 + b.size, S) = RowSum(BlockRow(S), S)
<1> DEFINE Step(f) == [s \in SUBSET S |->
                IF s = {} THEN 0
                ELSE LET x == CHOOSE x \in s : TRUE IN (5 + x.size) + f[s \ {x}]]
           sum == CHOOSE f : f = Step(f)
<1>1. MapThenSumSet(LAMBDA b : 5 + b.size, S) = sum[S]
  BY DEF MapThenSumSet, MapThenFoldSet
<1>2. ASSUME NEW f
      PROVE  Step(f) = [s \in SUBSET S |-> SumStep(BlockRow(S), f, s)]
  <2>1. ASSUME NEW s \in SUBSET S
        PROVE  Step(f)[s] = SumStep(BlockRow(S), f, s)
    <3>1. CASE s = {}
      BY <3>1 DEF SumStep
    <3>2. CASE s # {}
      <4> DEFINE x == CHOOSE x \in s : TRUE
      <4>1. x \in S
        BY <3>2
      <4>2. BlockRow(S)[x] = 5 + x.size
        BY <4>1 DEF BlockRow
      <4> QED
        BY <3>2, <4>2 DEF SumStep
    <3> QED
      BY <3>1, <3>2
  <2> QED
    BY <2>1
<1>3. PICK f : Sums(BlockRow(S), SUBSET S, f)
  BY RowSums
<1>4. f = Step(f)
  BY <1>2, <1>3 DEF Sums
<1>5. sum = Step(sum)
  BY <1>4
<1>6. Sums(BlockRow(S), SUBSET S, sum)
  <2> HIDE DEF sum
  <2>1. Step(sum) = [s \in SUBSET S |-> SumStep(BlockRow(S), sum, s)]
    BY <1>2
  <2> HIDE DEF Step
  <2> QED
    BY <1>5, <2>1 DEF Sums
<1> HIDE DEF sum
<1> QED
  BY <1>1, <1>6, SumIsRowSum

\* The k-th block of a stream of F bytes in blocks of B, and what is stored
\* before it.
StoredBlock(F, B, k) ==
    [offset |-> k * B, size |-> IF F - k * B < B THEN F - k * B ELSE B,
     final |-> k * B + (IF F - k * B < B THEN F - k * B ELSE B) = F]

FirstBlocks(F, B, n) == {StoredBlock(F, B, k) : k \in 0..(n - 1)}

LEMMA BlocksInOrder ==
    ASSUME NEW F \in Nat \ {0}, NEW B \in Nat \ {0}
    PROVE  LET K == (F + B - 1) \div B
           IN /\ K \in Nat \ {0} /\ (K - 1) * B < F /\ F <= K * B
              /\ StoredBlocks(F, B) = FirstBlocks(F, B, K)
<1> DEFINE K == (F + B - 1) \div B
<1>1. K \in Nat /\ B * K <= F + B - 1 /\ F + B - 1 < B * (K + 1)
  BY DivisionBounds
<1> HIDE DEF K
<1>2. B * K \in Nat /\ B * (K + 1) = B * K + B /\ B * (K - 1) = B * K - B
  BY <1>1
<1>3. (K - 1) * B = B * (K - 1) /\ K * B = B * K
  BY <1>1
<1>4. (K - 1) * B < F /\ F <= K * B
  BY <1>1, <1>2, <1>3
<1>5. K # 0
  BY <1>3, <1>4
<1>6. {k \in 0..F : k * B < F} = 0..(K - 1)
  <2>1. ASSUME NEW k \in 0..F, k * B < F
        PROVE  k \in 0..(K - 1)
    <3>1. B * k < B * K
      BY <1>1, <1>3, <1>4, <2>1
    <3>2. k < K
      BY <1>1, <3>1, LessByProduct
    <3> QED
      BY <1>1, <3>2
  <2>2. ASSUME NEW k \in 0..(K - 1)
        PROVE  k \in 0..F /\ k * B < F
    <3>1. k * B <= (K - 1) * B
      <4>1. k <= K - 1 /\ k \in Nat /\ K - 1 \in Nat
        BY <1>1, <1>5
      <4>2. PICK m \in Nat : K - 1 = k + m
        <5>1. (K - 1) - k \in Nat /\ K - 1 = k + ((K - 1) - k)
          BY <4>1
        <5> QED
          BY <5>1
      <4>3. (k + m) * B = k * B + m * B /\ m * B \in Nat /\ k * B \in Nat
        BY <4>1
      <4> QED
        BY <4>2, <4>3
    <3>2. k <= k * B
      <4>1. k \in Nat
        OBVIOUS
      <4>2. PICK b \in Nat : B = b + 1
        <5>1. B - 1 \in Nat /\ B = (B - 1) + 1
          OBVIOUS
        <5> QED
          BY <5>1
      <4>3. k * (b + 1) = k * b + k /\ k * b \in Nat
        BY <4>1
      <4> QED
        BY <4>1, <4>2, <4>3
    <3>3. k * B \in Nat /\ k \in Nat /\ (K - 1) * B \in Int
      BY <1>1
    <3> QED
      BY <1>4, <3>1, <3>2, <3>3
  <2> QED
    BY <2>1, <2>2
<1>7. StoredBlocks(F, B) = FirstBlocks(F, B, K)
  BY <1>6 DEF StoredBlocks, FirstBlocks, StoredBlock
<1> QED
  BY <1>1, <1>4, <1>5, <1>7 DEF K

\* The first n blocks take five bytes each and the bytes stored up to there.
LEMMA FirstBlocksTotal ==
    ASSUME NEW F \in Nat \ {0}, NEW B \in Nat \ {0}, NEW K \in Nat \ {0},
           (K - 1) * B < F, F <= K * B
    PROVE  /\ IsFiniteSet(FirstBlocks(F, B, K))
           /\ RowSum(BlockRow(FirstBlocks(F, B, K)), FirstBlocks(F, B, K)) = 5 * K + F
<1> DEFINE all == FirstBlocks(F, B, K)
           row == BlockRow(all)
           Stored(n) == IF n * B < F THEN n * B ELSE F
           Q == {n \in Nat : n <= K =>
                   /\ IsFiniteSet(FirstBlocks(F, B, n))
                   /\ RowSum(row, FirstBlocks(F, B, n)) = 5 * n + Stored(n)}
<1>1. 0 \in Q
  <2>1. FirstBlocks(F, B, 0) = {}
    BY DEF FirstBlocks
  <2>2. RowSum(row, {}) = 0 /\ IsFiniteSet({})
    BY RowSumEmpty, FS_EmptySet
  <2>3. Stored(0) = 0
    OBVIOUS
  <2> HIDE DEF row
  <2> QED
    BY <2>1, <2>2, <2>3
<1>2. ASSUME NEW n \in Nat, n \in Q
      PROVE  n + 1 \in Q
  <2> SUFFICES ASSUME n + 1 <= K
               PROVE  /\ IsFiniteSet(FirstBlocks(F, B, n + 1))
                      /\ RowSum(row, FirstBlocks(F, B, n + 1)) = 5 * (n + 1) + Stored(n + 1)
    OBVIOUS
  <2> DEFINE before == FirstBlocks(F, B, n)
             block == StoredBlock(F, B, n)
  <2>1. IsFiniteSet(before) /\ RowSum(row, before) = 5 * n + Stored(n)
    BY <1>2
  <2>2. FirstBlocks(F, B, n + 1) = before \cup {block}
    <3>1. 0..((n + 1) - 1) = 0..(n - 1) \cup {n}
      OBVIOUS
    <3> QED
      BY <3>1 DEF FirstBlocks
  <2>3. block \notin before
    <3>1. ASSUME NEW k \in 0..(n - 1)
          PROVE  StoredBlock(F, B, k).offset # block.offset
      <4>1. PICK m \in Nat : n = k + 1 + m
        <5>1. n - k - 1 \in Nat /\ n = k + 1 + (n - k - 1)
          OBVIOUS
        <5> QED
          BY <5>1
      <4>2. (k + 1 + m) * B = k * B + B + m * B /\ m * B \in Nat /\ k * B \in Nat
        BY <4>1
      <4> QED
        BY <4>1, <4>2 DEF StoredBlock
    <3> QED
      BY <3>1 DEF FirstBlocks
  <2>4. \A k \in 0..(K - 1) : StoredBlock(F, B, k) \in all
    BY DEF FirstBlocks
  <2>5. before \cup {block} \subseteq all
    BY <2>4 DEF FirstBlocks
  <2>6. \A b \in all : row[b] = 5 + b.size /\ b.size \in Int
    <3>1. ASSUME NEW k \in 0..(K - 1)
          PROVE  StoredBlock(F, B, k).size \in Int
      <4>1. k * B \in Int
        OBVIOUS
      <4> QED
        BY <4>1 DEF StoredBlock
    <3> QED
      BY <3>1 DEF FirstBlocks, BlockRow
  <2>7. block.size = Stored(n + 1) - Stored(n)
    <3>1. n * B \in Nat /\ (n + 1) * B = n * B + B
      OBVIOUS
    <3>2. n * B < F
      <4>1. PICK m \in Nat : K - 1 = n + m
        <5>1. (K - 1) - n \in Nat /\ K - 1 = n + ((K - 1) - n)
          OBVIOUS
        <5> QED
          BY <5>1
      <4>2. (n + m) * B = n * B + m * B /\ m * B \in Nat
        BY <4>1
      <4> QED
        BY <3>1, <4>1, <4>2
    <3> QED
      BY <3>1, <3>2 DEF StoredBlock
  <2>8. RowSum(row, before \cup {block}) = row[block] + RowSum(row, before)
    <3> HIDE DEF row, before, block, all
    <3>1. \A b \in before \cup {block} : row[b] \in Int
      BY <2>5, <2>6
    <3> QED
      BY <2>1, <2>3, <3>1, RowSumAdd
  <2>9. row[block] = 5 + block.size
    BY <2>5, <2>6
  <2>10. IsFiniteSet(before \cup {block})
    BY <2>1, FS_AddElement
  <2>11. Stored(n) \in Int /\ Stored(n + 1) \in Int
    <3>1. n * B \in Int /\ (n + 1) * B \in Int
      OBVIOUS
    <3> QED
      BY <3>1
  <2>12. 5 * (n + 1) = 5 * n + 5
    OBVIOUS
  <2>13. RowSum(row, before \cup {block}) = 5 * (n + 1) + Stored(n + 1)
    <3> HIDE DEF row, before, block, all, Stored
    <3> QED
      BY <2>1, <2>7, <2>8, <2>9, <2>11, <2>12
  <2> HIDE DEF Stored, row, block, before
  <2> QED
    BY <2>2, <2>10, <2>13
<1>3. \A n \in Nat : n \in Q
  <2> HIDE DEF Q
  <2> QED
    BY <1>1, <1>2, NatInduct
<1>4. Stored(K) = F
  BY DEF Stored
<1>5. K \in Q
  BY <1>3
<1> HIDE DEF row, Stored
<1>6. RowSum(row, FirstBlocks(F, B, K)) = 5 * K + F /\ IsFiniteSet(FirstBlocks(F, B, K))
  BY <1>4, <1>5
<1> QED
  BY <1>6 DEF row

\* The byte count is the encoder's for every width, height and block size: one
\* block ends the stream, and the blocks cover the scanlines.
THEOREM ByteCountsAreEncoded ==
    ASSUME input.kind = "encoding" =>
             /\ input.w \in Nat \ {0} /\ input.h \in Nat \ {0}
             /\ input.block \in Nat \ {0}
    PROVE  ByteCountIsEncoded
<1> SUFFICES ASSUME input.kind = "encoding"
             PROVE  LET filtered == input.h * (input.w * 3 + 1)
                        blocks == StoredBlocks(filtered, input.block)
                        deflate == 2 + MapThenSumSet(LAMBDA b : 5 + b.size, blocks) + 4
                    IN /\ PngByteCount(input.w, input.h, input.block)
                            = 8 + (12 + 13) + (12 + deflate) + 12
                       /\ {b \in blocks : b.final}
                            = {b \in blocks : \A c \in blocks : c.offset <= b.offset}
                       /\ UNION {b.offset..(b.offset + b.size - 1) : b \in blocks}
                            = 0..(filtered - 1)
  BY DEF ByteCountIsEncoded
<1> DEFINE F == input.h * (input.w * 3 + 1)
           B == input.block
           K == (F + B - 1) \div B
           blocks == StoredBlocks(F, B)
<1>1. F \in Nat \ {0} /\ B \in Nat \ {0}
  <2>1. PICK h \in Nat : input.h = h + 1
    <3>1. input.h - 1 \in Nat /\ input.h = (input.h - 1) + 1
      OBVIOUS
    <3> QED
      BY <3>1
  <2>2. (h + 1) * (input.w * 3 + 1) = h * (input.w * 3 + 1) + input.w * 3 + 1
    BY <2>1
  <2>3. h * (input.w * 3 + 1) \in Nat
    BY <2>1
  <2> QED
    BY <2>1, <2>2, <2>3
<1> HIDE DEF F, B
<1>2. /\ K \in Nat \ {0} /\ (K - 1) * B < F /\ F <= K * B
      /\ blocks = FirstBlocks(F, B, K)
  BY <1>1, BlocksInOrder
<1> HIDE DEF K
<1>3. MapThenSumSet(LAMBDA b : 5 + b.size, blocks) = 5 * K + F
  <2>1. /\ IsFiniteSet(FirstBlocks(F, B, K))
        /\ RowSum(BlockRow(FirstBlocks(F, B, K)), FirstBlocks(F, B, K)) = 5 * K + F
    BY <1>1, <1>2, FirstBlocksTotal
  <2> HIDE DEF blocks
  <2> QED
    BY <1>2, <2>1, StoredTotal
<1>4. PngByteCount(input.w, input.h, B) = F + 5 * K + 63
  BY DEF PngByteCount, F, K
<1>5. \A k \in 0..(K - 1) :
          /\ StoredBlock(F, B, k) \in blocks
          /\ k * B \in Nat /\ (k + 1) * B = k * B + B
          /\ StoredBlock(F, B, k).offset = k * B
          /\ StoredBlock(F, B, k).size = IF k = K - 1 THEN F - k * B ELSE B
          /\ StoredBlock(F, B, k).final <=> k = K - 1
          /\ k < K - 1 => k * B + B < F
          /\ k * B < F
  <2> TAKE k \in 0..(K - 1)
  <2>1. k * B \in Nat /\ (k + 1) * B = k * B + B
    BY <1>1, <1>2
  <2>2. StoredBlock(F, B, k) \in blocks
    BY <1>2 DEF FirstBlocks
  <2> DEFINE size == IF F - k * B < B THEN F - k * B ELSE B
  <2>5. /\ StoredBlock(F, B, k).offset = k * B
        /\ StoredBlock(F, B, k).size = size
        /\ StoredBlock(F, B, k).final = (k * B + size = F)
    BY DEF StoredBlock
  <2>3. CASE k = K - 1
    <3>1. K * B = k * B + B /\ k * B < F /\ F <= K * B
      <4>1. K * B = (k + 1) * B
        BY <1>2, <2>3
      <4> QED
        BY <1>2, <2>1, <2>3, <4>1
    <3>2. F - k * B <= B
      BY <1>1, <2>1, <3>1
    <3>3. size = F - k * B /\ k * B + size = F
      BY <1>1, <2>1, <3>2
    <3>4. StoredBlock(F, B, k).final
      BY <2>5, <3>3
    <3> HIDE DEF size
    <3> QED
      BY <1>2, <2>1, <2>2, <2>3, <2>5, <3>1, <3>3, <3>4
  <2>4. CASE k # K - 1
    <3>1. PICK m \in Nat : K - 1 = k + 1 + m
      <4>1. (K - 1) - k - 1 \in Nat /\ K - 1 = k + 1 + ((K - 1) - k - 1)
        BY <1>2, <2>4
      <4> QED
        BY <4>1
    <3>2. (k + 1 + m) * B = (k + 1) * B + m * B /\ m * B \in Nat
      BY <1>1, <3>1
    <3>3. k * B + B < F
      BY <1>1, <1>2, <2>1, <3>1, <3>2
    <3>4. size = B /\ k * B + size # F
      BY <1>1, <2>1, <3>3
    <3>5. ~StoredBlock(F, B, k).final
      BY <2>5, <3>4
    <3>6. k * B < F
      BY <1>1, <2>1, <3>3
    <3> HIDE DEF size
    <3> QED
      BY <2>1, <2>2, <2>4, <2>5, <3>3, <3>4, <3>5, <3>6
  <2> QED
    BY <2>3, <2>4
<1>6. \A b \in blocks : \E k \in 0..(K - 1) : b = StoredBlock(F, B, k)
  BY <1>2 DEF FirstBlocks
<1>7. K - 1 \in 0..(K - 1)
  BY <1>2
<1> HIDE DEF blocks
<1>8. {b \in blocks : b.final} = {b \in blocks : \A c \in blocks : c.offset <= b.offset}
  <2> DEFINE last == StoredBlock(F, B, K - 1)
  <2>1. \A b \in blocks : b.final <=> b = last
    BY <1>5, <1>6, <1>7
  <2>2. \A b \in blocks : b # last => b.offset < last.offset
    <3>1. ASSUME NEW k \in 0..(K - 1), k # K - 1
          PROVE  k * B < (K - 1) * B
      <4>1. PICK m \in Nat : K - 1 = k + 1 + m
        <5>1. (K - 1) - k - 1 \in Nat /\ K - 1 = k + 1 + ((K - 1) - k - 1)
          BY <1>2, <3>1
        <5> QED
          BY <5>1
      <4>2. (k + 1 + m) * B = (k + 1) * B + m * B /\ m * B \in Nat
        BY <1>1, <4>1
      <4> QED
        BY <1>1, <1>5, <4>1, <4>2
    <3> QED
      BY <1>5, <1>6, <1>7, <3>1
  <2>3. last \in blocks /\ last.offset \in Nat
    BY <1>5, <1>7
  <2>4. \A b \in blocks : b.offset \in Nat
    BY <1>5, <1>6
  <2> HIDE DEF last
  <2> QED
    BY <2>1, <2>2, <2>3, <2>4
<1>9. UNION {b.offset..(b.offset + b.size - 1) : b \in blocks} = 0..(F - 1)
  <2>1. ASSUME NEW b \in blocks, NEW i \in b.offset..(b.offset + b.size - 1)
        PROVE  i \in 0..(F - 1)
    <3>1. PICK k \in 0..(K - 1) : b = StoredBlock(F, B, k)
      BY <1>6
    <3>2. CASE k = K - 1
      BY <1>1, <1>5, <3>1, <3>2
    <3>3. CASE k # K - 1
      <4>1. k < K - 1
        BY <1>2, <3>3
      <4> QED
        BY <1>1, <1>5, <3>1, <3>3, <4>1
    <3> QED
      BY <3>2, <3>3
  <2>2. ASSUME NEW i \in 0..(F - 1)
        PROVE  \E b \in blocks : i \in b.offset..(b.offset + b.size - 1)
    <3> DEFINE k == i \div B
    <3>1. k \in Nat /\ B * k <= i /\ i < B * (k + 1)
      BY <1>1, DivisionBounds
    <3> HIDE DEF k
    <3>2. k \in 0..(K - 1)
      <4>1. K * B = B * K /\ K \in Nat
        BY <1>1, <1>2
      <4>2. B * k \in Nat /\ B * K \in Nat
        BY <1>1, <3>1, <4>1
      <4>3. B * k < B * K
        BY <1>1, <1>2, <3>1, <4>1, <4>2
      <4>4. k < K
        BY <1>1, <3>1, <4>1, <4>3, LessByProduct
      <4> QED
        BY <1>2, <3>1, <4>4
    <3>3. B * k = k * B /\ B * (k + 1) = (k + 1) * B
      BY <1>1, <3>1
    <3>4. i \in StoredBlock(F, B, k).offset
               ..(StoredBlock(F, B, k).offset + StoredBlock(F, B, k).size - 1)
      <4>1. CASE k = K - 1
        BY <1>1, <1>5, <3>1, <3>2, <3>3, <4>1
      <4>2. CASE k # K - 1
        BY <1>1, <1>5, <3>1, <3>2, <3>3, <4>2
      <4> QED
        BY <4>1, <4>2
    <3> QED
      BY <1>5, <3>2, <3>4
  <2> QED
    BY <2>1, <2>2
<1>10. PngByteCount(input.w, input.h, B)
         = 8 + (12 + 13)
           + (12 + (2 + MapThenSumSet(LAMBDA b : 5 + b.size, blocks) + 4)) + 12
  <2> DEFINE total == MapThenSumSet(LAMBDA b : 5 + b.size, blocks)
  <2>1. K \in Int /\ F \in Int
    BY <1>1, <1>2
  <2>2. total = 5 * K + F
    BY <1>3
  <2> HIDE DEF total
  <2>3. PngByteCount(input.w, input.h, B) = 8 + (12 + 13) + (12 + (2 + total + 4)) + 12
    BY <1>4, <2>1, <2>2
  <2> QED
    BY <2>3 DEF total
<1> QED
  BY <1>8, <1>9, <1>10 DEF blocks, F, B

-----------------------------------------------------------------------------
(* Orders: a sorted set, a least element, tuples and fractions.             *)

\* A strict order on a set, and a total one.
StrictOn(S, R) ==
    /\ \A x \in S : <<x, x>> \notin R
    /\ \A x, y, z \in S : <<x, y>> \in R /\ <<y, z>> \in R => <<x, z>> \in R

TotalOn(S, R) == StrictOn(S, R) /\ \A x, y \in S : x = y \/ <<x, y>> \in R \/ <<y, x>> \in R

\* InOrder lists every member of a finite set once, in the order.
LEMMA InOrderSorts ==
    ASSUME NEW S, IsFiniteSet(S), NEW R, TotalOn(S, R)
    PROVE  LET f == InOrder(S, R)
           IN /\ f \in [1..Cardinality(S) -> S]
              /\ DOMAIN f = 1..Cardinality(S)
              /\ \A i, j \in 1..Cardinality(S) : f[i] = f[j] => i = j
              /\ \A x \in S : \E i \in 1..Cardinality(S) : f[i] = x
              /\ \A i, j \in 1..Cardinality(S) : i < j <=> <<f[i], f[j]>> \in R
<1> DEFINE n == Cardinality(S)
           Below(x) == {y \in S : <<y, x>> \in R}
           place(x) == Cardinality(Below(x))
           f == InOrder(S, R)
<1>1. n \in Nat
  BY FS_CardinalityType
<1>2. \A x \in S : IsFiniteSet(Below(x)) /\ place(x) \in Nat
  BY FS_Subset, FS_CardinalityType
<1>3. ASSUME NEW x \in S, NEW y \in S, <<x, y>> \in R
      PROVE  place(x) < place(y)
  <2>1. Below(x) \subseteq Below(y) /\ x \in Below(y) /\ x \notin Below(x)
    BY <1>3 DEF TotalOn, StrictOn
  <2>2. Below(x) # Below(y)
    BY <2>1
  <2>3. place(x) <= place(y) /\ place(x) # place(y)
    BY <1>2, <2>1, <2>2, FS_Subset
  <2> QED
    BY <1>2, <2>3
<1>4. \A x, y \in S : place(x) = place(y) => x = y
  <2> SUFFICES ASSUME NEW x \in S, NEW y \in S, place(x) = place(y), x # y
               PROVE  FALSE
    OBVIOUS
  <2>1. <<x, y>> \in R \/ <<y, x>> \in R
    BY DEF TotalOn
  <2>2. place(x) < place(y) \/ place(y) < place(x)
    BY <1>3, <2>1
  <2>3. place(x) \in Nat /\ place(y) \in Nat
    BY <1>2
  <2> HIDE DEF place
  <2> QED
    BY <2>2, <2>3
<1>5. \A x \in S : place(x) < n
  <2> TAKE x \in S
  <2>1. x \notin Below(x)
    BY DEF TotalOn, StrictOn
  <2>2. place(x) <= n /\ place(x) # n
    BY <2>1, FS_Subset
  <2> QED
    BY <1>1, <1>2, <2>2
<1> DEFINE up == [x \in S |-> place(x) + 1]
<1>6. up \in Injection(S, 1..n)
  <2>1. up \in [S -> 1..n]
    BY <1>1, <1>2, <1>5
  <2>2. \A x, y \in S : up[x] = up[y] => x = y
    <3> SUFFICES ASSUME NEW x \in S, NEW y \in S, up[x] = up[y]
                 PROVE  x = y
      OBVIOUS
    <3>1. place(x) \in Nat /\ place(y) \in Nat
      BY <1>2
    <3>2. place(x) + 1 = place(y) + 1
      OBVIOUS
    <3>3. place(x) = place(y)
      <4> HIDE DEF place
      <4> QED
        BY <3>1, <3>2
    <3> QED
      BY <1>4, <3>3
  <2> QED
    BY <2>1, <2>2, Fun_IsInj
<1>7. \A i \in 1..n : \E x \in S : place(x) = i - 1
  <2>1. IsFiniteSet(1..n) /\ Cardinality(1..n) = n
    BY <1>1, FS_Interval
  <2>2. up \in Surjection(S, 1..n)
    BY <1>6, <2>1, FS_Injection
  <2>3. \A i \in 1..n : \E x \in S : up[x] = i
    <3> HIDE DEF up, n
    <3> QED
      BY <2>2, Fun_SurjectionProperties
  <2>4. \A x \in S : up[x] = place(x) + 1
    OBVIOUS
  <2>5. \A x \in S : place(x) \in Nat
    BY <1>2
  <2> HIDE DEF up, place
  <2> QED
    BY <2>3, <2>4, <2>5
<1>8. /\ DOMAIN f = 1..n
      /\ \A i \in 1..n : f[i] = CHOOSE x \in S : place(x) = i - 1
  BY DEF InOrder
<1> HIDE DEF f, place
<1>9. \A i \in 1..n : f[i] \in S /\ place(f[i]) = i - 1
  BY <1>7, <1>8
<1>10. f \in [1..n -> S]
  <2>1. \A i \in 1..n : (CHOOSE x \in S : place(x) = i - 1) \in S
    BY <1>7
  <2> QED
    BY <2>1 DEF f, InOrder, place
<1>11. \A i, j \in 1..n : f[i] = f[j] => i = j
  <2> TAKE i, j \in 1..n
  <2>1. f[i] = f[j] => i - 1 = j - 1
    BY <1>9
  <2> QED
    BY <1>1, <2>1
<1>12. \A x \in S : \E i \in 1..n : f[i] = x
  <2> TAKE x \in S
  <2>1. place(x) + 1 \in 1..n /\ (place(x) + 1) - 1 = place(x)
    <3>1. place(x) \in Nat /\ place(x) < n
      BY <1>2, <1>5
    <3> QED
      BY <1>1, <3>1
  <2>2. f[place(x) + 1] = x
    BY <1>4, <1>9, <2>1
  <2> QED
    BY <2>1, <2>2
<1>13. \A i, j \in 1..n : i < j <=> <<f[i], f[j]>> \in R
  <2> TAKE i, j \in 1..n
  <2>1. f[i] \in S /\ f[j] \in S /\ place(f[i]) = i - 1 /\ place(f[j]) = j - 1
    BY <1>9
  <2>2. ASSUME <<f[i], f[j]>> \in R
        PROVE  i < j
    <3>1. i - 1 < j - 1
      BY <1>3, <2>1, <2>2
    <3> QED
      BY <1>1, <3>1
  <2>3. ASSUME i < j
        PROVE  <<f[i], f[j]>> \in R
    <3>1. f[i] # f[j]
      BY <1>11, <2>3
    <3>2. ~(j - 1 < i - 1)
      BY <1>1, <2>3
    <3>3. <<f[j], f[i]>> \notin R
      BY <1>3, <2>1, <3>2
    <3> QED
      BY <2>1, <3>1, <3>3 DEF TotalOn
  <2> QED
    BY <2>2, <2>3
<1> QED
  BY <1>8, <1>10, <1>11, <1>12, <1>13 DEF f

\* A strict order on a finite set that is not empty has a least element.
LEMMA StrictLeast ==
    ASSUME NEW S, IsFiniteSet(S), S # {}, NEW R, StrictOn(S, R)
    PROVE  \E x \in S : \A y \in S : <<y, x>> \notin R
<1> DEFINE Q == {T \in SUBSET S : T # {} => \E x \in T : \A y \in T : <<y, x>> \notin R}
<1>1. ASSUME NEW T \in SUBSET S, \A U \in SUBSET T : U # T => U \in Q
      PROVE  T \in Q
  <2> SUFFICES ASSUME T # {}
               PROVE  \E x \in T : \A y \in T : <<y, x>> \notin R
    OBVIOUS
  <2>1. PICK z \in T : TRUE
    OBVIOUS
  <2> DEFINE U == {y \in T : <<y, z>> \in R}
  <2>2. U \in SUBSET T /\ z \notin U
    BY <2>1 DEF StrictOn
  <2>3. CASE U = {}
    BY <2>1, <2>3
  <2>4. CASE U # {}
    <3>1. U \in Q
      BY <1>1, <2>1, <2>2
    <3>2. PICK x \in U : \A y \in U : <<y, x>> \notin R
      BY <2>4, <3>1
    <3>3. \A y \in T : <<y, x>> \notin R
      <4> SUFFICES ASSUME NEW y \in T, <<y, x>> \in R
                   PROVE  FALSE
        OBVIOUS
      <4>1. <<y, z>> \in R
        BY <2>1, <3>2 DEF StrictOn
      <4> QED
        BY <3>2, <4>1
    <3> QED
      BY <3>2, <3>3
  <2> QED
    BY <2>3, <2>4
<1>2. \A T \in SUBSET S : T \in Q
  <2> HIDE DEF Q
  <2> QED
    BY <1>1, SubsetInduction
<1> QED
  BY <1>2

\* The lexicographic order of integer tuples of one length.
LEMMA LexIrreflexive ==
    ASSUME NEW n \in Nat, NEW s, DOMAIN s = 1..n, \A i \in 1..n : s[i] \in Int
    PROVE  ~LexLess(s, s)
  BY DEF LexLess

LEMMA LexTransitive ==
    ASSUME NEW n \in Nat, NEW s, NEW t, NEW u,
           DOMAIN s = 1..n, DOMAIN t = 1..n, DOMAIN u = 1..n,
           \A i \in 1..n : s[i] \in Int /\ t[i] \in Int /\ u[i] \in Int,
           LexLess(s, t), LexLess(t, u)
    PROVE  LexLess(s, u)
<1>1. PICK i \in 1..n : s[i] < t[i] /\ \A j \in 1..(i - 1) : s[j] = t[j]
  BY DEF LexLess
<1>2. PICK k \in 1..n : t[k] < u[k] /\ \A j \in 1..(k - 1) : t[j] = u[j]
  BY DEF LexLess
<1>3. CASE i < k
  <2>1. i \in 1..(k - 1)
    BY <1>3
  <2>2. s[i] < u[i]
    BY <1>1, <1>2, <2>1
  <2>3. \A j \in 1..(i - 1) : s[j] = u[j]
    BY <1>1, <1>2, <1>3
  <2> QED
    BY <2>2, <2>3 DEF LexLess
<1>4. CASE i = k
  <2>1. s[i] < u[i]
    BY <1>1, <1>2, <1>4
  <2>2. \A j \in 1..(i - 1) : s[j] = u[j]
    BY <1>1, <1>2, <1>4
  <2> QED
    BY <2>1, <2>2 DEF LexLess
<1>5. CASE k < i
  <2>1. k \in 1..(i - 1)
    BY <1>5
  <2>2. s[k] < u[k]
    BY <1>1, <1>2, <2>1
  <2>3. \A j \in 1..(k - 1) : s[j] = u[j]
    BY <1>1, <1>2, <1>5
  <2> QED
    BY <2>2, <2>3 DEF LexLess
<1> QED
  BY <1>3, <1>4, <1>5

LEMMA LexTotal ==
    ASSUME NEW n \in Nat, NEW s, NEW t, DOMAIN s = 1..n, DOMAIN t = 1..n,
           \A i \in 1..n : s[i] \in Int /\ t[i] \in Int,
           NEW k \in 1..n, s[k] # t[k]
    PROVE  LexLess(s, t) \/ LexLess(t, s)
<1> DEFINE D == {i \in 1..n : s[i] # t[i]}
<1>1. D \in SUBSET Nat /\ D # {}
  BY SMTT(30)
<1>2. PICK i \in D : \A j \in D : i <= j
  BY <1>1, LeastNatural
<1>3. \A j \in 1..(i - 1) : s[j] = t[j]
  <2> TAKE j \in 1..(i - 1)
  <2>1. j \in 1..n /\ ~(i <= j)
    BY <1>2
  <2> QED
    BY <1>2, <2>1
<1>4. s[i] < t[i] \/ t[i] < s[i]
  BY <1>2
<1> QED
  BY <1>2, <1>3, <1>4 DEF LexLess

\* Products with a positive factor keep and reflect the order of integers.
LEMMA TimesPositive ==
    ASSUME NEW x \in Int, NEW y \in Int, NEW d \in Nat \ {0}
    PROVE  x < y <=> x * d < y * d
<1>1. ASSUME x < y
      PROVE  x * d < y * d
  <2>1. PICK m \in Nat : y = x + m + 1
    <3>1. y - x - 1 \in Nat /\ y = x + (y - x - 1) + 1
      BY <1>1
    <3> QED
      BY <3>1
  <2>2. (x + m + 1) * d = x * d + m * d + d /\ m * d \in Nat /\ x * d \in Int
    BY <2>1
  <2> QED
    BY <2>1, <2>2
<1>2. ASSUME y < x
      PROVE  y * d < x * d
  <2>1. PICK m \in Nat : x = y + m + 1
    <3>1. x - y - 1 \in Nat /\ x = y + (x - y - 1) + 1
      BY <1>2
    <3> QED
      BY <3>1
  <2>2. (y + m + 1) * d = y * d + m * d + d /\ m * d \in Nat /\ y * d \in Int
    BY <2>1
  <2> QED
    BY <2>1, <2>2
<1>3. x * d \in Int /\ y * d \in Int
  OBVIOUS
<1> QED
  BY <1>1, <1>2, <1>3

LEMMA TimesPositiveEqual ==
    ASSUME NEW x \in Int, NEW y \in Int, NEW d \in Nat \ {0}
    PROVE  x = y <=> x * d = y * d
<1>1. x < y <=> x * d < y * d
  BY TimesPositive
<1>2. y < x <=> y * d < x * d
  BY TimesPositive
<1>3. x * d \in Int /\ y * d \in Int
  OBVIOUS
<1> QED
  BY <1>1, <1>2, <1>3

\* Fractions compared by cross multiplication.
LEMMA FractionsCompare ==
    ASSUME NEW a \in Int, NEW c \in Int, NEW e \in Int,
           NEW b \in Nat \ {0}, NEW d \in Nat \ {0}, NEW f \in Nat \ {0}
    PROVE  /\ a * d < c * b /\ c * f < e * d => a * f < e * b
           /\ a * d < c * b /\ c * f = e * d => a * f < e * b
           /\ a * d = c * b /\ c * f < e * d => a * f < e * b
           /\ a * d = c * b /\ c * f = e * d => a * f = e * b
<1> DEFINE ad == a * d  cb == c * b  cf == c * f  ed == e * d  af == a * f  eb == e * b
<1>1. ad \in Int /\ cb \in Int /\ cf \in Int /\ ed \in Int /\ af \in Int /\ eb \in Int
  OBVIOUS
<1>2. ad * f = af * d /\ cb * f = cf * b /\ ed * b = eb * d
  OBVIOUS
<1> HIDE DEF ad, cb, cf, ed, af, eb
<1>3. /\ ad < cb <=> ad * f < cb * f
      /\ ad = cb <=> ad * f = cb * f
      /\ cf < ed <=> cf * b < ed * b
      /\ cf = ed <=> cf * b = ed * b
      /\ af < eb <=> af * d < eb * d
      /\ af = eb <=> af * d = eb * d
  BY <1>1, TimesPositive, TimesPositiveEqual
<1>4. /\ ad * f \in Int /\ cb * f \in Int /\ ed * b \in Int
  BY <1>1
<1> DEFINE x == ad * f  y == cb * f  z == ed * b
<1>5. /\ ad < cb <=> x < y
      /\ ad = cb <=> x = y
      /\ cf < ed <=> y < z
      /\ cf = ed <=> y = z
      /\ af < eb <=> x < z
      /\ af = eb <=> x = z
  BY <1>2, <1>3
<1>6. x \in Int /\ y \in Int /\ z \in Int
  BY <1>4
<1> HIDE DEF x, y, z
<1>7. /\ ad < cb /\ cf < ed => af < eb
      /\ ad < cb /\ cf = ed => af < eb
      /\ ad = cb /\ cf < ed => af < eb
      /\ ad = cb /\ cf = ed => af = eb
  BY <1>5, <1>6
<1> QED
  BY <1>7 DEF ad, cb, cf, ed, af, eb

\* Ratios first, a key to break ties: a strict order, and a total one when no two
\* keys are equal.
RatioBefore(S, num, den, key) ==
    {p \in S \X S :
        \/ num[p[1]] * den[p[2]] < num[p[2]] * den[p[1]]
        \/ /\ num[p[1]] * den[p[2]] = num[p[2]] * den[p[1]]
           /\ LexLess(key[p[1]], key[p[2]])}

KeysOf(S, n, key) == \A x \in S : DOMAIN key[x] = 1..n /\ \A i \in 1..n : key[x][i] \in Int

LEMMA RatioOrder ==
    ASSUME NEW S, NEW num, NEW den, NEW n \in Nat, NEW key, KeysOf(S, n, key),
           \A x \in S : num[x] \in Int /\ den[x] \in Nat \ {0}
    PROVE  /\ StrictOn(S, RatioBefore(S, num, den, key))
           /\ (\A x, y \in S : x # y => \E i \in 1..n : key[x][i] # key[y][i])
                => TotalOn(S, RatioBefore(S, num, den, key))
<1> DEFINE R == RatioBefore(S, num, den, key)
           Lower(x, y) == num[x] * den[y] < num[y] * den[x]
           Level(x, y) == num[x] * den[y] = num[y] * den[x]
<1>1. \A x, y \in S : <<x, y>> \in R <=> Lower(x, y) \/ (Level(x, y) /\ LexLess(key[x], key[y]))
  BY DEF RatioBefore
<1> HIDE DEF R
<1>2. \A x, y, z \in S : /\ Lower(x, y) /\ Lower(y, z) => Lower(x, z)
                         /\ Lower(x, y) /\ Level(y, z) => Lower(x, z)
                         /\ Level(x, y) /\ Lower(y, z) => Lower(x, z)
                         /\ Level(x, y) /\ Level(y, z) => Level(x, z)
  <2> TAKE x, y, z \in S
  <2> DEFINE a == num[x]  c == num[y]  e == num[z]  b == den[x]  g == den[y]  f == den[z]
  <2>1. /\ a \in Int /\ c \in Int /\ e \in Int
        /\ b \in Nat \ {0} /\ g \in Nat \ {0} /\ f \in Nat \ {0}
    OBVIOUS
  <2> HIDE DEF a, c, e, b, g, f
  <2>2. /\ a * g < c * b /\ c * f < e * g => a * f < e * b
        /\ a * g < c * b /\ c * f = e * g => a * f < e * b
        /\ a * g = c * b /\ c * f < e * g => a * f < e * b
        /\ a * g = c * b /\ c * f = e * g => a * f = e * b
    BY <2>1, FractionsCompare
  <2> QED
    BY <2>2 DEF a, c, e, b, g, f
<1>3. \A x, y \in S : Lower(x, y) \/ Level(x, y) \/ Lower(y, x)
  <2> TAKE x, y \in S
  <2>1. num[x] * den[y] \in Int /\ num[y] * den[x] \in Int
    OBVIOUS
  <2> QED
    BY <2>1
<1>4. \A x, y \in S : Level(x, y) => Level(y, x)
  OBVIOUS
<1>5. \A x \in S : ~Lower(x, x)
  <2> TAKE x \in S
  <2>1. num[x] * den[x] \in Int
    OBVIOUS
  <2> QED
    BY <2>1
<1> HIDE DEF Lower, Level
<1>6. StrictOn(S, R)
  <2>1. \A x \in S : <<x, x>> \notin R
    <3>1. \A x \in S : ~LexLess(key[x], key[x])
      BY LexIrreflexive DEF KeysOf
    <3> QED
      BY <1>1, <1>5, <3>1
  <2>2. ASSUME NEW x \in S, NEW y \in S, NEW z \in S, <<x, y>> \in R, <<y, z>> \in R
        PROVE  <<x, z>> \in R
    <3>1. LexLess(key[x], key[y]) /\ LexLess(key[y], key[z]) => LexLess(key[x], key[z])
      BY LexTransitive DEF KeysOf
    <3> QED
      BY <1>1, <1>2, <2>2, <3>1
  <2> QED
    BY <2>1, <2>2 DEF StrictOn
<1>7. ASSUME \A x, y \in S : x # y => \E i \in 1..n : key[x][i] # key[y][i]
      PROVE  TotalOn(S, R)
  <2>1. ASSUME NEW x \in S, NEW y \in S, x # y
        PROVE  LexLess(key[x], key[y]) \/ LexLess(key[y], key[x])
    <3>1. PICK i \in 1..n : key[x][i] # key[y][i]
      BY <1>7, <2>1
    <3>2. /\ DOMAIN key[x] = 1..n /\ DOMAIN key[y] = 1..n
          /\ \A j \in 1..n : key[x][j] \in Int /\ key[y][j] \in Int
      BY DEF KeysOf
    <3> QED
      BY <3>1, <3>2, LexTotal
  <2> QED
    BY <1>1, <1>3, <1>4, <1>6, <2>1 DEF TotalOn
<1> QED
  BY <1>6, <1>7 DEF R

\* Tuples alone: every ratio is one.
LexBefore(S, key) == {p \in S \X S : LexLess(key[p[1]], key[p[2]])}

LEMMA LexOrder ==
    ASSUME NEW S, NEW n \in Nat, NEW key, KeysOf(S, n, key)
    PROVE  /\ StrictOn(S, LexBefore(S, key))
           /\ (\A x, y \in S : x # y => \E i \in 1..n : key[x][i] # key[y][i])
                => TotalOn(S, LexBefore(S, key))
<1> DEFINE one == [x \in S |-> 1]
<1>1. RatioBefore(S, one, one, key) = LexBefore(S, key)
  BY DEF RatioBefore, LexBefore
<1>2. \A x \in S : one[x] \in Int /\ one[x] \in Nat \ {0}
  OBVIOUS
<1> HIDE DEF one
<1> QED
  BY <1>1, <1>2, RatioOrder

\* The least and the greatest of two integers.
LEMMA TwoExtremes ==
    ASSUME NEW a \in Int, NEW b \in Int
    PROVE  /\ Min({a, b}) = IF a <= b THEN a ELSE b
           /\ Max({a, b}) = IF a <= b THEN b ELSE a
<1> DEFINE low == IF a <= b THEN a ELSE b
           high == IF a <= b THEN b ELSE a
<1>1. low \in {a, b} /\ \A y \in {a, b} : low <= y
  OBVIOUS
<1>2. \A x \in {a, b} : (\A y \in {a, b} : x <= y) => x = low
  OBVIOUS
<1>3. Min({a, b}) = low
  <2> HIDE DEF low
  <2> QED
    BY <1>1, <1>2 DEF Min
<1>4. high \in {a, b} /\ \A y \in {a, b} : high >= y
  OBVIOUS
<1>5. \A x \in {a, b} : (\A y \in {a, b} : x >= y) => x = high
  OBVIOUS
<1>6. Max({a, b}) = high
  <2> HIDE DEF high
  <2> QED
    BY <1>4, <1>5 DEF Max
<1> QED
  BY <1>3, <1>6

\* The smallest hash of a cluster.
LEMMA MinHashIs ==
    ASSUME NEW A, IsFiniteSet(A), A # {}, NEW h, \A i \in A : h[i] \in Int
    PROVE  /\ MinHash(h, A) \in Int
           /\ \E i \in A : MinHash(h, A) = h[i]
           /\ \A i \in A : MinHash(h, A) <= h[i]
<1> DEFINE T == {h[i] : i \in A}
<1>1. PICK m \in A : \A c \in A : h[m] <= h[c]
  BY LeastValue
<1>2. h[m] \in T /\ \A y \in T : h[m] <= y
  BY <1>1
<1>3. Min(T) \in T /\ \A y \in T : Min(T) <= y
  <2> HIDE DEF T
  <2> QED
    BY <1>2 DEF Min
<1> QED
  BY <1>3 DEF MinHash

-----------------------------------------------------------------------------
(* Sums over pairs, and the clusters of a bag.                              *)

LinkRow(d, A, B) == [p \in A \X B |-> d[p[1]][p[2]]]

LEMMA LinkSumIsSum ==
    ASSUME NEW d, NEW A, IsFiniteSet(A), NEW B, IsFiniteSet(B)
    PROVE  LinkSum(d, A, B) = RowSum(LinkRow(d, A, B), A \X B)
<1> DEFINE S == A \X B
           row == LinkRow(d, A, B)
           Step(f) == [s \in SUBSET S |->
                IF s = {} THEN 0
                ELSE LET x == CHOOSE x \in s : TRUE IN d[x[1]][x[2]] + f[s \ {x}]]
           sum == CHOOSE f : f = Step(f)
<1>1. LinkSum(d, A, B) = sum[S]
  BY DEF LinkSum, MapThenSumSet, MapThenFoldSet
<1>2. ASSUME NEW f
      PROVE  Step(f) = [s \in SUBSET S |-> SumStep(row, f, s)]
  <2>1. ASSUME NEW s \in SUBSET S
        PROVE  Step(f)[s] = SumStep(row, f, s)
    <3>1. CASE s = {}
      BY <3>1 DEF SumStep
    <3>2. CASE s # {}
      <4> DEFINE x == CHOOSE x \in s : TRUE
      <4>1. x \in S
        BY <3>2
      <4>2. row[x] = d[x[1]][x[2]]
        BY <4>1 DEF LinkRow
      <4> QED
        BY <3>2, <4>2 DEF SumStep
    <3> QED
      BY <3>1, <3>2
  <2> QED
    BY <2>1
<1>3. IsFiniteSet(S)
  BY FS_Product
<1> HIDE DEF S, row
<1>4. PICK f : Sums(row, SUBSET S, f)
  BY <1>3, RowSums
<1>5. f = Step(f)
  BY <1>2, <1>4 DEF Sums
<1>6. sum = Step(sum)
  BY ZenonT(40), <1>5
<1>7. Sums(row, SUBSET S, sum)
  <2> HIDE DEF sum
  <2>1. Step(sum) = [s \in SUBSET S |-> SumStep(row, sum, s)]
    BY <1>2
  <2> HIDE DEF Step
  <2> QED
    BY <1>6, <2>1 DEF Sums
<1> HIDE DEF sum
<1>8. sum[S] = RowSum(row, S)
  BY <1>3, <1>7, SumIsRowSum
<1> QED
  BY <1>1, <1>8 DEF S, row

\* Distances between the items of a bag.
Distances(d, bag) == \A i, j \in bag : d[i][j] \in Int

LEMMA LinkTyped ==
    ASSUME NEW bag, IsFiniteSet(bag), NEW d, Distances(d, bag),
           NEW A \in SUBSET bag, NEW B \in SUBSET bag
    PROVE  /\ LinkSum(d, A, B) \in Int
           /\ A # {} /\ B # {} => LinkSize(A, B) \in Nat \ {0}
<1>1. IsFiniteSet(A) /\ IsFiniteSet(B) /\ IsFiniteSet(A \X B)
  BY FS_Subset, FS_Product
<1>2. LinkSum(d, A, B) \in Int
  <2>1. \A p \in A \X B : LinkRow(d, A, B)[p] \in Int
    BY DEF LinkRow, Distances
  <2>2. RowSum(LinkRow(d, A, B), A \X B) \in Int
    BY <1>1, <2>1, SumIsInteger
  <2> QED
    BY <1>1, <2>2, LinkSumIsSum
<1>3. ASSUME A # {}, B # {}
      PROVE  LinkSize(A, B) \in Nat \ {0}
  <2>1. Cardinality(A) \in Nat /\ Cardinality(B) \in Nat
    BY <1>1, FS_CardinalityType
  <2>2. Cardinality(A) # 0 /\ Cardinality(B) # 0
    BY <1>1, <1>3, FS_EmptySet
  <2>3. \A x, y \in Nat \ {0} : x * y \in Nat \ {0}
    <3> TAKE x, y \in Nat \ {0}
    <3>1. 0 * y < x * y /\ x * y \in Int /\ 0 * y = 0
      <4>1. 0 < x /\ 0 \in Int /\ x \in Int
        OBVIOUS
      <4>2. 0 * y < x * y
        BY <4>1, TimesPositive
      <4> QED
        BY <4>2
    <3> QED
      BY <3>1
  <2> QED
    BY <2>1, <2>2, <2>3 DEF LinkSize
<1> QED
  BY <1>2, <1>3

\* A clustering of a bag: every cluster is kept under one of its members, clusters
\* are disjoint, and they cover the bag.
Clusterings(bag) ==
    {cl \in UNION {[D -> SUBSET bag] : D \in SUBSET bag} :
        /\ \A i \in DOMAIN cl : i \in cl[i]
        /\ \A i, j \in DOMAIN cl : i # j => cl[i] \cap cl[j] = {}
        /\ \A x \in bag : \E i \in DOMAIN cl : x \in cl[i]}

\* What the clustering is computed from.
BagTyped(d, h, bag) ==
    /\ IsFiniteSet(bag) /\ bag \subseteq Int
    /\ Distances(d, bag)
    /\ \A i \in bag : h[i] \in Int

LEMMA ClusteringFacts ==
    ASSUME NEW bag, IsFiniteSet(bag), NEW cl \in Clusterings(bag)
    PROVE  /\ DOMAIN cl \in SUBSET bag /\ IsFiniteSet(DOMAIN cl)
           /\ cl \in [DOMAIN cl -> SUBSET bag]
           /\ \A i \in DOMAIN cl : /\ i \in cl[i] /\ cl[i] \in SUBSET bag /\ cl[i] # {}
                                   /\ IsFiniteSet(cl[i])
                                   /\ Cardinality(cl[i]) \in Nat \ {0}
           /\ \A i, j \in DOMAIN cl : i # j => cl[i] \cap cl[j] = {}
           /\ \A x \in bag : \E i \in DOMAIN cl : x \in cl[i]
<1>1. PICK D \in SUBSET bag : cl \in [D -> SUBSET bag]
  BY DEF Clusterings
<1>2. DOMAIN cl = D
  BY <1>1
<1>3. IsFiniteSet(D)
  BY <1>1, FS_Subset
<1>4. ASSUME NEW i \in DOMAIN cl
      PROVE  /\ i \in cl[i] /\ cl[i] \in SUBSET bag /\ cl[i] # {}
             /\ IsFiniteSet(cl[i]) /\ Cardinality(cl[i]) \in Nat \ {0}
  <2>1. i \in cl[i] /\ cl[i] \in SUBSET bag
    BY <1>1 DEF Clusterings
  <2>2. IsFiniteSet(cl[i]) /\ Cardinality(cl[i]) \in Nat
    BY <2>1, FS_Subset, FS_CardinalityType
  <2>3. Cardinality(cl[i]) # 0
    BY <2>1, <2>2, FS_EmptySet
  <2> QED
    BY <2>1, <2>2, <2>3
<1> QED
  BY <1>1, <1>2, <1>3, <1>4 DEF Clusterings

LEMMA AbsorbClusters ==
    ASSUME NEW bag, NEW cl \in Clusterings(bag),
           NEW a \in DOMAIN cl, NEW b \in DOMAIN cl, a # b
    PROVE  Absorb(cl, a, b) \in Clusterings(bag) /\ DOMAIN Absorb(cl, a, b) = DOMAIN cl \ {b}
<1> DEFINE new == Absorb(cl, a, b)
<1>1. PICK D \in SUBSET bag : cl \in [D -> SUBSET bag]
  BY DEF Clusterings
<1>2. DOMAIN new = D \ {b} /\ D \ {b} \in SUBSET bag
  BY <1>1 DEF Absorb
<1>3. \A id \in D \ {b} : new[id] = IF id = a THEN cl[a] \cup cl[b] ELSE cl[id]
  BY <1>1 DEF Absorb
<1>4. new \in [D \ {b} -> SUBSET bag]
  BY <1>1 DEF Absorb
<1> HIDE DEF new
<1>5. \A i \in D : i \in cl[i]
  BY <1>1 DEF Clusterings
<1>6. \A i, j \in D : i # j => cl[i] \cap cl[j] = {}
  BY <1>1 DEF Clusterings
<1>7. \A x \in bag : \E i \in D : x \in cl[i]
  BY <1>1 DEF Clusterings
<1>8. \A i \in DOMAIN new : i \in new[i]
  BY <1>2, <1>3, <1>5
<1>9. ASSUME NEW i \in DOMAIN new, NEW j \in DOMAIN new, i # j
      PROVE  new[i] \cap new[j] = {}
  <2>1. a \in D /\ b \in D /\ i \in D /\ j \in D /\ i # b /\ j # b
    BY <1>1, <1>2
  <2>2. cl[i] \cap cl[j] = {} /\ cl[i] \cap cl[b] = {} /\ cl[b] \cap cl[j] = {}
    BY <1>6, <1>9, <2>1
  <2>3. new[i] \subseteq (IF i = a THEN cl[i] \cup cl[b] ELSE cl[i])
    BY <1>2, <1>3
  <2>4. new[j] \subseteq (IF j = a THEN cl[j] \cup cl[b] ELSE cl[j])
    BY <1>2, <1>3
  <2> QED
    BY <1>9, <2>2, <2>3, <2>4
<1>10. ASSUME NEW x \in bag
       PROVE  \E i \in DOMAIN new : x \in new[i]
  <2>1. PICK i \in D : x \in cl[i]
    BY <1>7
  <2>2. a \in DOMAIN new
    BY <1>1, <1>2
  <2> QED
    BY <1>2, <1>3, <2>1, <2>2
<1>11. new \in UNION {[E -> SUBSET bag] : E \in SUBSET bag}
  BY <1>2, <1>4
<1>12. new \in Clusterings(bag)
  BY <1>8, <1>9, <1>10, <1>11 DEF Clusterings
<1> QED
  BY <1>1, <1>2, <1>12 DEF new

\* The order in which pairs of clusters merge.
MergeOrder(d, h, cl) ==
    {pq \in Pairs(DOMAIN cl) \X Pairs(DOMAIN cl) : MergesBefore(d, h, cl, pq[1], pq[2])}

MergeKey(h, cl, p) ==
    << Min({MinHash(h, cl[p[1]]), MinHash(h, cl[p[2]])}),
       Max({MinHash(h, cl[p[1]]), MinHash(h, cl[p[2]])}), p[1], p[2] >>

LEMMA MergesInOrder ==
    ASSUME NEW bag, NEW d, NEW h, BagTyped(d, h, bag), NEW cl \in Clusterings(bag)
    PROVE  TotalOn(Pairs(DOMAIN cl), MergeOrder(d, h, cl))
<1> DEFINE S == Pairs(DOMAIN cl)
           num == [p \in S |-> LinkSum(d, cl[p[1]], cl[p[2]])]
           den == [p \in S |-> LinkSize(cl[p[1]], cl[p[2]])]
           key == [p \in S |-> MergeKey(h, cl, p)]
<1>1. /\ \A i \in DOMAIN cl : cl[i] \in SUBSET bag /\ cl[i] # {} /\ IsFiniteSet(cl[i])
      /\ DOMAIN cl \in SUBSET Int
  BY ClusteringFacts DEF BagTyped
<1>2. ASSUME NEW p \in S
      PROVE  p[1] \in DOMAIN cl /\ p[2] \in DOMAIN cl /\ p[1] < p[2] /\ p = <<p[1], p[2]>>
  BY DEF Pairs
<1>3. \A p \in S : num[p] \in Int /\ den[p] \in Nat \ {0}
  <2> TAKE p \in S
  <2>1. /\ cl[p[1]] \in SUBSET bag /\ cl[p[1]] # {}
        /\ cl[p[2]] \in SUBSET bag /\ cl[p[2]] # {}
    BY <1>1, <1>2
  <2> QED
    BY <2>1, LinkTyped DEF BagTyped
<1>4. \A i \in DOMAIN cl : MinHash(h, cl[i]) \in Int
  <2> TAKE i \in DOMAIN cl
  <2>1. \A x \in cl[i] : h[x] \in Int
    BY <1>1 DEF BagTyped
  <2> QED
    BY <1>1, <2>1, MinHashIs
<1>5. KeysOf(S, 4, key)
  <2> SUFFICES ASSUME NEW p \in S
               PROVE  DOMAIN key[p] = 1..4 /\ \A i \in 1..4 : key[p][i] \in Int
    BY DEF KeysOf
  <2> DEFINE a == MinHash(h, cl[p[1]])  b == MinHash(h, cl[p[2]])
  <2>1. a \in Int /\ b \in Int
    BY <1>2, <1>4
  <2> HIDE DEF a, b
  <2>2. Min({a, b}) \in Int /\ Max({a, b}) \in Int
    BY <2>1, TwoExtremes
  <2>3. p[1] \in Int /\ p[2] \in Int
    BY <1>1, <1>2
  <2>4. key[p] = <<Min({a, b}), Max({a, b}), p[1], p[2]>>
    BY DEF MergeKey, a, b
  <2> QED
    BY <2>2, <2>3, <2>4
<1>6. \A p, q \in S : p # q => \E i \in 1..4 : key[p][i] # key[q][i]
  <2> SUFFICES ASSUME NEW p \in S, NEW q \in S, p # q
               PROVE  \E i \in 1..4 : key[p][i] # key[q][i]
    OBVIOUS
  <2>1. key[p][3] = p[1] /\ key[p][4] = p[2] /\ key[q][3] = q[1] /\ key[q][4] = q[2]
    BY DEF MergeKey
  <2>2. p[1] # q[1] \/ p[2] # q[2]
    BY <1>2
  <2> QED
    BY <2>1, <2>2
<1>7. MergeOrder(d, h, cl) = RatioBefore(S, num, den, key)
  <2>1. ASSUME NEW pq \in S \X S
        PROVE  MergesBefore(d, h, cl, pq[1], pq[2])
                 <=> \/ num[pq[1]] * den[pq[2]] < num[pq[2]] * den[pq[1]]
                     \/ /\ num[pq[1]] * den[pq[2]] = num[pq[2]] * den[pq[1]]
                        /\ LexLess(key[pq[1]], key[pq[2]])
    <3>1. pq[1] \in S /\ pq[2] \in S
      OBVIOUS
    <3> QED
      BY <3>1 DEF MergesBefore, MergeKey
  <2> QED
    BY <2>1 DEF MergeOrder, RatioBefore
<1> HIDE DEF num, den, key
<1>8. TotalOn(S, RatioBefore(S, num, den, key))
  BY <1>3, <1>5, <1>6, RatioOrder
<1> QED
  BY <1>7, <1>8

LEMMA PairsExist ==
    ASSUME NEW D, IsFiniteSet(D), D \subseteq Int, Cardinality(D) \notin {0, 1}
    PROVE  IsFiniteSet(Pairs(D)) /\ Pairs(D) # {}
<1>1. IsFiniteSet(Pairs(D))
  <2>1. IsFiniteSet(D \X D) /\ Pairs(D) \subseteq D \X D
    BY FS_Product DEF Pairs
  <2> QED
    BY <2>1, FS_Subset
<1>2. PICK i \in D : TRUE
  BY FS_EmptySet
<1>3. \E j \in D : j # i
  <2> SUFFICES ASSUME \A j \in D : j = i
               PROVE  FALSE
    OBVIOUS
  <2>1. D = {i}
    BY <1>2
  <2> QED
    BY <2>1, FS_Singleton
<1>4. PICK j \in D : j # i
  BY <1>3
<1>5. i < j \/ j < i
  BY <1>2, <1>4
<1>6. <<i, j>> \in Pairs(D) \/ <<j, i>> \in Pairs(D)
  BY <1>5 DEF Pairs
<1> QED
  BY <1>1, <1>6

\* The nearest two clusters: no other pair comes before them.
NearestOf(d, h, cl) ==
    CHOOSE p \in Pairs(DOMAIN cl) :
        \A q \in Pairs(DOMAIN cl) \ {p} : ~MergesBefore(d, h, cl, q, p)

LEMMA MergesNearest ==
    ASSUME NEW d, NEW h, NEW cl, NEW cut
    PROVE  MergeNearest(d, h, cl, cut) =
             LET best == NearestOf(d, h, cl)
                 A == cl[best[1]]
                 B == cl[best[2]]
             IN IF Cardinality(DOMAIN cl) = 1 \/ LinkSum(d, A, B) > cut * LinkSize(A, B)
                  THEN cl ELSE Absorb(cl, best[1], best[2])
  BY DEF MergeNearest, NearestOf, Least

LEMMA NearestPair ==
    ASSUME NEW bag, NEW d, NEW h, BagTyped(d, h, bag), NEW cl \in Clusterings(bag),
           Cardinality(DOMAIN cl) \notin {0, 1}
    PROVE  LET best == NearestOf(d, h, cl)
           IN /\ best \in Pairs(DOMAIN cl)
              /\ \A p \in Pairs(DOMAIN cl) \ {best} : MergesBefore(d, h, cl, best, p)
<1> DEFINE S == Pairs(DOMAIN cl)
           best == NearestOf(d, h, cl)
<1>1. DOMAIN cl \in SUBSET bag /\ IsFiniteSet(DOMAIN cl) /\ DOMAIN cl \subseteq Int
  BY ClusteringFacts DEF BagTyped
<1>2. IsFiniteSet(S) /\ S # {}
  BY <1>1, PairsExist
<1>4. TotalOn(S, MergeOrder(d, h, cl))
  BY MergesInOrder
<1>5. \E x \in S : \A y \in S \ {x} : ~MergesBefore(d, h, cl, y, x)
  <2>1. PICK x \in S : \A y \in S : <<y, x>> \notin MergeOrder(d, h, cl)
    BY <1>2, <1>4, StrictLeast DEF TotalOn
  <2> QED
    BY <2>1 DEF MergeOrder
<1>6. best \in S /\ \A y \in S \ {best} : ~MergesBefore(d, h, cl, y, best)
  BY <1>5 DEF NearestOf
<1> HIDE DEF best
<1>7. ASSUME NEW p \in S, p # best
      PROVE  MergesBefore(d, h, cl, best, p)
  <2>1. <<best, p>> \in MergeOrder(d, h, cl) \/ <<p, best>> \in MergeOrder(d, h, cl)
    BY <1>4, <1>6, <1>7 DEF TotalOn
  <2> QED
    BY <1>6, <1>7, <2>1 DEF MergeOrder
<1>8. best \in S /\ \A p \in S \ {best} : MergesBefore(d, h, cl, best, p)
  BY <1>6, <1>7
<1> QED
  BY <1>8 DEF best

LEMMA ManyClusters ==
    ASSUME NEW bag, bag # {}, IsFiniteSet(bag), NEW cl \in Clusterings(bag)
    PROVE  Cardinality(DOMAIN cl) \in Nat \ {0}
<1>1. DOMAIN cl # {} /\ IsFiniteSet(DOMAIN cl)
  BY ClusteringFacts
<1> QED
  BY <1>1, FS_EmptySet, FS_CardinalityType

LEMMA MergeNearestClusters ==
    ASSUME NEW bag, bag # {}, NEW d, NEW h, BagTyped(d, h, bag),
           NEW cl \in Clusterings(bag), NEW cut
    PROVE  MergeNearest(d, h, cl, cut) \in Clusterings(bag)
<1> DEFINE best == NearestOf(d, h, cl)
<1>1. CASE MergeNearest(d, h, cl, cut) = cl
  BY <1>1
<1>2. CASE MergeNearest(d, h, cl, cut) # cl
  <2>1. /\ Cardinality(DOMAIN cl) # 1
        /\ MergeNearest(d, h, cl, cut) = Absorb(cl, best[1], best[2])
    BY <1>2, MergesNearest
  <2>2. Cardinality(DOMAIN cl) # 0
    BY ManyClusters DEF BagTyped
  <2>3. best \in Pairs(DOMAIN cl)
    <3>1. Cardinality(DOMAIN cl) \notin {0, 1}
      BY <2>1, <2>2
    <3> QED
      BY <3>1, NearestPair
  <2> HIDE DEF best
  <2>4. best[1] \in DOMAIN cl /\ best[2] \in DOMAIN cl /\ best[1] < best[2]
    BY <2>3 DEF Pairs
  <2>5. best[1] # best[2]
    <3>1. DOMAIN cl \in SUBSET Int
      BY ClusteringFacts DEF BagTyped
    <3>2. best[1] \in Int /\ best[2] \in Int
      BY <2>4, <3>1
    <3> QED
      BY <2>4, <3>2
  <2>6. Absorb(cl, best[1], best[2]) \in Clusterings(bag)
    BY <2>4, <2>5, AbsorbClusters
  <2> QED
    BY <2>1, <2>6
<1> QED
  BY <1>1, <1>2

\* The least of a set under a strict order; under a total one, the one before all others.
LeastOf(S, R) == CHOOSE x \in S : \A y \in S \ {x} : <<y, x>> \notin R

LEMMA LeastIs ==
    ASSUME NEW S, IsFiniteSet(S), S # {}, NEW R, TotalOn(S, R)
    PROVE  /\ LeastOf(S, R) \in S
           /\ \A y \in S \ {LeastOf(S, R)} : <<LeastOf(S, R), y>> \in R
<1>1. \E x \in S : \A y \in S : <<y, x>> \notin R
  BY StrictLeast DEF TotalOn
<1>2. LeastOf(S, R) \in S /\ \A y \in S \ {LeastOf(S, R)} : <<y, LeastOf(S, R)>> \notin R
  BY <1>1 DEF LeastOf
<1> QED
  BY <1>2 DEF TotalOn

\* The neighbour an undersized category is folded into.
FoldOrder(d, h, cl, victim) ==
    LET others == DOMAIN cl \ {victim}
    IN RatioBefore(others, [a \in others |-> LinkSum(d, cl[victim], cl[a])],
                   [a \in others |-> LinkSize(cl[victim], cl[a])],
                   [a \in others |-> <<MinHash(h, cl[a]), a>>])

LEMMA FoldsInOrder ==
    ASSUME NEW bag, NEW d, NEW h, BagTyped(d, h, bag), NEW cl \in Clusterings(bag),
           NEW victim \in DOMAIN cl
    PROVE  /\ TotalOn(DOMAIN cl \ {victim}, FoldOrder(d, h, cl, victim))
           /\ FoldTarget(d, h, cl, victim)
                = LeastOf(DOMAIN cl \ {victim}, FoldOrder(d, h, cl, victim))
<1> DEFINE S == DOMAIN cl \ {victim}
           num == [a \in S |-> LinkSum(d, cl[victim], cl[a])]
           den == [a \in S |-> LinkSize(cl[victim], cl[a])]
           key == [a \in S |-> <<MinHash(h, cl[a]), a>>]
<1>1. /\ \A i \in DOMAIN cl : cl[i] \in SUBSET bag /\ cl[i] # {} /\ IsFiniteSet(cl[i])
      /\ DOMAIN cl \in SUBSET Int
  BY ClusteringFacts DEF BagTyped
<1>2. \A a \in S : num[a] \in Int /\ den[a] \in Nat \ {0}
  <2> TAKE a \in S
  <2>1. /\ cl[a] \in SUBSET bag /\ cl[a] # {}
        /\ cl[victim] \in SUBSET bag /\ cl[victim] # {}
    BY <1>1
  <2> QED
    BY <2>1, LinkTyped DEF BagTyped
<1>3. KeysOf(S, 2, key)
  <2> SUFFICES ASSUME NEW a \in S
               PROVE  DOMAIN key[a] = 1..2 /\ \A i \in 1..2 : key[a][i] \in Int
    BY DEF KeysOf
  <2>1. \A x \in cl[a] : h[x] \in Int
    BY <1>1 DEF BagTyped
  <2>2. MinHash(h, cl[a]) \in Int
    BY <1>1, <2>1, MinHashIs
  <2> QED
    BY <1>1, <2>2
<1>4. \A a, b \in S : a # b => \E i \in 1..2 : key[a][i] # key[b][i]
  <2> TAKE a, b \in S
  <2>1. key[a][2] = a /\ key[b][2] = b
    OBVIOUS
  <2> QED
    BY <2>1
<1>5. FoldTarget(d, h, cl, victim) = LeastOf(S, RatioBefore(S, num, den, key))
  <2>1. \A p \in S \X S :
          p \in RatioBefore(S, num, den, key)
            <=> LET A == cl[p[1]]  B == cl[p[2]]
                    left == LinkSum(d, cl[victim], A) * LinkSize(cl[victim], B)
                    right == LinkSum(d, cl[victim], B) * LinkSize(cl[victim], A)
                IN left < right
                   \/ (left = right
                         /\ LexLess(<<MinHash(h, A), p[1]>>, <<MinHash(h, B), p[2]>>))
    BY DEF RatioBefore
  <2> DEFINE V == cl[victim]
             Before(a, b) ==
               LET A == cl[a]  B == cl[b]
                   left == LinkSum(d, V, A) * LinkSize(V, B)
                   right == LinkSum(d, V, B) * LinkSize(V, A)
               IN left < right
                  \/ (left = right /\ LexLess(<<MinHash(h, A), a>>, <<MinHash(h, B), b>>))
  <2>2. \A a, b \in S : <<a, b>> \in RatioBefore(S, num, den, key) <=> Before(a, b)
    <3> HIDE DEF num, den, key
    <3> QED
      BY <2>1
  <2>3. FoldTarget(d, h, cl, victim) = CHOOSE a \in S : \A b \in S \ {a} : ~Before(b, a)
    BY DEF FoldTarget, Least
  <2> HIDE DEF num, den, key, S, Before
  <2> QED
    BY <2>2, <2>3 DEF LeastOf
<1>6. FoldOrder(d, h, cl, victim) = RatioBefore(S, num, den, key)
  BY DEF FoldOrder
<1> HIDE DEF num, den, key, S
<1>7. TotalOn(S, RatioBefore(S, num, den, key))
  BY <1>2, <1>3, <1>4, RatioOrder
<1>8. /\ TotalOn(S, FoldOrder(d, h, cl, victim))
      /\ FoldTarget(d, h, cl, victim) = LeastOf(S, FoldOrder(d, h, cl, victim))
  BY <1>5, <1>6, <1>7
<1> QED
  BY <1>8 DEF S

\* The category to fold first.
Undersized(cl, minSize) == {id \in DOMAIN cl : Cardinality(cl[id]) < minSize}

VictimKey(h, cl) == [id \in DOMAIN cl |-> <<Cardinality(cl[id]), MinHash(h, cl[id]), id>>]

VictimOrder(h, cl, S) == LexBefore(S, VictimKey(h, cl))

LEMMA VictimsInOrder ==
    ASSUME NEW bag, NEW d, NEW h, BagTyped(d, h, bag), NEW cl \in Clusterings(bag),
           NEW S \in SUBSET DOMAIN cl
    PROVE  TotalOn(S, VictimOrder(h, cl, S))
<1> DEFINE key == VictimKey(h, cl)
<1>1. /\ \A i \in DOMAIN cl : /\ cl[i] \in SUBSET bag /\ cl[i] # {} /\ IsFiniteSet(cl[i])
                              /\ Cardinality(cl[i]) \in Int
      /\ DOMAIN cl \in SUBSET Int
  BY ClusteringFacts DEF BagTyped
<1>2. KeysOf(S, 3, key)
  <2> SUFFICES ASSUME NEW a \in S
               PROVE  DOMAIN key[a] = 1..3 /\ \A i \in 1..3 : key[a][i] \in Int
    BY DEF KeysOf
  <2>1. \A x \in cl[a] : h[x] \in Int
    BY <1>1 DEF BagTyped
  <2>2. MinHash(h, cl[a]) \in Int
    BY <1>1, <2>1, MinHashIs
  <2> QED
    BY <1>1, <2>2 DEF VictimKey
<1>3. \A a, b \in S : a # b => \E i \in 1..3 : key[a][i] # key[b][i]
  <2> TAKE a, b \in S
  <2>1. key[a][3] = a /\ key[b][3] = b
    BY DEF VictimKey
  <2> QED
    BY <2>1
<1> HIDE DEF key
<1>4. TotalOn(S, LexBefore(S, key))
  BY <1>2, <1>3, LexOrder
<1> QED
  BY <1>4 DEF VictimOrder, key

LEMMA MergesSmallest ==
    ASSUME NEW d, NEW h, NEW cl, NEW minSize
    PROVE  MergeSmallest(d, h, cl, minSize) =
             LET small == Undersized(cl, minSize)
                 victim == LeastOf(small, VictimOrder(h, cl, small))
             IN IF Cardinality(DOMAIN cl) = 1 \/ small = {} THEN cl
                ELSE Absorb(cl, FoldTarget(d, h, cl, victim), victim)
<1> DEFINE small == Undersized(cl, minSize)
           Key(id) == <<Cardinality(cl[id]), MinHash(h, cl[id]), id>>
<1>1. \A a, b \in small : <<a, b>> \in VictimOrder(h, cl, small) <=> LexLess(Key(a), Key(b))
  BY DEF VictimOrder, LexBefore, VictimKey, Undersized
<1>2. (CHOOSE a \in small : \A b \in small \ {a} : ~LexLess(Key(b), Key(a)))
        = LeastOf(small, VictimOrder(h, cl, small))
  <2> HIDE DEF Key, small
  <2> QED
    BY <1>1 DEF LeastOf
<1>3. MergeSmallest(d, h, cl, minSize) =
        LET victim == CHOOSE a \in small : \A b \in small \ {a} : ~LexLess(Key(b), Key(a))
        IN IF Cardinality(DOMAIN cl) = 1 \/ small = {} THEN cl
           ELSE Absorb(cl, FoldTarget(d, h, cl, victim), victim)
  BY DEF MergeSmallest, Least, Undersized
<1> HIDE DEF small, Key
<1> QED
  BY <1>2, <1>3 DEF small

LEMMA MergeSmallestClusters ==
    ASSUME NEW bag, bag # {}, NEW d, NEW h, BagTyped(d, h, bag),
           NEW cl \in Clusterings(bag), NEW minSize
    PROVE  /\ MergeSmallest(d, h, cl, minSize) \in Clusterings(bag)
           /\ Cardinality(DOMAIN cl) # 1 /\ Undersized(cl, minSize) # {}
                => Cardinality(DOMAIN MergeSmallest(d, h, cl, minSize))
                     = Cardinality(DOMAIN cl) - 1
<1> DEFINE small == Undersized(cl, minSize)
           victim == LeastOf(small, VictimOrder(h, cl, small))
           target == FoldTarget(d, h, cl, victim)
<1>1. CASE Cardinality(DOMAIN cl) = 1 \/ small = {}
  <2>1. MergeSmallest(d, h, cl, minSize) = cl
    BY <1>1, MergesSmallest
  <2> QED
    BY <1>1, <2>1
<1>2. CASE ~(Cardinality(DOMAIN cl) = 1 \/ small = {})
  <2>1. MergeSmallest(d, h, cl, minSize) = Absorb(cl, target, victim)
    BY <1>2, MergesSmallest
  <2>2. DOMAIN cl \in SUBSET bag /\ IsFiniteSet(DOMAIN cl)
    BY ClusteringFacts DEF BagTyped
  <2>3. small \in SUBSET DOMAIN cl
    BY DEF Undersized
  <2>4. IsFiniteSet(small) /\ small # {}
    <3> HIDE DEF small
    <3> QED
      BY <1>2, <2>2, <2>3, FS_Subset
  <2>5. TotalOn(small, VictimOrder(h, cl, small))
    <3> HIDE DEF small
    <3> QED
      BY <2>3, VictimsInOrder
  <2>6. victim \in small
    <3> HIDE DEF small
    <3> QED
      BY <2>4, <2>5, LeastIs
  <2> HIDE DEF victim
  <2>7. victim \in DOMAIN cl
    BY <2>3, <2>6
  <2> DEFINE others == DOMAIN cl \ {victim}
  <2>8. IsFiniteSet(others) /\ Cardinality(others) = Cardinality(DOMAIN cl) - 1
    BY <2>2, <2>7, FS_RemoveElement
  <2>9. others # {}
    <3> SUFFICES ASSUME others = {}
                 PROVE  FALSE
      OBVIOUS
    <3>1. DOMAIN cl = {victim}
      BY <2>7
    <3> QED
      BY <1>2, <3>1, FS_Singleton
  <2>10. target \in others
    <3>1. TotalOn(others, FoldOrder(d, h, cl, victim))
      BY <2>7, FoldsInOrder
    <3>2. target = LeastOf(others, FoldOrder(d, h, cl, victim))
      BY <2>7, FoldsInOrder
    <3> HIDE DEF others, target
    <3> QED
      BY <2>8, <2>9, <3>1, <3>2, LeastIs
  <2>11. /\ Absorb(cl, target, victim) \in Clusterings(bag)
         /\ DOMAIN Absorb(cl, target, victim) = others
    <3>1. target \in DOMAIN cl /\ target # victim
      BY <2>10
    <3> HIDE DEF target, others, small
    <3>2. /\ Absorb(cl, target, victim) \in Clusterings(bag)
          /\ DOMAIN Absorb(cl, target, victim) = DOMAIN cl \ {victim}
      BY SMTT(30), <2>7, <3>1, AbsorbClusters
    <3> QED
      BY <3>2 DEF others
  <2> HIDE DEF target, others
  <2> QED
    BY <2>1, <2>8, <2>11
<1> QED
  BY <1>1, <1>2

-----------------------------------------------------------------------------
\* A recursive function whose steps stay in a set exists, and stays in it.
Rounds(base, step, N, g) == g = [n \in 0..N |-> IF n = 0 THEN base ELSE step[g[n - 1]]]

LEMMA StepsExist ==
    ASSUME NEW V, NEW base \in V, NEW N \in Nat, NEW step \in [1..N -> [V -> V]]
    PROVE  \E g \in [0..N -> V] :
              g = [n \in 0..N |-> IF n = 0 THEN base ELSE step[n][g[n - 1]]]
<1> DEFINE Solves(g, m) == \A n \in 0..m : g[n] = IF n = 0 THEN base ELSE step[n][g[n - 1]]
           Q == {m \in Nat : m <= N => \E g \in [0..m -> V] : Solves(g, m)}
<1>1. 0 \in Q
  <2>1. Solves([n \in 0..0 |-> base], 0)
    OBVIOUS
  <2>2. [n \in 0..0 |-> base] \in [0..0 -> V]
    OBVIOUS
  <2> QED
    BY <2>1, <2>2
<1>2. ASSUME NEW m \in Nat, m \in Q
      PROVE  m + 1 \in Q
  <2> SUFFICES ASSUME m + 1 <= N
               PROVE  \E f \in [0..(m + 1) -> V] : Solves(f, m + 1)
    OBVIOUS
  <2>1. PICK g \in [0..m -> V] : Solves(g, m)
    BY <1>2
  <2> DEFINE f == [n \in 0..(m + 1) |-> IF n = m + 1 THEN step[m + 1][g[m]] ELSE g[n]]
  <2>2. f \in [0..(m + 1) -> V]
    <3>1. g[m] \in V /\ m + 1 \in 1..N /\ step[m + 1][g[m]] \in V
      BY <2>1
    <3>2. \A n \in 0..(m + 1) : n # m + 1 => n \in 0..m
      OBVIOUS
    <3> QED
      BY <2>1, <3>1, <3>2
  <2>3. Solves(f, m + 1)
    <3> SUFFICES ASSUME NEW n \in 0..(m + 1)
                 PROVE  f[n] = IF n = 0 THEN base ELSE step[n][f[n - 1]]
      OBVIOUS
    <3>1. CASE n = m + 1
      <4>1. n # 0 /\ n - 1 = m /\ m \in 0..(m + 1) /\ m # m + 1
        BY <3>1
      <4>2. f[n - 1] = g[m] /\ f[n] = step[m + 1][g[m]]
        BY <3>1, <4>1
      <4> QED
        BY <4>1, <4>2
    <3>2. CASE n # m + 1
      <4>1. n \in 0..m
        BY <3>2
      <4>2. f[n] = g[n] /\ (n # 0 => f[n - 1] = g[n - 1])
        BY <3>2, <4>1
      <4> HIDE DEF f
      <4> QED
        BY <2>1, <4>1, <4>2
    <3> QED
      BY <3>1, <3>2
  <2>4. m + 1 \in Nat
    OBVIOUS
  <2> HIDE DEF f, Solves
  <2> QED
    BY <2>2, <2>3, <2>4
<1>3. N \in Q
  <2> HIDE DEF Q
  <2> QED
    BY <1>1, <1>2, NatInduct
<1>4. PICK g \in [0..N -> V] : Solves(g, N)
  BY <1>3
<1>5. g = [n \in 0..N |-> IF n = 0 THEN base ELSE step[n][g[n - 1]]]
  BY <1>4
<1> QED
  BY <1>5

LEMMA RoundsExist ==
    ASSUME NEW V, NEW base \in V, NEW step \in [V -> V], NEW N \in Nat
    PROVE  \E g \in [0..N -> V] : Rounds(base, step, N, g)
<1> DEFINE steps == [n \in 1..N |-> step]
<1>1. PICK g \in [0..N -> V] : g = [n \in 0..N |-> IF n = 0 THEN base ELSE steps[n][g[n - 1]]]
  <2>1. steps \in [1..N -> [V -> V]]
    OBVIOUS
  <2> HIDE DEF steps
  <2> QED
    BY <2>1, StepsExist
<1>2. \A n \in 0..N : n # 0 => steps[n] = step
  OBVIOUS
<1> HIDE DEF steps
<1>3. g = [n \in 0..N |-> IF n = 0 THEN base ELSE step[g[n - 1]]]
  BY <1>1, <1>2
<1> QED
  BY <1>3 DEF Rounds

\* The rounds of the agglomeration, and of the repair.
MergeRun(d, h, bag, cl, cut, f) ==
    LET N == Cardinality(DOMAIN cl)
    IN /\ f \in [0..N -> Clusterings(bag)]
       /\ f[0] = cl
       /\ \A n \in 1..N : f[n] = MergeNearest(d, h, f[n - 1], cut)
       /\ Agglomerate(d, h, cl, cut) = f[N]

RepairRun(d, h, bag, cl, minSize, f) ==
    LET N == Cardinality(DOMAIN cl)
    IN /\ f \in [0..N -> Clusterings(bag)]
       /\ f[0] = cl
       /\ \A n \in 1..N : f[n] = MergeSmallest(d, h, f[n - 1], minSize)
       /\ MergeUndersized(d, h, cl, minSize) = f[N]

LEMMA AgglomerateClusters ==
    ASSUME NEW bag, bag # {}, NEW d, NEW h, BagTyped(d, h, bag),
           NEW cl \in Clusterings(bag), NEW cut
    PROVE  \E f : MergeRun(d, h, bag, cl, cut, f)
<1> DEFINE V == Clusterings(bag)
           N == Cardinality(DOMAIN cl)
           Step(f) == [n \in 0..N |-> IF n = 0 THEN cl ELSE MergeNearest(d, h, f[n - 1], cut)]
           step == [x \in V |-> MergeNearest(d, h, x, cut)]
           f == CHOOSE f : f = Step(f)
<1>1. N \in Nat
  BY ManyClusters DEF BagTyped
<1>2. step \in [V -> V]
  <2>1. \A x \in V : MergeNearest(d, h, x, cut) \in V
    BY MergeNearestClusters
  <2> QED
    BY <2>1
<1>3. \E g : g = Step(g)
  <2>1. PICK g \in [0..N -> V] : g = [n \in 0..N |-> IF n = 0 THEN cl ELSE step[g[n - 1]]]
    <3>1. cl \in V
      OBVIOUS
    <3> HIDE DEF step, V, N
    <3>2. \E g \in [0..N -> V] : Rounds(cl, step, N, g)
      BY <1>1, <1>2, <3>1, RoundsExist
    <3> QED
      BY <3>2 DEF Rounds
  <2>2. \A n \in 0..N : n # 0 => g[n - 1] \in V
    <3> HIDE DEF step, V, N
    <3>1. \A n \in 0..N : n # 0 => n - 1 \in 0..N
      BY <1>1
    <3> QED
      BY <2>1, <3>1
  <2>3. \A n \in 0..N : n # 0 => step[g[n - 1]] = MergeNearest(d, h, g[n - 1], cut)
    BY <2>2
  <2> HIDE DEF step, V, N
  <2>4. g = Step(g)
    BY <2>1, <2>3
  <2> QED
    BY <2>4
<1>4. f = Step(f)
  BY <1>3
<1>5. Agglomerate(d, h, cl, cut) = f[N]
  BY DEF Agglomerate
<1> HIDE DEF f
<1>6. f[0] = cl /\ \A n \in 1..N : f[n] = MergeNearest(d, h, f[n - 1], cut)
  <2>1. \A n \in 0..N : f[n] = IF n = 0 THEN cl ELSE MergeNearest(d, h, f[n - 1], cut)
    BY <1>4
  <2> HIDE DEF N
  <2> QED
    BY <1>1, <2>1
<1>7. \A n \in 0..N : f[n] \in V
  <2> DEFINE Q == {n \in Nat : n \in 0..N => f[n] \in V}
  <2>1. 0 \in Q
    BY <1>6
  <2>2. ASSUME NEW n \in Nat, n \in Q
        PROVE  n + 1 \in Q
    <3> SUFFICES ASSUME n + 1 \in 0..N
                 PROVE  f[n + 1] \in V
      OBVIOUS
    <3>1. n \in 0..N /\ n + 1 \in 1..N /\ (n + 1) - 1 = n
      BY <1>1
    <3>2. f[n] \in V /\ f[n + 1] = MergeNearest(d, h, f[n], cut)
      BY <1>6, <2>2, <3>1
    <3> QED
      BY <3>2, MergeNearestClusters
  <2> HIDE DEF Q
  <2>3. \A n \in Nat : n \in Q
    BY <2>1, <2>2, NatInduct
  <2> QED
    BY <2>3 DEF Q
<1>8. f \in [0..N -> V]
  BY <1>4, <1>7
<1> QED
  BY <1>5, <1>6, <1>8 DEF MergeRun

LEMMA MergeUndersizedClusters ==
    ASSUME NEW bag, bag # {}, NEW d, NEW h, BagTyped(d, h, bag),
           NEW cl \in Clusterings(bag), NEW minSize
    PROVE  \E f : RepairRun(d, h, bag, cl, minSize, f)
<1> DEFINE V == Clusterings(bag)
           N == Cardinality(DOMAIN cl)
           Step(f) == [n \in 0..N |->
                         IF n = 0 THEN cl ELSE MergeSmallest(d, h, f[n - 1], minSize)]
           step == [x \in V |-> MergeSmallest(d, h, x, minSize)]
           f == CHOOSE f : f = Step(f)
<1>1. N \in Nat
  BY ManyClusters DEF BagTyped
<1>2. step \in [V -> V]
  <2>1. \A x \in V : MergeSmallest(d, h, x, minSize) \in V
    BY MergeSmallestClusters
  <2> QED
    BY <2>1
<1>3. \E g : g = Step(g)
  <2>1. PICK g \in [0..N -> V] : g = [n \in 0..N |-> IF n = 0 THEN cl ELSE step[g[n - 1]]]
    <3>1. cl \in V
      OBVIOUS
    <3> HIDE DEF step, V, N
    <3>2. \E g \in [0..N -> V] : Rounds(cl, step, N, g)
      BY <1>1, <1>2, <3>1, RoundsExist
    <3> QED
      BY <3>2 DEF Rounds
  <2>2. \A n \in 0..N : n # 0 => g[n - 1] \in V
    <3> HIDE DEF step, V, N
    <3>1. \A n \in 0..N : n # 0 => n - 1 \in 0..N
      BY <1>1
    <3> QED
      BY <2>1, <3>1
  <2>3. \A n \in 0..N : n # 0 => step[g[n - 1]] = MergeSmallest(d, h, g[n - 1], minSize)
    BY <2>2
  <2> HIDE DEF step, V, N
  <2>4. g = Step(g)
    BY <2>1, <2>3
  <2> QED
    BY <2>4
<1>4. f = Step(f)
  BY <1>3
<1>5. MergeUndersized(d, h, cl, minSize) = f[N]
  BY DEF MergeUndersized
<1> HIDE DEF f
<1>6. f[0] = cl /\ \A n \in 1..N : f[n] = MergeSmallest(d, h, f[n - 1], minSize)
  <2>1. \A n \in 0..N : f[n] = IF n = 0 THEN cl ELSE MergeSmallest(d, h, f[n - 1], minSize)
    BY <1>4
  <2> HIDE DEF N
  <2> QED
    BY <1>1, <2>1
<1>7. \A n \in 0..N : f[n] \in V
  <2> DEFINE Q == {n \in Nat : n \in 0..N => f[n] \in V}
  <2>1. 0 \in Q
    BY <1>6
  <2>2. ASSUME NEW n \in Nat, n \in Q
        PROVE  n + 1 \in Q
    <3> SUFFICES ASSUME n + 1 \in 0..N
                 PROVE  f[n + 1] \in V
      OBVIOUS
    <3>1. n \in 0..N /\ n + 1 \in 1..N /\ (n + 1) - 1 = n
      BY <1>1
    <3>2. f[n] \in V /\ f[n + 1] = MergeSmallest(d, h, f[n], minSize)
      BY <1>6, <2>2, <3>1
    <3> QED
      BY <3>2, MergeSmallestClusters
  <2> HIDE DEF Q
  <2>3. \A n \in Nat : n \in Q
    BY <2>1, <2>2, NatInduct
  <2> QED
    BY <2>3 DEF Q
<1>8. f \in [0..N -> V]
  BY <1>4, <1>7
<1> QED
  BY <1>5, <1>6, <1>8 DEF RepairRun

LEMMA Singletons ==
    ASSUME NEW bag
    PROVE  [i \in bag |-> {i}] \in Clusterings(bag)
<1> DEFINE cl == [i \in bag |-> {i}]
<1>1. DOMAIN cl = bag /\ \A i \in bag : cl[i] = {i}
  OBVIOUS
<1>2. cl \in [bag -> SUBSET bag]
  OBVIOUS
<1>3. cl \in UNION {[D -> SUBSET bag] : D \in SUBSET bag}
  BY <1>2
<1> HIDE DEF cl
<1>4. /\ \A i \in DOMAIN cl : i \in cl[i]
      /\ \A i, j \in DOMAIN cl : i # j => cl[i] \cap cl[j] = {}
      /\ \A x \in bag : \E i \in DOMAIN cl : x \in cl[i]
  BY <1>1
<1>5. cl \in Clusterings(bag)
  BY <1>3, <1>4 DEF Clusterings
<1> QED
  BY <1>5 DEF cl

\* The repair ends: every round but an idle one leaves a category less, so after as many
\* rounds as there were categories none is undersized, or one is left.
Settled(cl, minSize) == Cardinality(DOMAIN cl) = 1 \/ Undersized(cl, minSize) = {}

LEMMA UndersizedSettle ==
    ASSUME NEW bag, bag # {}, NEW d, NEW h, BagTyped(d, h, bag),
           NEW cl \in Clusterings(bag), NEW minSize
    PROVE  /\ MergeUndersized(d, h, cl, minSize) \in Clusterings(bag)
           /\ Settled(MergeUndersized(d, h, cl, minSize), minSize)
<1> DEFINE V == Clusterings(bag)
           N == Cardinality(DOMAIN cl)
<1>1. N \in Nat
  BY ManyClusters DEF BagTyped
<1>2. PICK f : RepairRun(d, h, bag, cl, minSize, f)
  BY MergeUndersizedClusters
<1>9. /\ f \in [0..N -> V]
      /\ f[0] = cl
      /\ \A n \in 1..N : f[n] = MergeSmallest(d, h, f[n - 1], minSize)
      /\ MergeUndersized(d, h, cl, minSize) = f[N]
  BY <1>2 DEF RepairRun
<1> DEFINE Size(n) == Cardinality(DOMAIN f[n])
           Q == {n \in Nat : n \in 0..N => Settled(f[n], minSize) \/ Size(n) = N - n}
<1>3. 0 \in Q
  <2> SUFFICES Size(0) = N - 0
    OBVIOUS
  <2>1. Size(0) = N
    BY <1>9
  <2> HIDE DEF Size, N
  <2> QED
    BY <1>1, <2>1
<1>4. ASSUME NEW n \in Nat, n \in Q
      PROVE  n + 1 \in Q
  <2> SUFFICES ASSUME n + 1 \in 0..N
               PROVE  Settled(f[n + 1], minSize) \/ Size(n + 1) = N - (n + 1)
    OBVIOUS
  <2>1. n \in 0..N /\ n + 1 \in 1..N /\ (n + 1) - 1 = n
    BY <1>1
  <2>2. f[n] \in V /\ f[n + 1] = MergeSmallest(d, h, f[n], minSize)
    <3> HIDE DEF V, N
    <3> QED
      BY <1>9, <2>1
  <2>3. CASE Settled(f[n], minSize)
    <3>1. f[n + 1] = f[n]
      BY <2>2, <2>3, MergesSmallest DEF Settled
    <3> QED
      BY <2>3, <3>1
  <2>4. CASE ~Settled(f[n], minSize)
    <3>1. Size(n) = N - n
      BY <1>4, <2>1, <2>4
    <3>2. Size(n + 1) = Size(n) - 1
      BY <2>2, <2>4, MergeSmallestClusters DEF Settled
    <3> HIDE DEF Size, N
    <3>3. Size(n + 1) = N - (n + 1)
      BY <1>1, <3>1, <3>2
    <3> QED
      BY <3>3
  <2> QED
    BY <2>3, <2>4
<1>5. N \in Q
  <2> HIDE DEF Q
  <2> QED
    BY <1>1, <1>3, <1>4, NatInduct
<1>6. f[N] \in V /\ N \in 0..N
  <2> HIDE DEF V, N
  <2>1. N \in 0..N
    BY <1>1
  <2> QED
    BY <1>9, <2>1
<1>7. Size(N) # 0
  BY <1>6, ManyClusters DEF BagTyped
<1>8. Settled(f[N], minSize)
  <2> HIDE DEF N, Size
  <2>1. N - N = 0
    BY <1>1
  <2> QED
    BY <1>5, <1>6, <1>7, <2>1
<1> QED
  BY <1>6, <1>8, <1>9

LEMMA CategoriesAreClusters ==
    ASSUME NEW bag, bag # {}, NEW d, NEW h, BagTyped(d, h, bag), NEW cut, NEW minSize
    PROVE  /\ Categories(d, bag, h, cut, minSize) \in Clusterings(bag)
           /\ Settled(Categories(d, bag, h, cut, minSize), minSize)
<1> DEFINE start == [i \in bag |-> {i}]
           merged == Agglomerate(d, h, start, cut)
           N == Cardinality(DOMAIN start)
<1>1. start \in Clusterings(bag)
  BY Singletons
<1>2. Categories(d, bag, h, cut, minSize) = MergeUndersized(d, h, merged, minSize)
  BY DEF Categories
<1> HIDE DEF start
<1>3. N \in Nat
  BY <1>1, ManyClusters DEF BagTyped
<1>4. merged \in Clusterings(bag)
  <2>1. PICK f : MergeRun(d, h, bag, start, cut, f)
    BY <1>1, AgglomerateClusters
  <2>3. f \in [0..N -> Clusterings(bag)] /\ merged = f[N]
    BY <2>1 DEF MergeRun
  <2> HIDE DEF N, merged
  <2>2. N \in 0..N
    BY <1>3
  <2> QED
    BY <2>2, <2>3
<1> HIDE DEF merged
<1> QED
  BY <1>2, <1>4, UndersizedSettle

\* The order in which categories get their ids.
NameOrder(h, cl) ==
    LexBefore(DOMAIN cl, [i \in DOMAIN cl |-> <<MinHash(h, cl[i]), i>>])

LEMMA NamesAreClusters ==
    ASSUME NEW bag, NEW d, NEW h, BagTyped(d, h, bag), NEW cl \in Clusterings(bag)
    PROVE  LET named == AssignCategoryIds(h, cl)
               K == Cardinality(DOMAIN cl)
           IN /\ DOMAIN named = 1..K
              /\ \A n \in 1..K : \E i \in DOMAIN cl : named[n] = cl[i]
              /\ \A i \in DOMAIN cl : \E n \in 1..K : named[n] = cl[i]
              /\ \A m, n \in 1..K : m # n => named[m] \cap named[n] = {}
<1> DEFINE ids == DOMAIN cl
           K == Cardinality(ids)
           key == [i \in ids |-> <<MinHash(h, cl[i]), i>>]
           R == LexBefore(ids, key)
           order == InOrder(ids, R)
           named == AssignCategoryIds(h, cl)
<1>1. /\ \A i \in ids : cl[i] \in SUBSET bag /\ cl[i] # {} /\ IsFiniteSet(cl[i])
      /\ ids \in SUBSET Int /\ IsFiniteSet(ids)
      /\ \A i, j \in ids : i # j => cl[i] \cap cl[j] = {}
  BY ClusteringFacts DEF BagTyped
<1>2. KeysOf(ids, 2, key)
  <2> SUFFICES ASSUME NEW a \in ids
               PROVE  DOMAIN key[a] = 1..2 /\ \A i \in 1..2 : key[a][i] \in Int
    BY DEF KeysOf
  <2>1. \A x \in cl[a] : h[x] \in Int
    BY <1>1 DEF BagTyped
  <2>2. MinHash(h, cl[a]) \in Int
    BY <1>1, <2>1, MinHashIs
  <2> QED
    BY <1>1, <2>2
<1>3. \A a, b \in ids : a # b => \E i \in 1..2 : key[a][i] # key[b][i]
  <2> TAKE a, b \in ids
  <2>1. key[a][2] = a /\ key[b][2] = b
    OBVIOUS
  <2> QED
    BY <2>1
<1>4. named = [n \in DOMAIN order |-> cl[order[n]]]
  <2>1. R = {p \in ids \X ids : LexLess(<<MinHash(h, cl[p[1]]), p[1]>>,
                                        <<MinHash(h, cl[p[2]]), p[2]>>)}
    BY DEF LexBefore
  <2> HIDE DEF R
  <2> QED
    BY <2>1 DEF AssignCategoryIds
<1>5. TotalOn(ids, R)
  <2> HIDE DEF key, ids
  <2> QED
    BY <1>2, <1>3, LexOrder
<1>6. /\ DOMAIN order = 1..K /\ order \in [1..K -> ids]
      /\ \A i, j \in 1..K : order[i] = order[j] => i = j
      /\ \A x \in ids : \E i \in 1..K : order[i] = x
  <2> HIDE DEF R, ids
  <2> QED
    BY <1>1, <1>5, InOrderSorts
<1> HIDE DEF order, R
<1>7. DOMAIN named = 1..K /\ \A n \in 1..K : named[n] = cl[order[n]] /\ order[n] \in ids
  BY <1>4, <1>6
<1>8. \A m, n \in 1..K : m # n => named[m] \cap named[n] = {}
  BY <1>1, <1>6, <1>7
<1>9. \A i \in ids : \E n \in 1..K : named[n] = cl[i]
  BY <1>6, <1>7
<1> HIDE DEF named
<1> QED
  BY <1>7, <1>8, <1>9 DEF named

\* partition_categories: the other members of the candidate's category, and all of them,
\* are references, each in one category.
Divides(part, refs) ==
    /\ part.category \in DOMAIN part.all
    /\ part.members = part.all[part.category]
    /\ \E K \in Nat : DOMAIN part.all = 1..K
    /\ \A n \in DOMAIN part.all : part.all[n] \in SUBSET refs
    /\ \A m, n \in DOMAIN part.all : m # n => part.all[m] \cap part.all[n] = {}
    /\ \A r \in refs : \E n \in DOMAIN part.all : r \in part.all[n]

LEMMA PartitionDivides ==
    ASSUME NEW refs, NEW c, c \notin refs, NEW d, NEW h, BagTyped(d, h, refs \cup {c}),
           NEW cut, NEW minSize
    PROVE  Divides(Partition(d, refs, c, h, cut, minSize), refs)
<1> DEFINE bag == refs \cup {c}
           cl == Categories(d, bag, h, cut, minSize)
           K == Cardinality(DOMAIN cl)
           named == AssignCategoryIds(h, cl)
           part == PartitionBy(named, c)
<1>1. bag # {} /\ IsFiniteSet(bag)
  BY DEF BagTyped
<1>2. cl \in Clusterings(bag)
  <2> HIDE DEF bag
  <2>1. BagTyped(d, h, bag)
    BY DEF bag
  <2> QED
    BY <1>1, <2>1, CategoriesAreClusters
<1>3. Partition(d, refs, c, h, cut, minSize) = part
  BY DEF Partition
<1> HIDE DEF cl
<1>4. /\ DOMAIN named = 1..K
      /\ \A n \in 1..K : \E i \in DOMAIN cl : named[n] = cl[i]
      /\ \A i \in DOMAIN cl : \E n \in 1..K : named[n] = cl[i]
      /\ \A m, n \in 1..K : m # n => named[m] \cap named[n] = {}
  BY <1>2, NamesAreClusters
<1>5. /\ \A i \in DOMAIN cl : cl[i] \in SUBSET bag
      /\ \A x \in bag : \E i \in DOMAIN cl : x \in cl[i]
      /\ K \in Nat
  <2> HIDE DEF bag
  <2> QED
    BY <1>1, <1>2, ClusteringFacts, ManyClusters
<1> HIDE DEF named, K
<1>6. \A x \in bag : \E n \in 1..K : x \in named[n]
  BY <1>4, <1>5
<1>7. \A n \in 1..K : named[n] \in SUBSET bag
  BY <1>4, <1>5
<1> DEFINE own == CHOOSE n \in DOMAIN named : c \in named[n]
           all == [n \in DOMAIN named |-> named[n] \ {c}]
<1>8. part = [category |-> own, members |-> named[own] \ {c}, all |-> all]
  BY DEF PartitionBy
<1>9. own \in 1..K
  BY <1>4, <1>6
<1> HIDE DEF own
<1>10. DOMAIN all = 1..K /\ \A n \in 1..K : all[n] = named[n] \ {c}
  BY <1>4
<1> HIDE DEF all
<1>11. /\ \A n \in 1..K : all[n] \in SUBSET refs
       /\ \A m, n \in 1..K : m # n => all[m] \cap all[n] = {}
       /\ \A r \in refs : \E n \in 1..K : r \in all[n]
  BY <1>4, <1>6, <1>7, <1>10
<1>12. part.category = own /\ part.members = all[own] /\ part.all = all
  BY <1>8, <1>9, <1>10
<1> HIDE DEF part
<1>13. Divides(part, refs)
  BY <1>5, <1>9, <1>10, <1>11, <1>12 DEF Divides
<1> QED
  BY <1>3, <1>13

-----------------------------------------------------------------------------
(* The preflight scans.                                                     *)

\* FirstError finds no error when no condition of its table holds.
LEMMA FirstErrorNone ==
    ASSUME NEW table, DOMAIN table \in SUBSET Nat,
           \A i \in DOMAIN table : table[i][1] => table[i][2] # "none"
    PROVE  FirstError(table) = "none" <=> \A i \in DOMAIN table : ~table[i][1]
<1> DEFINE hits == {i \in DOMAIN table : table[i][1]}
<1>1. CASE hits = {}
  <2>1. FirstError(table) = "none"
    BY <1>1 DEF FirstError
  <2> QED
    BY <1>1, <2>1
<1>2. CASE hits # {}
  <2>1. PICK x \in hits : \A y \in hits : x <= y
    BY <1>2, LeastNatural
  <2>2. Min(hits) \in hits
    BY <2>1 DEF Min
  <2>3. FirstError(table) = table[Min(hits)][2]
    BY <1>2 DEF FirstError
  <2> HIDE DEF hits
  <2>4. FirstError(table) # "none"
    BY <2>2, <2>3 DEF hits
  <2>5. ~ \A i \in DOMAIN table : ~table[i][1]
    BY <2>2 DEF hits
  <2> QED
    BY <2>4, <2>5
<1> QED
  BY <1>1, <1>2

\* A set with at most one member.
LEMMA AtMostOneIs ==
    ASSUME NEW S, IsFiniteSet(S)
    PROVE  AtMostOne(S) <=> \A x, y \in S : x = y
<1>1. CASE S = {}
  <2>1. Cardinality(S) = 0
    BY <1>1, FS_EmptySet
  <2> QED
    BY <1>1, <2>1 DEF AtMostOne
<1>2. CASE S # {}
  <2>1. PICK x \in S : TRUE
    BY <1>2
  <2>2. ASSUME \A y, z \in S : y = z
        PROVE  AtMostOne(S)
    <3>1. S = {x}
      BY <2>1, <2>2
    <3>2. Cardinality(S) = 1
      BY <3>1, FS_Singleton
    <3> QED
      BY <3>2 DEF AtMostOne
  <2>3. ASSUME AtMostOne(S), NEW y \in S, NEW z \in S, y # z
        PROVE  FALSE
    <3>1. {y, z} \in SUBSET S
      OBVIOUS
    <3>2. Cardinality({y, z}) = 2
      <4>1. Cardinality({y}) = 1 /\ IsFiniteSet({y})
        BY FS_Singleton
      <4>2. Cardinality({y} \cup {z}) = Cardinality({y}) + 1
        BY <2>3, <4>1, FS_AddElement
      <4>3. {y} \cup {z} = {y, z}
        OBVIOUS
      <4> QED
        BY <4>1, <4>2, <4>3
    <3>3. Cardinality({y, z}) <= Cardinality(S) /\ Cardinality(S) \in Nat
      BY <3>1, FS_Subset, FS_CardinalityType
    <3> QED
      BY <2>3, <3>2, <3>3 DEF AtMostOne
  <2> QED
    BY <2>2, <2>3
<1> QED
  BY <1>1, <1>2

\* The states the PNG scan goes through.
PngScan(parts, f) ==
    /\ f[0] = PngStart
    /\ \A n \in 1..Len(parts) : f[n] = PngStep(f[n - 1], parts[n], n = Len(parts))

LEMMA PngScanExists ==
    ASSUME NEW parts, Len(parts) \in Nat
    PROVE  \E f : PngScan(parts, f) /\ PreflightPng(parts) = PngContainer(f[Len(parts)])
<1> DEFINE N == Len(parts)
           Value(g, n) == IF n = 0 THEN PngStart ELSE PngStep(g[n - 1], parts[n], n = N)
           Solves(g, m) == g = [n \in 0..m |-> Value(g, n)]
           Q == {m \in Nat : \E g : Solves(g, m)}
<1>1. 0 \in Q
  <2> DEFINE g == [n \in 0..0 |-> PngStart]
  <2>1. \A n \in 0..0 : Value(g, n) = PngStart
    OBVIOUS
  <2>2. Solves(g, 0)
    BY <2>1
  <2> QED
    BY <2>2
<1>2. ASSUME NEW m \in Nat, m \in Q
      PROVE  m + 1 \in Q
  <2>1. PICK g : Solves(g, m)
    BY <1>2
  <2> DEFINE f == [n \in 0..(m + 1) |-> IF n = m + 1 THEN PngStep(g[m], parts[n], n = N)
                                        ELSE g[n]]
  <2>2. ASSUME NEW n \in 0..(m + 1)
        PROVE  f[n] = Value(f, n)
    <3>1. CASE n = m + 1
      <4>1. n # 0 /\ n - 1 = m /\ m \in 0..(m + 1) /\ m # m + 1
        BY <3>1
      <4>2. f[n - 1] = g[m] /\ f[n] = PngStep(g[m], parts[n], n = N)
        BY <3>1, <4>1
      <4> HIDE DEF f
      <4> QED
        BY <4>1, <4>2
    <3>2. CASE n # m + 1
      <4>1. n \in 0..m
        BY <3>2
      <4>2. f[n] = g[n] /\ (n # 0 => f[n - 1] = g[n - 1])
        BY <3>2, <4>1
      <4>3. g[n] = Value(g, n)
        <5> HIDE DEF Value
        <5> QED
          BY <2>1, <4>1
      <4> HIDE DEF f
      <4> QED
        BY <4>1, <4>2, <4>3
    <3> QED
      BY <3>1, <3>2
  <2>3. Solves(f, m + 1)
    <3> HIDE DEF Value
    <3> QED
      BY <2>2
  <2>4. m + 1 \in Nat
    OBVIOUS
  <2> HIDE DEF f, Solves
  <2> QED
    BY <2>3, <2>4
<1>3. N \in Q
  <2> HIDE DEF Q
  <2> QED
    BY <1>1, <1>2, NatInduct
<1> DEFINE after == CHOOSE g : Solves(g, N)
<1>4. Solves(after, N)
  <2> HIDE DEF Solves
  <2> QED
    BY <1>3
<1>5. PreflightPng(parts) = PngContainer(after[N])
  BY DEF PreflightPng
<1> HIDE DEF after
<1>6. \A n \in 0..N : after[n] = Value(after, n)
  <2> HIDE DEF Value
  <2> QED
    BY <1>4
<1>7. PngScan(parts, after)
  <2>1. after[0] = PngStart
    BY <1>6
  <2>2. ASSUME NEW n \in 1..N
        PROVE  after[n] = PngStep(after[n - 1], parts[n], n = N)
    <3>1. n \in 0..N /\ n # 0
      OBVIOUS
    <3> QED
      BY <1>6, <3>1
  <2> QED
    BY <2>1, <2>2 DEF PngScan
<1> QED
  BY <1>5, <1>7

\* The chunks that stop the PNG scan, where their sizes are within the bounds.
LEMMA PngErrorIs ==
    ASSUME NEW s, NEW c, NEW final, PartSize(c) = "none",
           ~(c.kind = "eXIf" /\ c.value = "large")
    PROVE  PngError(s, c, final) = "none"
             <=> /\ ~(s.n + 1 > MaxParts) /\ c.whole
                 /\ c.kind \notin {"unknown critical", "animation", "text"}
                 /\ ~(c.kind = "IHDR" /\ (s.n > 0 \/ c.value = "method"))
                 /\ ~(c.kind = "iCCP" /\ c.value = "large")
                 /\ ~(c.kind = "eXIf" /\ s.exif)
                 /\ ~(c.kind = "IEND" /\ (c.value # "empty" \/ ~final))
<1> DEFINE p1 == s.n + 1 > MaxParts
           p2 == ~c.whole
           p3 == c.kind \in {"unknown critical", "animation", "text"}
           p4 == c.kind = "IHDR" /\ s.n > 0
           p5 == PartSize(c) # "none"
           p6 == c.kind = "IHDR" /\ c.value = "method"
           p7 == c.kind = "iCCP" /\ c.value = "large"
           p8 == c.kind = "eXIf" /\ s.exif
           p9 == c.kind = "eXIf" /\ c.value = "large"
           p10 == c.kind = "IEND" /\ (c.value # "empty" \/ ~final)
           e5 == PartSize(c)
           table == << <<p1, "decode_limit_exceeded">>,
                       <<p2, "decode_failed">>,
                       <<p3, "unsupported_format">>,
                       <<p4, "decode_failed">>,
                       <<p5, e5>>,
                       <<p6, "unsupported_format">>,
                       <<p7, "decode_limit_exceeded">>,
                       <<p8, "malformed_orientation">>,
                       <<p9, "decode_limit_exceeded">>,
                       <<p10, "decode_failed">> >>
<1>1. PngError(s, c, final) = FirstError(table)
  BY DEF PngError
<1>2. p1 \in BOOLEAN /\ p2 \in BOOLEAN /\ p3 \in BOOLEAN /\ p4 \in BOOLEAN /\ p5 \in BOOLEAN
      /\ p6 \in BOOLEAN /\ p7 \in BOOLEAN /\ p8 \in BOOLEAN /\ p9 \in BOOLEAN /\ p10 \in BOOLEAN
  OBVIOUS
<1>3. (p5 => e5 # "none")
  OBVIOUS
<1> HIDE DEF p1, p2, p3, p4, p5, p6, p7, p8, p9, p10, e5
<1>4. DOMAIN table = 1..10
  OBVIOUS
<1>5. /\ table[1][1] = p1 /\ table[1][2] = "decode_limit_exceeded"
      /\ table[2][1] = p2 /\ table[2][2] = "decode_failed"
      /\ table[3][1] = p3 /\ table[3][2] = "unsupported_format"
      /\ table[4][1] = p4 /\ table[4][2] = "decode_failed"
      /\ table[5][1] = p5 /\ table[5][2] = e5
      /\ table[6][1] = p6 /\ table[6][2] = "unsupported_format"
      /\ table[7][1] = p7 /\ table[7][2] = "decode_limit_exceeded"
      /\ table[8][1] = p8 /\ table[8][2] = "malformed_orientation"
      /\ table[9][1] = p9 /\ table[9][2] = "decode_limit_exceeded"
      /\ table[10][1] = p10 /\ table[10][2] = "decode_failed"
  OBVIOUS
<1> HIDE DEF table
<1>6. \A i \in 1..10 : i = 1 \/ i = 2 \/ i = 3 \/ i = 4 \/ i = 5 \/ i = 6 \/ i = 7
                        \/ i = 8 \/ i = 9 \/ i = 10
  OBVIOUS
<1>7. 1..10 \in SUBSET Nat /\ \A i \in 1..10 : table[i][1] => table[i][2] # "none"
  BY <1>3, <1>5, <1>6
<1>8. FirstError(table) = "none" <=> \A i \in 1..10 : ~table[i][1]
  BY <1>4, <1>7, FirstErrorNone
<1>9. 1 \in 1..10 /\ 2 \in 1..10 /\ 3 \in 1..10 /\ 4 \in 1..10 /\ 5 \in 1..10 /\ 6 \in 1..10
      /\ 7 \in 1..10 /\ 8 \in 1..10 /\ 9 \in 1..10 /\ 10 \in 1..10
  OBVIOUS
<1>10. (\A i \in 1..10 : ~table[i][1])
         <=> ~p1 /\ ~p2 /\ ~p3 /\ ~p4 /\ ~p5 /\ ~p6 /\ ~p7 /\ ~p8 /\ ~p9 /\ ~p10
  BY <1>5, <1>6, <1>9
<1> QED
  BY <1>1, <1>8, <1>10 DEF p1, p2, p3, p4, p5, p6, p7, p8, p9, p10

\* The markers that stop the JPEG scan.
LEMMA JpegErrorIs ==
    ASSUME NEW s, NEW c, PartSize(c) = "none", ~(c.kind = "Exif" /\ c.value = "large")
    PROVE  JpegError(s, c) = "none"
             <=> /\ ~(s.n + 1 > MaxParts) /\ (c.kind \in Bare \/ c.whole)
                 /\ c.kind # "MPF" /\ ~Overflows(s, c) /\ ~(c.kind = "Exif" /\ s.exif)
<1> DEFINE p1 == s.n + 1 > MaxParts
           p2 == c.kind \notin Bare /\ ~c.whole
           p3 == PartSize(c) # "none"
           p4 == c.kind = "MPF"
           p5 == Overflows(s, c)
           p6 == c.kind = "Exif" /\ s.exif
           p7 == c.kind = "Exif" /\ c.value = "large"
           e3 == PartSize(c)
           table == << <<p1, "decode_limit_exceeded">>,
                       <<p2, "decode_failed">>,
                       <<p3, e3>>,
                       <<p4, "unsupported_format">>,
                       <<p5, "decode_limit_exceeded">>,
                       <<p6, "malformed_orientation">>,
                       <<p7, "decode_limit_exceeded">> >>
<1>1. JpegError(s, c) = FirstError(table)
  BY DEF JpegError
<1>2. p1 \in BOOLEAN /\ p2 \in BOOLEAN /\ p3 \in BOOLEAN /\ p4 \in BOOLEAN /\ p5 \in BOOLEAN
      /\ p6 \in BOOLEAN /\ p7 \in BOOLEAN
  BY DEF Overflows
<1>3. (p3 => e3 # "none")
  OBVIOUS
<1> HIDE DEF p1, p2, p3, p4, p5, p6, p7, e3
<1>4. DOMAIN table = 1..7
  OBVIOUS
<1>5. /\ table[1][1] = p1 /\ table[1][2] = "decode_limit_exceeded"
      /\ table[2][1] = p2 /\ table[2][2] = "decode_failed"
      /\ table[3][1] = p3 /\ table[3][2] = e3
      /\ table[4][1] = p4 /\ table[4][2] = "unsupported_format"
      /\ table[5][1] = p5 /\ table[5][2] = "decode_limit_exceeded"
      /\ table[6][1] = p6 /\ table[6][2] = "malformed_orientation"
      /\ table[7][1] = p7 /\ table[7][2] = "decode_limit_exceeded"
  OBVIOUS
<1> HIDE DEF table
<1>6. \A i \in 1..7 : i = 1 \/ i = 2 \/ i = 3 \/ i = 4 \/ i = 5 \/ i = 6 \/ i = 7
  OBVIOUS
<1>7. 1..7 \in SUBSET Nat /\ \A i \in 1..7 : table[i][1] => table[i][2] # "none"
  BY <1>3, <1>5, <1>6
<1>8. FirstError(table) = "none" <=> \A i \in 1..7 : ~table[i][1]
  BY <1>4, <1>7, FirstErrorNone
<1>9. 1 \in 1..7 /\ 2 \in 1..7 /\ 3 \in 1..7 /\ 4 \in 1..7 /\ 5 \in 1..7 /\ 6 \in 1..7
      /\ 7 \in 1..7
  OBVIOUS
<1>10. (\A i \in 1..7 : ~table[i][1])
         <=> ~p1 /\ ~p2 /\ ~p3 /\ ~p4 /\ ~p5 /\ ~p6 /\ ~p7
  BY <1>5, <1>6, <1>9
<1> QED
  BY <1>1, <1>8, <1>10 DEF p1, p2, p3, p4, p5, p6, p7

\* The markers that stop the search for the end of the scan.
LEMMA ScanErrorIs ==
    ASSUME NEW n, NEW c
    PROVE  ScanError(n, c) = "none"
             <=> /\ ~(n > MaxParts) /\ (c.kind \in Bare \/ c.whole)
                 /\ c.kind \notin {"Exif", "ICC", "MPF", "APP"}
<1> DEFINE p1 == n > MaxParts
           p2 == c.kind \notin Bare /\ ~c.whole
           p3 == c.kind = "Exif"
           p4 == c.kind = "ICC"
           p5 == c.kind \in {"MPF", "APP"}
           table == << <<p1, "decode_limit_exceeded">>,
                       <<p2, "decode_failed">>,
                       <<p3, "malformed_orientation">>,
                       <<p4, "unsupported_color_contract">>,
                       <<p5, "unsupported_format">> >>
<1>1. ScanError(n, c) = FirstError(table)
  BY DEF ScanError
<1>2. p1 \in BOOLEAN /\ p2 \in BOOLEAN /\ p3 \in BOOLEAN /\ p4 \in BOOLEAN /\ p5 \in BOOLEAN
  OBVIOUS
<1> HIDE DEF p1, p2, p3, p4, p5
<1>4. DOMAIN table = 1..5
  OBVIOUS
<1>5. /\ table[1][1] = p1 /\ table[1][2] = "decode_limit_exceeded"
      /\ table[2][1] = p2 /\ table[2][2] = "decode_failed"
      /\ table[3][1] = p3 /\ table[3][2] = "malformed_orientation"
      /\ table[4][1] = p4 /\ table[4][2] = "unsupported_color_contract"
      /\ table[5][1] = p5 /\ table[5][2] = "unsupported_format"
  OBVIOUS
<1> HIDE DEF table
<1>6. \A i \in 1..5 : i = 1 \/ i = 2 \/ i = 3 \/ i = 4 \/ i = 5
  OBVIOUS
<1>7. 1..5 \in SUBSET Nat /\ \A i \in 1..5 : table[i][1] => table[i][2] # "none"
  BY <1>5, <1>6
<1>8. FirstError(table) = "none" <=> \A i \in 1..5 : ~table[i][1]
  BY <1>4, <1>7, FirstErrorNone
<1>9. 1 \in 1..5 /\ 2 \in 1..5 /\ 3 \in 1..5 /\ 4 \in 1..5 /\ 5 \in 1..5
  OBVIOUS
<1>10. (\A i \in 1..5 : ~table[i][1])
         <=> ~p1 /\ ~p2 /\ ~p3 /\ ~p4 /\ ~p5
  BY <1>5, <1>6, <1>9
<1> QED
  BY <1>1, <1>8, <1>10 DEF p1, p2, p3, p4, p5

\* The pictures whose colours can be converted.
LEMMA ColorErrorIs ==
    ASSUME NEW image
    PROVE  ColorError(image) = "none"
             <=> /\ image.mode \in {"L", "LA", "RGB", "RGBA"}
                 /\ image.profile = <<>>
                    \/ (image.mode \in {"RGB", "RGBA"} /\ image.profile = Pinned)
<1> DEFINE p1 == image.mode \notin {"L", "LA", "RGB", "RGBA"}
           p2 == image.profile # <<>>
                 /\ (image.mode \notin {"RGB", "RGBA"} \/ image.profile # Pinned)
           table == << <<p1, "unsupported_color_contract">>,
                       <<p2, "unsupported_color_contract">> >>
<1>1. ColorError(image) = FirstError(table)
  BY DEF ColorError
<1>2. p1 \in BOOLEAN /\ p2 \in BOOLEAN
  OBVIOUS
<1> HIDE DEF p1, p2
<1>4. DOMAIN table = 1..2
  OBVIOUS
<1>5. /\ table[1][1] = p1 /\ table[1][2] = "unsupported_color_contract"
      /\ table[2][1] = p2 /\ table[2][2] = "unsupported_color_contract"
  OBVIOUS
<1> HIDE DEF table
<1>6. \A i \in 1..2 : i = 1 \/ i = 2
  OBVIOUS
<1>7. 1..2 \in SUBSET Nat /\ \A i \in 1..2 : table[i][1] => table[i][2] # "none"
  BY <1>5, <1>6
<1>8. FirstError(table) = "none" <=> \A i \in 1..2 : ~table[i][1]
  BY <1>4, <1>7, FirstErrorNone
<1>9. 1 \in 1..2 /\ 2 \in 1..2
  OBVIOUS
<1>10. (\A i \in 1..2 : ~table[i][1])
         <=> ~p1 /\ ~p2
  BY <1>5, <1>6, <1>9
<1> QED
  BY <1>1, <1>8, <1>10 DEF p1, p2

\* The pictures that become rasters.
LEMMA DecodeErrorIs ==
    ASSUME NEW image, NEW container, image.warns \in BOOLEAN
    PROVE  DecodeError(image, container) = "none"
             <=> /\ image.readable /\ image.w = container.w /\ image.h = container.h
                 /\ image.frames = 1 /\ image.orientation \in 1..8 /\ image.opaque
                 /\ container.color /\ ColorError(image) = "none" /\ ~image.warns
<1> DEFINE p1 == ~image.readable
           p2 == image.w # container.w \/ image.h # container.h
           p3 == image.frames # 1
           p4 == image.orientation \notin 1..8
           p5 == ~image.opaque
           p6 == ~container.color
           p7 == ColorError(image) # "none"
           p8 == image.warns
           e7 == ColorError(image)
           table == << <<p1, "decode_failed">>,
                       <<p2, "decode_failed">>,
                       <<p3, "unsupported_frame_count">>,
                       <<p4, "malformed_orientation">>,
                       <<p5, "non_opaque">>,
                       <<p6, "unsupported_color_contract">>,
                       <<p7, e7>>,
                       <<p8, "unsafe_decoder_warning">> >>
<1>1. DecodeError(image, container) = FirstError(table)
  BY DEF DecodeError
<1>2. p1 \in BOOLEAN /\ p2 \in BOOLEAN /\ p3 \in BOOLEAN /\ p4 \in BOOLEAN /\ p5 \in BOOLEAN
      /\ p6 \in BOOLEAN /\ p7 \in BOOLEAN /\ p8 \in BOOLEAN
  OBVIOUS
<1>3. (p7 => e7 # "none")
  OBVIOUS
<1> HIDE DEF p1, p2, p3, p4, p5, p6, p7, p8, e7
<1>4. DOMAIN table = 1..8
  OBVIOUS
<1>5. /\ table[1][1] = p1 /\ table[1][2] = "decode_failed"
      /\ table[2][1] = p2 /\ table[2][2] = "decode_failed"
      /\ table[3][1] = p3 /\ table[3][2] = "unsupported_frame_count"
      /\ table[4][1] = p4 /\ table[4][2] = "malformed_orientation"
      /\ table[5][1] = p5 /\ table[5][2] = "non_opaque"
      /\ table[6][1] = p6 /\ table[6][2] = "unsupported_color_contract"
      /\ table[7][1] = p7 /\ table[7][2] = e7
      /\ table[8][1] = p8 /\ table[8][2] = "unsafe_decoder_warning"
  OBVIOUS
<1> HIDE DEF table
<1>6. \A i \in 1..8 : i = 1 \/ i = 2 \/ i = 3 \/ i = 4 \/ i = 5 \/ i = 6 \/ i = 7
                        \/ i = 8
  OBVIOUS
<1>7. 1..8 \in SUBSET Nat /\ \A i \in 1..8 : table[i][1] => table[i][2] # "none"
  BY <1>3, <1>5, <1>6
<1>8. FirstError(table) = "none" <=> \A i \in 1..8 : ~table[i][1]
  BY <1>4, <1>7, FirstErrorNone
<1>9. 1 \in 1..8 /\ 2 \in 1..8 /\ 3 \in 1..8 /\ 4 \in 1..8 /\ 5 \in 1..8 /\ 6 \in 1..8
      /\ 7 \in 1..8 /\ 8 \in 1..8
  OBVIOUS
<1>10. (\A i \in 1..8 : ~table[i][1])
         <=> ~p1 /\ ~p2 /\ ~p3 /\ ~p4 /\ ~p5 /\ ~p6 /\ ~p7 /\ ~p8
  BY <1>5, <1>6, <1>9
<1> QED
  BY <1>1, <1>8, <1>10 DEF p1, p2, p3, p4, p5, p6, p7, p8

\* A chunk that does not stop the scan, one that keeps the colour contract, and
\* what a gamma or chromaticities chunk tells.
PngSound(parts, i) ==
    /\ i <= MaxParts /\ parts[i].whole
    /\ parts[i].kind \notin {"unknown critical", "animation", "text"}
    /\ parts[i].kind = "IHDR" => i = 1 /\ parts[i].value # "method"
    /\ parts[i].kind = "iCCP" => parts[i].value # "large"
    /\ parts[i].kind = "eXIf" => \A j \in 1..(i - 1) : parts[j].kind # "eXIf"
    /\ parts[i].kind = "IEND" => parts[i].value = "empty" /\ i = Len(parts)

Tells(c, kind) == c.kind = kind /\ c.value # "short"

Srgb(c) == c.kind = "sRGB" /\ c.value = "srgb"

PngColored(parts, i) ==
    LET c == parts[i]
    IN /\ c.kind # "HDR"
       /\ c.kind = "IHDR" => c.value # "depth"
       /\ c.kind = "sRGB" => c.value = "srgb" /\ \A j \in 1..(i - 1) : ~Srgb(parts[j])
       /\ c.kind = "iCCP" => /\ c.value = "srgb"
                             /\ \A j \in 1..(i - 1) : parts[j].kind # "iCCP"
       /\ c.kind = "gAMA" => c.value # "short" /\ \A j \in 1..(i - 1) : ~Tells(parts[j], "gAMA")
       /\ c.kind = "cHRM" => c.value # "short" /\ \A j \in 1..(i - 1) : ~Tells(parts[j], "cHRM")

\* v is what the chunks of a kind told: nothing, or the value of one of them.
Told(v, kind, parts, n) ==
    IF \A i \in 1..n : ~Tells(parts[i], kind) THEN v = "none"
    ELSE \E i \in 1..n : Tells(parts[i], kind) /\ v = parts[i].value

PngFields == {"error", "n", "ended", "w", "h", "color", "srgb", "iccp", "gAMA", "cHRM", "exif"}

\* What the scan knows after n chunks, none of which stopped it.
PngSeen(parts, n, s, w) ==
    /\ s.n = n
    /\ s.ended <=> \E i \in 1..n : parts[i].kind = "IEND"
    /\ s.w = IF \E i \in 1..n : parts[i].kind = "IHDR" THEN w[1] ELSE 0
    /\ s.h = IF \E i \in 1..n : parts[i].kind = "IHDR" THEN w[2] ELSE 0
    /\ s.color <=> \A i \in 1..n : PngColored(parts, i)
    /\ s.srgb <=> \E i \in 1..n : Srgb(parts[i])
    /\ s.iccp <=> \E i \in 1..n : parts[i].kind = "iCCP"
    /\ Told(s.gAMA, "gAMA", parts, n)
    /\ Told(s.cHRM, "cHRM", parts, n)
    /\ s.exif <=> \E i \in 1..n : parts[i].kind = "eXIf"

PngState(s) ==
    /\ DOMAIN s = PngFields
    /\ s.ended \in BOOLEAN /\ s.color \in BOOLEAN /\ s.srgb \in BOOLEAN
    /\ s.iccp \in BOOLEAN /\ s.exif \in BOOLEAN

\* One step of the scan.
LEMMA PngStepIs ==
    ASSUME NEW s, PngState(s), NEW c, NEW final
    PROVE  LET next == PngStep(s, c, final)
           IN /\ PngState(next)
              /\ (s.error # "none" \/ s.ended) => next = s
              /\ (s.error = "none" /\ ~s.ended /\ PngError(s, c, final) # "none")
                    => next.error # "none"
              /\ (s.error = "none" /\ ~s.ended /\ PngError(s, c, final) = "none") =>
                    /\ next.error = "none" /\ next.n = s.n + 1
                    /\ next.ended = (c.kind = "IEND")
                    /\ next.w = (IF c.kind = "IHDR" THEN c.w ELSE s.w)
                    /\ next.h = (IF c.kind = "IHDR" THEN c.h ELSE s.h)
                    /\ next.color = (s.color /\ PngColor(s, c))
                    /\ next.srgb = (s.srgb \/ Srgb(c))
                    /\ next.iccp = (s.iccp \/ c.kind = "iCCP")
                    /\ next.gAMA = (IF Tells(c, "gAMA") THEN c.value ELSE s.gAMA)
                    /\ next.cHRM = (IF Tells(c, "cHRM") THEN c.value ELSE s.cHRM)
                    /\ next.exif = (s.exif \/ c.kind = "eXIf")
<1> DEFINE next == PngStep(s, c, final)
           error == PngError(s, c, final)
           color == PngColor(s, c)
<1>1. CASE s.error # "none" \/ s.ended
  BY <1>1 DEF PngStep
<1>2. CASE s.error = "none" /\ ~s.ended /\ error # "none"
  <2>1. next = [s EXCEPT !.error = error]
    BY <1>2 DEF PngStep
  <2> HIDE DEF next, error
  <2>2. "error" \in DOMAIN s
    BY DEF PngState, PngFields
  <2>3. /\ next.error = error /\ DOMAIN next = DOMAIN s
        /\ next.ended = s.ended /\ next.color = s.color /\ next.srgb = s.srgb
        /\ next.iccp = s.iccp /\ next.exif = s.exif
    BY <2>1, <2>2
  <2>4. PngState(next)
    BY <2>3 DEF PngState
  <2> QED
    BY <1>2, <2>3, <2>4 DEF next, error
<1>3. CASE s.error = "none" /\ ~s.ended /\ error = "none"
  <2> DEFINE declares == c.kind \in {"gAMA", "cHRM"} /\ c.value # "short"
  <2>1. next = [s EXCEPT !.n = @ + 1,
                         !.ended = c.kind = "IEND",
                         !.w = IF c.kind = "IHDR" THEN c.w ELSE @,
                         !.h = IF c.kind = "IHDR" THEN c.h ELSE @,
                         !.color = @ /\ color,
                         !.srgb = @ \/ (c.kind = "sRGB" /\ c.value = "srgb"),
                         !.iccp = @ \/ c.kind = "iCCP",
                         !.gAMA = IF c.kind = "gAMA" /\ declares THEN c.value ELSE @,
                         !.cHRM = IF c.kind = "cHRM" /\ declares THEN c.value ELSE @,
                         !.exif = @ \/ c.kind = "eXIf"]
    BY <1>3 DEF PngStep
  <2>2. DOMAIN s = {"error", "n", "ended", "w", "h", "color", "srgb", "iccp", "gAMA", "cHRM",
                    "exif"}
    BY DEF PngState, PngFields
  <2> HIDE DEF next, error, color
  <2>3. /\ DOMAIN next = DOMAIN s
        /\ next.error = s.error /\ next.n = s.n + 1
        /\ next.ended = (c.kind = "IEND")
        /\ next.w = (IF c.kind = "IHDR" THEN c.w ELSE s.w)
        /\ next.h = (IF c.kind = "IHDR" THEN c.h ELSE s.h)
    BY <2>1, <2>2
  <2>4. /\ next.color = (s.color /\ color)
        /\ next.srgb = (s.srgb \/ (c.kind = "sRGB" /\ c.value = "srgb"))
        /\ next.iccp = (s.iccp \/ c.kind = "iCCP")
        /\ next.exif = (s.exif \/ c.kind = "eXIf")
    BY <2>1, <2>2
  <2>5. /\ next.gAMA = (IF c.kind = "gAMA" /\ declares THEN c.value ELSE s.gAMA)
        /\ next.cHRM = (IF c.kind = "cHRM" /\ declares THEN c.value ELSE s.cHRM)
    BY <2>1, <2>2
  <2>6. /\ next.gAMA = (IF Tells(c, "gAMA") THEN c.value ELSE s.gAMA)
        /\ next.cHRM = (IF Tells(c, "cHRM") THEN c.value ELSE s.cHRM)
    BY <2>5 DEF Tells
  <2>7. /\ next.ended \in BOOLEAN /\ next.color \in BOOLEAN /\ next.srgb \in BOOLEAN
        /\ next.iccp \in BOOLEAN /\ next.exif \in BOOLEAN
    BY <2>3, <2>4
  <2>8. PngState(next)
    BY <2>3, <2>7 DEF PngState
  <2>9. next.srgb = (s.srgb \/ Srgb(c))
    BY <2>4 DEF Srgb
  <2> QED
    BY <1>3, <2>3, <2>4, <2>6, <2>8, <2>9 DEF next, error, color
<1> QED
  BY <1>1, <1>2, <1>3

\* A chunk as the scan meets it: within the bounds on sizes, a header says what
\* the picture's size is, and a declaration that is whole has a value.
PngChunk(c, size) ==
    /\ c.whole \in BOOLEAN /\ c.kind # "SOF"
    /\ c.kind = "IHDR" => /\ c.w = size[1] /\ c.h = size[2]
                          /\ DimensionError(c.w, c.h) = "none"
                          /\ c.value \in {"rgb8", "depth", "method"}
    /\ c.kind \in {"gAMA", "cHRM"} => c.value # "none"
    /\ c.kind = "eXIf" => c.value # "large"

PngChunks(parts, size) ==
    /\ Len(parts) \in Nat /\ DOMAIN parts = 1..Len(parts)
    /\ \A i \in 1..Len(parts) : PngChunk(parts[i], size)

\* What the chunks of a kind told, one chunk later.
LEMMA ToldNext ==
    ASSUME NEW parts, NEW n \in Nat, NEW kind, NEW v, Told(v, kind, parts, n)
    PROVE  Told(IF Tells(parts[n + 1], kind) THEN parts[n + 1].value ELSE v, kind, parts, n + 1)
<1>1. \A i \in 1..(n + 1) : i \in 1..n \/ i = n + 1
  OBVIOUS
<1>2. n + 1 \in 1..(n + 1) /\ \A i \in 1..n : i \in 1..(n + 1)
  OBVIOUS
<1>3. CASE Tells(parts[n + 1], kind)
  <2> DEFINE told == parts[n + 1].value
  <2>1. \E i \in 1..(n + 1) : Tells(parts[i], kind) /\ told = parts[i].value
    BY <1>2, <1>3
  <2> HIDE DEF told
  <2>2. Told(told, kind, parts, n + 1)
    BY <2>1 DEF Told
  <2> QED
    BY <1>3, <2>2 DEF told
<1>4. CASE ~Tells(parts[n + 1], kind)
  <2>1. CASE \A i \in 1..n : ~Tells(parts[i], kind)
    <3>1. v = "none"
      BY <2>1 DEF Told
    <3>2. \A i \in 1..(n + 1) : ~Tells(parts[i], kind)
      BY <1>1, <1>4, <2>1
    <3>3. Told(v, kind, parts, n + 1)
      BY <3>1, <3>2 DEF Told
    <3> QED
      BY <1>4, <3>3
  <2>2. CASE ~ \A i \in 1..n : ~Tells(parts[i], kind)
    <3>1. \E i \in 1..n : Tells(parts[i], kind) /\ v = parts[i].value
      BY <2>2 DEF Told
    <3>2. \E i \in 1..(n + 1) : Tells(parts[i], kind) /\ v = parts[i].value
      BY <1>2, <3>1
    <3>3. Told(v, kind, parts, n + 1)
      BY <3>2 DEF Told
    <3> QED
      BY <1>4, <3>3
  <2> QED
    BY <2>1, <2>2
<1> QED
  BY <1>3, <1>4

\* Nothing was told exactly when no chunk tells.
LEMMA ToldNothing ==
    ASSUME NEW parts, NEW n, NEW kind, NEW v, Told(v, kind, parts, n),
           \A i \in 1..n : parts[i].kind = kind => parts[i].value # "none"
    PROVE  v = "none" <=> \A i \in 1..n : ~Tells(parts[i], kind)
BY DEF Told, Tells

\* The colour contract, one chunk later.
LEMMA PngColorNext ==
    ASSUME NEW parts, NEW n \in Nat, NEW s, NEW size, PngSeen(parts, n, s, size), PngState(s),
           \A i \in 1..(n + 1) : PngChunk(parts[i], size)
    PROVE  PngColor(s, parts[n + 1]) <=> PngColored(parts, n + 1)
<1> DEFINE c == parts[n + 1]
<1>1. (n + 1) - 1 = n
  OBVIOUS
<1>2. \A i \in 1..n : i \in 1..(n + 1)
  OBVIOUS
<1>3. \A i \in 1..n : /\ parts[i].kind = "gAMA" => parts[i].value # "none"
                      /\ parts[i].kind = "cHRM" => parts[i].value # "none"
  BY <1>2 DEF PngChunk
<1>4. Told(s.gAMA, "gAMA", parts, n) /\ Told(s.cHRM, "cHRM", parts, n)
  BY DEF PngSeen
<1>5. s.gAMA = "none" <=> \A i \in 1..n : ~Tells(parts[i], "gAMA")
  BY <1>3, <1>4, ToldNothing
<1>6. s.cHRM = "none" <=> \A i \in 1..n : ~Tells(parts[i], "cHRM")
  BY <1>3, <1>4, ToldNothing
<1>7. /\ s.srgb <=> \E i \in 1..n : Srgb(parts[i])
      /\ s.iccp <=> \E i \in 1..n : parts[i].kind = "iCCP"
  BY DEF PngSeen
<1> DEFINE once(kind) == \A i \in 1..n : parts[i].kind # kind
           srgb == \A i \in 1..n : ~Srgb(parts[i])
           untold(kind) == \A i \in 1..n : ~Tells(parts[i], kind)
<1>8. PngColored(parts, n + 1) <=>
         /\ c.kind # "HDR"
         /\ c.kind = "IHDR" => c.value # "depth"
         /\ c.kind = "sRGB" => c.value = "srgb" /\ srgb
         /\ c.kind = "iCCP" => c.value = "srgb" /\ once("iCCP")
         /\ c.kind = "gAMA" => c.value # "short" /\ untold("gAMA")
         /\ c.kind = "cHRM" => c.value # "short" /\ untold("cHRM")
  BY <1>1 DEF PngColored
<1>9. /\ ~s.srgb <=> srgb
      /\ ~s.iccp <=> once("iCCP")
      /\ (s.gAMA = "none") <=> untold("gAMA")
      /\ (s.cHRM = "none") <=> untold("cHRM")
  BY <1>5, <1>6, <1>7
<1>10. s["gAMA"] = s.gAMA /\ s["cHRM"] = s.cHRM
  OBVIOUS
<1> HIDE DEF c, once, srgb, untold
<1>11. PngColor(s, c) <=>
         CASE c.kind = "HDR" -> FALSE
           [] c.kind = "IHDR" -> c.value # "depth"
           [] c.kind = "sRGB" -> ~s.srgb /\ c.value = "srgb"
           [] c.kind = "iCCP" -> ~s.iccp /\ c.value = "srgb"
           [] c.kind \in {"gAMA", "cHRM"} -> s[c.kind] = "none" /\ c.value # "short"
           [] OTHER -> TRUE
  BY DEF PngColor
<1>12. CASE c.kind = "gAMA"
  <2>1. PngColor(s, c) <=> s.gAMA = "none" /\ c.value # "short"
    BY <1>10, <1>11, <1>12
  <2> QED
    BY <1>8, <1>9, <1>12, <2>1 DEF c
<1>13. CASE c.kind = "cHRM"
  <2>1. PngColor(s, c) <=> s.cHRM = "none" /\ c.value # "short"
    BY <1>10, <1>11, <1>13
  <2> QED
    BY <1>8, <1>9, <1>13, <2>1 DEF c
<1>14. CASE c.kind = "sRGB"
  <2>1. PngColor(s, c) <=> ~s.srgb /\ c.value = "srgb"
    BY <1>11, <1>14
  <2> QED
    BY <1>8, <1>9, <1>14, <2>1 DEF c
<1>15. CASE c.kind = "iCCP"
  <2>1. PngColor(s, c) <=> ~s.iccp /\ c.value = "srgb"
    BY <1>11, <1>15
  <2> QED
    BY <1>8, <1>9, <1>15, <2>1 DEF c
<1>16. CASE c.kind \notin {"gAMA", "cHRM", "sRGB", "iCCP"}
  <2>1. PngColor(s, c) <=> c.kind # "HDR" /\ (c.kind = "IHDR" => c.value # "depth")
    BY <1>11, <1>16
  <2> QED
    BY <1>8, <1>16, <2>1 DEF c
<1> QED
  BY <1>12, <1>13, <1>14, <1>15, <1>16

\* A chunk within the bounds does not stop the scan exactly when it is sound.
LEMMA PngErrorNext ==
    ASSUME NEW parts, NEW n \in Nat, NEW s, NEW size, PngSeen(parts, n, s, size),
           PngChunk(parts[n + 1], size), Len(parts) \in Nat, MaxParts \in Nat
    PROVE  PngError(s, parts[n + 1], n + 1 = Len(parts)) = "none" <=> PngSound(parts, n + 1)
<1> DEFINE c == parts[n + 1]
           final == n + 1 = Len(parts)
           exif == \A j \in 1..n : parts[j].kind # "eXIf"
<1>1. PartSize(c) = "none" /\ ~(c.kind = "eXIf" /\ c.value = "large") /\ c.whole \in BOOLEAN
  BY DEF PngChunk, PartSize
<1>2. s.n = n /\ (~s.exif <=> exif)
  BY DEF PngSeen
<1>3. PngSound(parts, n + 1)
         <=> /\ n + 1 <= MaxParts /\ c.whole
             /\ c.kind \notin {"unknown critical", "animation", "text"}
             /\ c.kind = "IHDR" => n + 1 = 1 /\ c.value # "method"
             /\ c.kind = "iCCP" => c.value # "large"
             /\ c.kind = "eXIf" => exif
             /\ c.kind = "IEND" => c.value = "empty" /\ final
  <2>1. (n + 1) - 1 = n
    OBVIOUS
  <2> QED
    BY <2>1 DEF PngSound
<1> HIDE DEF c, exif, final
<1>4. PngError(s, c, final) = "none"
         <=> /\ ~(s.n + 1 > MaxParts) /\ c.whole
             /\ c.kind \notin {"unknown critical", "animation", "text"}
             /\ ~(c.kind = "IHDR" /\ (s.n > 0 \/ c.value = "method"))
             /\ ~(c.kind = "iCCP" /\ c.value = "large")
             /\ ~(c.kind = "eXIf" /\ s.exif)
             /\ ~(c.kind = "IEND" /\ (c.value # "empty" \/ ~final))
  BY <1>1, PngErrorIs
<1>5. (~(s.n + 1 > MaxParts) <=> n + 1 <= MaxParts) /\ (~(s.n > 0) <=> n + 1 = 1)
  BY <1>2
<1>6. PngError(s, c, final) = "none" <=> PngSound(parts, n + 1)
  BY <1>1, <1>2, <1>3, <1>4, <1>5
<1> QED
  BY <1>6 DEF c, final

\* What the scan knows, one chunk later.
LEMMA PngSeenNext ==
    ASSUME NEW parts, NEW n \in Nat, NEW s, NEW next, NEW size,
           PngSeen(parts, n, s, size), PngState(s), PngState(next),
           \A i \in 1..(n + 1) : PngChunk(parts[i], size),
           \A i \in 1..n : parts[i].kind # "IEND",
           next.n = s.n + 1,
           next.ended = (parts[n + 1].kind = "IEND"),
           next.w = (IF parts[n + 1].kind = "IHDR" THEN parts[n + 1].w ELSE s.w),
           next.h = (IF parts[n + 1].kind = "IHDR" THEN parts[n + 1].h ELSE s.h),
           next.color = (s.color /\ PngColor(s, parts[n + 1])),
           next.srgb = (s.srgb \/ Srgb(parts[n + 1])),
           next.iccp = (s.iccp \/ parts[n + 1].kind = "iCCP"),
           next.gAMA = (IF Tells(parts[n + 1], "gAMA") THEN parts[n + 1].value ELSE s.gAMA),
           next.cHRM = (IF Tells(parts[n + 1], "cHRM") THEN parts[n + 1].value ELSE s.cHRM),
           next.exif = (s.exif \/ parts[n + 1].kind = "eXIf")
    PROVE  PngSeen(parts, n + 1, next, size)
<1>1. \A i \in 1..(n + 1) : i \in 1..n \/ i = n + 1
  OBVIOUS
<1>2. n + 1 \in 1..(n + 1) /\ \A i \in 1..n : i \in 1..(n + 1)
  OBVIOUS
<1>3. next.n = n + 1
  BY DEF PngSeen
<1>4. next.ended <=> \E i \in 1..(n + 1) : parts[i].kind = "IEND"
  BY <1>1, <1>2 DEF PngState
<1>5. PngChunk(parts[n + 1], size)
  BY <1>2
<1>6. /\ next.w = IF \E i \in 1..(n + 1) : parts[i].kind = "IHDR" THEN size[1] ELSE 0
      /\ next.h = IF \E i \in 1..(n + 1) : parts[i].kind = "IHDR" THEN size[2] ELSE 0
  <2>1. /\ s.w = IF \E i \in 1..n : parts[i].kind = "IHDR" THEN size[1] ELSE 0
        /\ s.h = IF \E i \in 1..n : parts[i].kind = "IHDR" THEN size[2] ELSE 0
    BY DEF PngSeen
  <2>2. CASE parts[n + 1].kind = "IHDR"
    <3>1. next.w = size[1] /\ next.h = size[2]
      BY <1>5, <2>2 DEF PngChunk
    <3>2. \E i \in 1..(n + 1) : parts[i].kind = "IHDR"
      BY <1>2, <2>2
    <3> QED
      BY <3>1, <3>2
  <2>3. CASE parts[n + 1].kind # "IHDR"
    <3>1. (\E i \in 1..(n + 1) : parts[i].kind = "IHDR")
             <=> \E i \in 1..n : parts[i].kind = "IHDR"
      BY <1>1, <1>2, <2>3
    <3>2. next.w = s.w /\ next.h = s.h
      BY <2>3
    <3> QED
      BY <2>1, <3>1, <3>2
  <2> QED
    BY <2>2, <2>3
<1>7. next.color <=> \A i \in 1..(n + 1) : PngColored(parts, i)
  <2>1. PngColor(s, parts[n + 1]) <=> PngColored(parts, n + 1)
    BY PngColorNext
  <2>2. s.color <=> \A i \in 1..n : PngColored(parts, i)
    BY DEF PngSeen
  <2> QED
    BY <1>1, <1>2, <2>1, <2>2 DEF PngState
<1>8. next.srgb <=> \E i \in 1..(n + 1) : Srgb(parts[i])
  <2>1. s.srgb <=> \E i \in 1..n : Srgb(parts[i])
    BY DEF PngSeen
  <2> QED
    BY <1>1, <1>2, <2>1 DEF PngState
<1>9. next.iccp <=> \E i \in 1..(n + 1) : parts[i].kind = "iCCP"
  <2>1. s.iccp <=> \E i \in 1..n : parts[i].kind = "iCCP"
    BY DEF PngSeen
  <2> QED
    BY <1>1, <1>2, <2>1 DEF PngState
<1>10. next.exif <=> \E i \in 1..(n + 1) : parts[i].kind = "eXIf"
  <2>1. s.exif <=> \E i \in 1..n : parts[i].kind = "eXIf"
    BY DEF PngSeen
  <2> QED
    BY <1>1, <1>2, <2>1 DEF PngState
<1>11. Told(next.gAMA, "gAMA", parts, n + 1) /\ Told(next.cHRM, "cHRM", parts, n + 1)
  <2>1. Told(s.gAMA, "gAMA", parts, n) /\ Told(s.cHRM, "cHRM", parts, n)
    BY DEF PngSeen
  <2>2. Told(IF Tells(parts[n + 1], "gAMA") THEN parts[n + 1].value ELSE s.gAMA,
             "gAMA", parts, n + 1)
    BY <2>1, ToldNext
  <2>3. Told(IF Tells(parts[n + 1], "cHRM") THEN parts[n + 1].value ELSE s.cHRM,
             "cHRM", parts, n + 1)
    BY <2>1, ToldNext
  <2> QED
    BY <2>2, <2>3
<1> QED
  BY <1>3, <1>4, <1>6, <1>7, <1>8, <1>9, <1>10, <1>11 DEF PngSeen

\* The scan after n chunks: stopped by one that is not sound, or knowing what
\* they said.
PngAfter(parts, size, n, s) ==
    /\ PngState(s)
    /\ s.error = "none" <=> \A i \in 1..n : PngSound(parts, i)
    /\ s.error = "none" => PngSeen(parts, n, s, size)

LEMMA PngAfterStart ==
    ASSUME NEW parts, NEW size
    PROVE  PngAfter(parts, size, 0, PngStart)
<1>1. \A i \in 1..0 : FALSE
  OBVIOUS
<1>2. /\ PngStart.error = "none" /\ PngStart.n = 0 /\ PngStart.ended = FALSE
      /\ PngStart.w = 0 /\ PngStart.h = 0 /\ PngStart.color = TRUE /\ PngStart.srgb = FALSE
      /\ PngStart.iccp = FALSE /\ PngStart.gAMA = "none" /\ PngStart.cHRM = "none"
      /\ PngStart.exif = FALSE
      /\ DOMAIN PngStart = PngFields
  BY DEF PngStart, PngFields
<1>3. PngState(PngStart)
  BY <1>2 DEF PngState
<1> HIDE DEF PngStart
<1>4. Told("none", "gAMA", parts, 0) /\ Told("none", "cHRM", parts, 0)
  BY <1>1 DEF Told
<1>5. PngSeen(parts, 0, PngStart, size)
  BY <1>1, <1>2, <1>4 DEF PngSeen
<1> QED
  BY <1>1, <1>2, <1>3, <1>5 DEF PngAfter

LEMMA PngAfterNext ==
    ASSUME NEW parts, NEW size, PngChunks(parts, size), MaxParts \in Nat,
           NEW n \in 0..(Len(parts) - 1), NEW s, PngAfter(parts, size, n, s)
    PROVE  PngAfter(parts, size, n + 1, PngStep(s, parts[n + 1], n + 1 = Len(parts)))
<1> DEFINE c == parts[n + 1]
           final == n + 1 = Len(parts)
           next == PngStep(s, c, final)
<1>1. n \in Nat /\ Len(parts) \in Nat /\ n + 1 \in 1..Len(parts)
      /\ \A i \in 1..(n + 1) : i \in 1..Len(parts)
  BY DEF PngChunks
<1>2. /\ n + 1 \in 1..(n + 1)
      /\ \A i \in 1..(n + 1) : i \in 1..n \/ i = n + 1
      /\ \A i \in 1..n : i \in 1..(n + 1) /\ i # Len(parts)
  BY <1>1
<1>3. \A i \in 1..(n + 1) : PngChunk(parts[i], size)
  BY <1>1 DEF PngChunks
<1>4. /\ PngState(next)
      /\ (s.error # "none" \/ s.ended) => next = s
      /\ (s.error = "none" /\ ~s.ended /\ PngError(s, c, final) # "none")
            => next.error # "none"
      /\ (s.error = "none" /\ ~s.ended /\ PngError(s, c, final) = "none") =>
            /\ next.error = "none" /\ next.n = s.n + 1
            /\ next.ended = (c.kind = "IEND")
            /\ next.w = (IF c.kind = "IHDR" THEN c.w ELSE s.w)
            /\ next.h = (IF c.kind = "IHDR" THEN c.h ELSE s.h)
            /\ next.color = (s.color /\ PngColor(s, c))
            /\ next.srgb = (s.srgb \/ Srgb(c))
            /\ next.iccp = (s.iccp \/ c.kind = "iCCP")
            /\ next.gAMA = (IF Tells(c, "gAMA") THEN c.value ELSE s.gAMA)
            /\ next.cHRM = (IF Tells(c, "cHRM") THEN c.value ELSE s.cHRM)
            /\ next.exif = (s.exif \/ c.kind = "eXIf")
  <2>1. PngState(s)
    BY DEF PngAfter
  <2> HIDE DEF c, final
  <2> QED
    BY <2>1, PngStepIs
<1>5. CASE s.error # "none"
  <2>1. next.error # "none"
    BY <1>4, <1>5
  <2>2. ~ \A i \in 1..(n + 1) : PngSound(parts, i)
    BY <1>2, <1>5 DEF PngAfter
  <2> HIDE DEF next
  <2>3. PngAfter(parts, size, n + 1, next)
    BY <1>4, <2>1, <2>2 DEF PngAfter
  <2> QED
    BY <2>3 DEF next, c, final
<1>6. CASE s.error = "none"
  <2>1. PngSeen(parts, n, s, size) /\ \A i \in 1..n : PngSound(parts, i)
    BY <1>6 DEF PngAfter
  <2>2. \A i \in 1..n : parts[i].kind # "IEND"
    BY <1>2, <2>1 DEF PngSound
  <2>3. ~s.ended
    BY <2>1, <2>2 DEF PngSeen
  <2>4. PngError(s, c, final) = "none" <=> PngSound(parts, n + 1)
    BY <1>1, <1>2, <1>3, <2>1, PngErrorNext
  <2> HIDE DEF next
  <2>5. CASE PngSound(parts, n + 1)
    <3> DEFINE moved ==
            /\ next.n = s.n + 1
            /\ next.ended = (c.kind = "IEND")
            /\ next.w = (IF c.kind = "IHDR" THEN c.w ELSE s.w)
            /\ next.h = (IF c.kind = "IHDR" THEN c.h ELSE s.h)
            /\ next.color = (s.color /\ PngColor(s, c))
            /\ next.srgb = (s.srgb \/ Srgb(c))
            /\ next.iccp = (s.iccp \/ c.kind = "iCCP")
            /\ next.gAMA = (IF Tells(c, "gAMA") THEN c.value ELSE s.gAMA)
            /\ next.cHRM = (IF Tells(c, "cHRM") THEN c.value ELSE s.cHRM)
            /\ next.exif = (s.exif \/ c.kind = "eXIf")
    <3>1. next.error = "none" /\ moved
      BY <1>4, <1>6, <2>3, <2>4, <2>5
    <3>2. PngSeen(parts, n + 1, next, size)
      <4>1. PngState(s) /\ PngState(next)
        BY <1>4 DEF PngAfter
      <4> QED
        BY <1>1, <1>3, <2>1, <2>2, <3>1, <4>1, PngSeenNext
    <3>3. \A i \in 1..(n + 1) : PngSound(parts, i)
      BY <1>2, <2>1, <2>5
    <3>4. PngAfter(parts, size, n + 1, next)
      BY <1>4, <3>1, <3>2, <3>3 DEF PngAfter
    <3> QED
      BY <3>4 DEF next, c, final
  <2>6. CASE ~PngSound(parts, n + 1)
    <3>1. next.error # "none"
      BY <1>4, <1>6, <2>3, <2>4, <2>6
    <3>2. ~ \A i \in 1..(n + 1) : PngSound(parts, i)
      BY <1>2, <2>6
    <3>3. PngAfter(parts, size, n + 1, next)
      BY <1>4, <3>1, <3>2 DEF PngAfter
    <3> QED
      BY <3>3 DEF next, c, final
  <2> QED
    BY <2>5, <2>6
<1> QED
  BY <1>5, <1>6

\* The scan after all the chunks.
LEMMA PngAfterAll ==
    ASSUME NEW parts, NEW size, PngChunks(parts, size), MaxParts \in Nat,
           NEW f, PngScan(parts, f)
    PROVE  PngAfter(parts, size, Len(parts), f[Len(parts)])
<1> DEFINE N == Len(parts)
           P(n) == n <= N => PngAfter(parts, size, n, f[n])
           Q == {n \in Nat : P(n)}
<1>1. N \in Nat
  BY DEF PngChunks
<1>2. P(0)
  <2>1. f[0] = PngStart
    BY DEF PngScan
  <2> QED
    BY <2>1, PngAfterStart
<1>3. ASSUME NEW n \in Nat, P(n)
      PROVE  P(n + 1)
  <2>1. SUFFICES ASSUME n + 1 <= N
                 PROVE  PngAfter(parts, size, n + 1, f[n + 1])
    OBVIOUS
  <2>2. n \in 0..(N - 1) /\ n + 1 \in 1..N /\ n <= N /\ (n + 1) - 1 = n
    BY <1>1, <2>1
  <2>3. f[n + 1] = PngStep(f[n], parts[n + 1], n + 1 = N)
    BY <2>2 DEF PngScan
  <2>4. PngAfter(parts, size, n, f[n])
    BY <1>3, <2>2
  <2> QED
    BY <2>2, <2>3, <2>4, PngAfterNext
<1> HIDE DEF P
<1>4. 0 \in Q /\ \A n \in Nat : n \in Q => n + 1 \in Q
  BY <1>2, <1>3
<1>5. N \in Q
  <2> HIDE DEF Q
  <2> QED
    BY <1>1, <1>4, NatInduct
<1> QED
  BY <1>5 DEF P

\* The parts of a kind are at most one.
Once(parts, kind) ==
    \A i, j \in 1..Len(parts) : parts[i].kind = kind /\ parts[j].kind = kind => i = j

Some(parts, kind) == \E i \in 1..Len(parts) : parts[i].kind = kind

LEMMA OfIsFinite ==
    ASSUME NEW parts, NEW kinds, Len(parts) \in Nat, DOMAIN parts = 1..Len(parts)
    PROVE  IsFiniteSet(Of(parts, kinds))
<1>1. IsFiniteSet(1..Len(parts)) /\ Of(parts, kinds) \in SUBSET (1..Len(parts))
  BY FS_Interval, 0 \in Int, 1 \in Int DEF Of
<1> QED
  BY <1>1, FS_Subset

LEMMA OnceIs ==
    ASSUME NEW parts, NEW kind, Len(parts) \in Nat, DOMAIN parts = 1..Len(parts)
    PROVE  AtMostOne(Of(parts, {kind})) <=> Once(parts, kind)
<1>1. IsFiniteSet(Of(parts, {kind}))
  BY OfIsFinite
<1>2. AtMostOne(Of(parts, {kind})) <=> \A x, y \in Of(parts, {kind}) : x = y
  BY <1>1, AtMostOneIs
<1>3. \A i : i \in Of(parts, {kind}) <=> i \in 1..Len(parts) /\ parts[i].kind = kind
  BY DEF Of
<1> QED
  BY <1>2, <1>3 DEF Once

LEMMA OfOne ==
    ASSUME NEW parts, NEW kind, NEW n, Len(parts) \in Nat, DOMAIN parts = 1..Len(parts)
    PROVE  Of(parts, {kind}) = {n}
             <=> n \in 1..Len(parts) /\ \A i \in 1..Len(parts) : parts[i].kind = kind <=> i = n
<1>1. \A i : i \in Of(parts, {kind}) <=> i \in 1..Len(parts) /\ parts[i].kind = kind
  BY DEF Of
<1>2. Of(parts, {kind}) = {n} <=> \A i : i \in Of(parts, {kind}) <=> i = n
  OBVIOUS
<1> QED
  BY <1>1, <1>2

\* The PNG profile, one chunk at a time.
LEMMA DeclaredPngIs ==
    ASSUME NEW parts, Len(parts) \in Nat, DOMAIN parts = 1..Len(parts)
    PROVE  DeclaredPng(parts) <=>
              /\ Len(parts) <= MaxParts
              /\ \A i \in 1..Len(parts) : parts[i].whole
              /\ \A i \in 1..Len(parts) : parts[i].kind = "IHDR" <=> i = 1
              /\ 1 \in 1..Len(parts) /\ parts[1].value = "rgb8"
              /\ \A i \in 1..Len(parts) : parts[i].kind = "IEND" <=> i = Len(parts)
              /\ parts[Len(parts)].value = "empty"
              /\ \A i \in 1..Len(parts) :
                    parts[i].kind \notin {"text", "animation", "unknown critical", "HDR"}
              /\ Once(parts, "sRGB") /\ Once(parts, "iCCP") /\ Once(parts, "gAMA")
              /\ Once(parts, "cHRM") /\ Once(parts, "eXIf")
              /\ \A i \in 1..Len(parts) :
                    parts[i].kind \in {"sRGB", "iCCP", "gAMA", "cHRM"} => parts[i].value = "srgb"
              /\ (Some(parts, "gAMA") \/ Some(parts, "cHRM")) => Some(parts, "sRGB")
              /\ ~(Some(parts, "sRGB") /\ Some(parts, "iCCP"))
<1> DEFINE N == Len(parts)
<1>1. N \in Nat
  OBVIOUS
<1>2. \A kinds : \A i : i \in Of(parts, kinds) <=> i \in 1..N /\ parts[i].kind \in kinds
  BY DEF Of
<1>3. /\ AtMostOne(Of(parts, {"sRGB"})) <=> Once(parts, "sRGB")
      /\ AtMostOne(Of(parts, {"iCCP"})) <=> Once(parts, "iCCP")
      /\ AtMostOne(Of(parts, {"gAMA"})) <=> Once(parts, "gAMA")
      /\ AtMostOne(Of(parts, {"cHRM"})) <=> Once(parts, "cHRM")
      /\ AtMostOne(Of(parts, {"eXIf"})) <=> Once(parts, "eXIf")
  BY OnceIs
<1> DEFINE sRGB == Once(parts, "sRGB")
           iCCP == Once(parts, "iCCP")
           gAMA == Once(parts, "gAMA")
           cHRM == Once(parts, "cHRM")
           eXIf == Once(parts, "eXIf")
<1>4. (\A k \in {"sRGB", "iCCP", "gAMA", "cHRM", "eXIf"} : AtMostOne(Of(parts, {k})))
         <=> sRGB /\ iCCP /\ gAMA /\ cHRM /\ eXIf
  <2> HIDE DEF sRGB, iCCP, gAMA, cHRM, eXIf
  <2> QED
    BY <1>3 DEF sRGB, iCCP, gAMA, cHRM, eXIf
<1>5. Of(parts, {"IHDR"}) = {1} <=> 1 \in 1..N /\ \A i \in 1..N : parts[i].kind = "IHDR" <=> i = 1
  <2> DEFINE first == 1
  <2> HIDE DEF first
  <2>1. Of(parts, {"IHDR"}) = {first}
          <=> first \in 1..N /\ \A i \in 1..N : parts[i].kind = "IHDR" <=> i = first
    BY OfOne
  <2> QED
    BY <2>1 DEF first
<1>6. Of(parts, {"IEND"}) = {N}
         <=> 1 \in 1..N /\ \A i \in 1..N : parts[i].kind = "IEND" <=> i = N
  <2>1. Of(parts, {"IEND"}) = {N}
          <=> N \in 1..N /\ \A i \in 1..N : parts[i].kind = "IEND" <=> i = N
    BY ZenonT(40), OfOne
  <2>2. N \in 1..N <=> 1 \in 1..N
    BY <1>1
  <2> QED
    BY <2>1, <2>2
<1>7. Of(parts, {"text", "animation", "unknown critical", "HDR"}) = {}
         <=> \A i \in 1..N : parts[i].kind \notin {"text", "animation", "unknown critical", "HDR"}
  BY <1>2
<1>8. (\A i \in Of(parts, {"sRGB", "iCCP", "gAMA", "cHRM"}) : parts[i].value = "srgb")
         <=> \A i \in 1..N :
                parts[i].kind \in {"sRGB", "iCCP", "gAMA", "cHRM"} => parts[i].value = "srgb"
  BY <1>2
<1>9. (Of(parts, {"gAMA", "cHRM"}) # {} => Of(parts, {"sRGB"}) # {})
         <=> ((Some(parts, "gAMA") \/ Some(parts, "cHRM")) => Some(parts, "sRGB"))
  <2>1. Of(parts, {"gAMA", "cHRM"}) # {} <=> Some(parts, "gAMA") \/ Some(parts, "cHRM")
    <3>1. \A i : i \in Of(parts, {"gAMA", "cHRM"})
                   <=> i \in 1..N /\ (parts[i].kind = "gAMA" \/ parts[i].kind = "cHRM")
      BY <1>2
    <3> QED
      BY <3>1 DEF Some
  <2>2. Of(parts, {"sRGB"}) # {} <=> Some(parts, "sRGB")
    <3>1. \A i : i \in Of(parts, {"sRGB"}) <=> i \in 1..N /\ parts[i].kind = "sRGB"
      BY <1>2
    <3> QED
      BY <3>1 DEF Some
  <2> QED
    BY <2>1, <2>2
<1>10. sRGB /\ iCCP => (AtMostOne(Of(parts, {"sRGB", "iCCP"}))
                          <=> ~(Some(parts, "sRGB") /\ Some(parts, "iCCP")))
  <2>1. IsFiniteSet(Of(parts, {"sRGB", "iCCP"}))
    BY OfIsFinite
  <2>2. AtMostOne(Of(parts, {"sRGB", "iCCP"}))
          <=> \A x, y \in Of(parts, {"sRGB", "iCCP"}) : x = y
    BY <2>1, AtMostOneIs
  <2>3. \A i : i \in Of(parts, {"sRGB", "iCCP"})
                 <=> i \in 1..N /\ (parts[i].kind = "sRGB" \/ parts[i].kind = "iCCP")
    BY <1>2
  <2> QED
    BY <2>2, <2>3 DEF Some, Once
<1> DEFINE large == N <= MaxParts
           whole == \A i \in 1..N : parts[i].whole
           header == Of(parts, {"IHDR"}) = {1}
           end == Of(parts, {"IEND"}) = {N}
           known == Of(parts, {"text", "animation", "unknown critical", "HDR"}) = {}
           once == \A k \in {"sRGB", "iCCP", "gAMA", "cHRM", "eXIf"} : AtMostOne(Of(parts, {k}))
           valued == \A i \in Of(parts, {"sRGB", "iCCP", "gAMA", "cHRM"}) :
                        parts[i].value = "srgb"
           named == Of(parts, {"gAMA", "cHRM"}) # {} => Of(parts, {"sRGB"}) # {}
           one == AtMostOne(Of(parts, {"sRGB", "iCCP"}))
<1>11. DeclaredPng(parts) <=>
         /\ large /\ whole
         /\ header /\ parts[1].value = "rgb8"
         /\ end /\ parts[N].value = "empty"
         /\ known /\ once /\ valued /\ named /\ one
  BY DEF DeclaredPng
<1> HIDE DEF large, whole, header, end, known, once, valued, named, one, sRGB, iCCP, gAMA, cHRM,
             eXIf
<1>12. DeclaredPng(parts) <=>
         /\ large /\ whole
         /\ \A i \in 1..N : parts[i].kind = "IHDR" <=> i = 1
         /\ 1 \in 1..N /\ parts[1].value = "rgb8"
         /\ \A i \in 1..N : parts[i].kind = "IEND" <=> i = N
         /\ parts[N].value = "empty"
         /\ \A i \in 1..N : parts[i].kind \notin {"text", "animation", "unknown critical", "HDR"}
         /\ sRGB /\ iCCP /\ gAMA /\ cHRM /\ eXIf
         /\ \A i \in 1..N :
               parts[i].kind \in {"sRGB", "iCCP", "gAMA", "cHRM"} => parts[i].value = "srgb"
         /\ (Some(parts, "gAMA") \/ Some(parts, "cHRM")) => Some(parts, "sRGB")
         /\ ~(Some(parts, "sRGB") /\ Some(parts, "iCCP"))
  <2>1. header <=> 1 \in 1..N /\ \A i \in 1..N : parts[i].kind = "IHDR" <=> i = 1
    BY <1>5 DEF header
  <2>2. end <=> 1 \in 1..N /\ \A i \in 1..N : parts[i].kind = "IEND" <=> i = N
    BY <1>6 DEF end
  <2>3. known
          <=> \A i \in 1..N : parts[i].kind \notin {"text", "animation", "unknown critical", "HDR"}
    BY <1>7 DEF known
  <2>4. valued
          <=> \A i \in 1..N :
                 parts[i].kind \in {"sRGB", "iCCP", "gAMA", "cHRM"} => parts[i].value = "srgb"
    BY <1>8 DEF valued
  <2>5. named <=> ((Some(parts, "gAMA") \/ Some(parts, "cHRM")) => Some(parts, "sRGB"))
    BY <1>9 DEF named
  <2>6. once <=> sRGB /\ iCCP /\ gAMA /\ cHRM /\ eXIf
    BY <1>4 DEF once
  <2>7. sRGB /\ iCCP => (one <=> ~(Some(parts, "sRGB") /\ Some(parts, "iCCP")))
    BY <1>10 DEF one
  <2> QED
    BY <1>11, <2>1, <2>2, <2>3, <2>4, <2>5, <2>6, <2>7
<1> QED
  BY <1>12 DEF large, whole, sRGB, iCCP, gAMA, cHRM, eXIf

\* Two chunks of a kind that a later one refuses are one.
LEMMA LaterRefuses ==
    ASSUME NEW parts, NEW kind, Len(parts) \in Nat,
           \A i \in 1..Len(parts) : parts[i].kind = kind =>
              \A j \in 1..(i - 1) : parts[j].kind # kind
    PROVE  Once(parts, kind)
<1>1. \A i, j \in 1..Len(parts) : i = j \/ i \in 1..(j - 1) \/ j \in 1..(i - 1)
  OBVIOUS
<1> QED
  BY <1>1 DEF Once

LEMMA OnceRefuses ==
    ASSUME NEW parts, NEW kind, Len(parts) \in Nat, Once(parts, kind),
           NEW i \in 1..Len(parts), parts[i].kind = kind
    PROVE  \A j \in 1..(i - 1) : parts[j].kind # kind
<1>1. \A j \in 1..(i - 1) : j \in 1..Len(parts) /\ j # i
  OBVIOUS
<1> QED
  BY <1>1 DEF Once

\* The colour contract of a whole list.
LEMMA PngColoredAll ==
    ASSUME NEW parts, Len(parts) \in Nat
    PROVE  (\A i \in 1..Len(parts) : PngColored(parts, i))
             <=> /\ \A i \in 1..Len(parts) :
                       /\ parts[i].kind # "HDR"
                       /\ parts[i].kind = "IHDR" => parts[i].value # "depth"
                       /\ parts[i].kind \in {"sRGB", "iCCP"} => parts[i].value = "srgb"
                       /\ parts[i].kind \in {"gAMA", "cHRM"} => parts[i].value # "short"
                 /\ Once(parts, "sRGB") /\ Once(parts, "iCCP")
                 /\ Once(parts, "gAMA") /\ Once(parts, "cHRM")
<1> DEFINE N == Len(parts)
           valued == \A i \in 1..N :
                       /\ parts[i].kind # "HDR"
                       /\ parts[i].kind = "IHDR" => parts[i].value # "depth"
                       /\ parts[i].kind \in {"sRGB", "iCCP"} => parts[i].value = "srgb"
                       /\ parts[i].kind \in {"gAMA", "cHRM"} => parts[i].value # "short"
<1>1. \A i \in 1..N : \A j \in 1..(i - 1) : j \in 1..N
  OBVIOUS
<1>2. ASSUME \A i \in 1..N : PngColored(parts, i)
      PROVE  /\ valued
             /\ Once(parts, "sRGB") /\ Once(parts, "iCCP")
             /\ Once(parts, "gAMA") /\ Once(parts, "cHRM")
  <2>1. valued
    BY <1>2 DEF PngColored
  <2>2. \A i \in 1..N : parts[i].kind = "sRGB" => \A j \in 1..(i - 1) : parts[j].kind # "sRGB"
    BY <1>1, <1>2, <2>1 DEF PngColored, Srgb
  <2>3. \A i \in 1..N : parts[i].kind = "iCCP" => \A j \in 1..(i - 1) : parts[j].kind # "iCCP"
    BY <1>2 DEF PngColored
  <2>4. \A i \in 1..N : parts[i].kind = "gAMA" => \A j \in 1..(i - 1) : parts[j].kind # "gAMA"
    BY <1>1, <1>2, <2>1 DEF PngColored, Tells
  <2>5. \A i \in 1..N : parts[i].kind = "cHRM" => \A j \in 1..(i - 1) : parts[j].kind # "cHRM"
    BY <1>1, <1>2, <2>1 DEF PngColored, Tells
  <2>6. Once(parts, "sRGB") /\ Once(parts, "iCCP")
    BY <2>2, <2>3, LaterRefuses
  <2>7. Once(parts, "gAMA") /\ Once(parts, "cHRM")
    BY <2>4, <2>5, LaterRefuses
  <2> QED
    BY <2>1, <2>6, <2>7
<1>3. ASSUME valued, Once(parts, "sRGB"), Once(parts, "iCCP"),
             Once(parts, "gAMA"), Once(parts, "cHRM"),
             NEW i \in 1..N
      PROVE  PngColored(parts, i)
  <2>1. parts[i].kind = "sRGB" => \A j \in 1..(i - 1) : parts[j].kind # "sRGB"
    BY <1>3, OnceRefuses
  <2>2. parts[i].kind = "iCCP" => \A j \in 1..(i - 1) : parts[j].kind # "iCCP"
    BY <1>3, OnceRefuses
  <2>3. parts[i].kind = "gAMA" => \A j \in 1..(i - 1) : parts[j].kind # "gAMA"
    BY <1>3, OnceRefuses
  <2>4. parts[i].kind = "cHRM" => \A j \in 1..(i - 1) : parts[j].kind # "cHRM"
    BY <1>3, OnceRefuses
  <2>5. /\ parts[i].kind # "HDR"
        /\ parts[i].kind = "IHDR" => parts[i].value # "depth"
        /\ parts[i].kind \in {"sRGB", "iCCP"} => parts[i].value = "srgb"
        /\ parts[i].kind \in {"gAMA", "cHRM"} => parts[i].value # "short"
    BY <1>3
  <2> QED
    BY <2>1, <2>2, <2>3, <2>4, <2>5 DEF PngColored, Srgb, Tells
<1> QED
  BY <1>2, <1>3

\* The chunks that let the scan pass.
LEMMA PngSoundAll ==
    ASSUME NEW parts, Len(parts) \in Nat, MaxParts \in Nat,
           \A i \in 1..Len(parts) : parts[i].whole \in BOOLEAN
    PROVE  (\A i \in 1..Len(parts) : PngSound(parts, i))
             <=> /\ Len(parts) <= MaxParts
                 /\ \A i \in 1..Len(parts) :
                       /\ parts[i].whole
                       /\ parts[i].kind \notin {"unknown critical", "animation", "text"}
                       /\ parts[i].kind = "IHDR" => i = 1 /\ parts[i].value # "method"
                       /\ parts[i].kind = "iCCP" => parts[i].value # "large"
                       /\ parts[i].kind = "IEND" => parts[i].value = "empty" /\ i = Len(parts)
                 /\ Once(parts, "eXIf")
<1> DEFINE N == Len(parts)
           passing(i) ==
              /\ parts[i].whole
              /\ parts[i].kind \notin {"unknown critical", "animation", "text"}
              /\ parts[i].kind = "IHDR" => i = 1 /\ parts[i].value # "method"
              /\ parts[i].kind = "iCCP" => parts[i].value # "large"
              /\ parts[i].kind = "IEND" => parts[i].value = "empty" /\ i = N
<1>1. ASSUME \A i \in 1..N : PngSound(parts, i)
      PROVE  N <= MaxParts /\ (\A i \in 1..N : passing(i)) /\ Once(parts, "eXIf")
  <2>1. \A i \in 1..N : passing(i)
    BY <1>1 DEF PngSound
  <2>2. N <= MaxParts
    <3>1. CASE N = 0
      BY <3>1
    <3>2. CASE N # 0
      <4>1. N \in 1..N
        BY <3>2
      <4> QED
        BY <1>1, <4>1 DEF PngSound
    <3> QED
      BY <3>1, <3>2
  <2>3. \A i \in 1..N : parts[i].kind = "eXIf" => \A j \in 1..(i - 1) : parts[j].kind # "eXIf"
    BY <1>1 DEF PngSound
  <2>4. Once(parts, "eXIf")
    BY <2>3, LaterRefuses
  <2> QED
    BY <2>1, <2>2, <2>4
<1>2. ASSUME N <= MaxParts, \A i \in 1..N : passing(i), Once(parts, "eXIf"), NEW i \in 1..N
      PROVE  PngSound(parts, i)
  <2>1. parts[i].kind = "eXIf" => \A j \in 1..(i - 1) : parts[j].kind # "eXIf"
    BY <1>2, OnceRefuses
  <2>2. i <= MaxParts
    <3> HIDE DEF passing
    <3>1. i <= N /\ i \in Nat /\ N \in Nat
      OBVIOUS
    <3> HIDE DEF N
    <3> QED
      BY <1>2, <3>1
  <2>3. passing(i)
    BY <1>2
  <2> QED
    BY <2>1, <2>2, <2>3 DEF PngSound
<1> QED
  BY <1>1, <1>2

\* What a kind of chunk told, when there is at most one and it is whole.
LEMMA ToldIs ==
    ASSUME NEW parts, NEW kind, NEW v, Told(v, kind, parts, Len(parts)), Once(parts, kind),
           \A i \in 1..Len(parts) : parts[i].kind = kind =>
              parts[i].value # "short" /\ parts[i].value # "none"
    PROVE  /\ v = "none" <=> ~Some(parts, kind)
           /\ v = "srgb" <=> /\ Some(parts, kind)
                             /\ \A i \in 1..Len(parts) :
                                   parts[i].kind = kind => parts[i].value = "srgb"
<1>1. \A i \in 1..Len(parts) : Tells(parts[i], kind) <=> parts[i].kind = kind
  BY DEF Tells
<1>2. CASE ~Some(parts, kind)
  <2>1. v = "none"
    BY <1>1, <1>2 DEF Told, Some
  <2> QED
    BY <1>2, <2>1
<1>3. CASE Some(parts, kind)
  <2>1. PICK i \in 1..Len(parts) : parts[i].kind = kind /\ v = parts[i].value
    BY <1>1, <1>3 DEF Told, Some
  <2>2. \A j \in 1..Len(parts) : parts[j].kind = kind => j = i
    BY <2>1 DEF Once
  <2> QED
    BY <1>3, <2>1, <2>2
<1> QED
  BY <1>2, <1>3

\* The declarations agree with one another.
LEMMA PngDeclaresIs ==
    ASSUME NEW parts, NEW size, NEW s, PngChunks(parts, size),
           PngSeen(parts, Len(parts), s, size), PngState(s)
    PROVE  PngDeclares(s)
             <=> /\ \A i \in 1..Len(parts) : PngColored(parts, i)
                 /\ ~(Some(parts, "sRGB") /\ Some(parts, "iCCP"))
                 /\ \A i \in 1..Len(parts) :
                       parts[i].kind \in {"gAMA", "cHRM"} => parts[i].value = "srgb"
                 /\ (Some(parts, "gAMA") \/ Some(parts, "cHRM")) => Some(parts, "sRGB")
<1> DEFINE N == Len(parts)
           colored == \A i \in 1..N : PngColored(parts, i)
           srgb == \A i \in 1..N : parts[i].kind \in {"gAMA", "cHRM"} => parts[i].value = "srgb"
<1>1. s["gAMA"] = s.gAMA /\ s["cHRM"] = s.cHRM
  OBVIOUS
<1>2. PngDeclares(s)
         <=> /\ s.color /\ ~(s.srgb /\ s.iccp)
             /\ s.gAMA = "none" \/ (s.srgb /\ s.gAMA = "srgb")
             /\ s.cHRM = "none" \/ (s.srgb /\ s.cHRM = "srgb")
  BY <1>1 DEF PngDeclares
<1>3. s.color <=> colored
  BY DEF PngSeen
<1>4. CASE ~colored
  BY <1>2, <1>3, <1>4
<1>5. CASE colored
  <2>1. N \in Nat
    BY DEF PngChunks
  <2> DEFINE whole == \A i \in 1..N :
                       /\ parts[i].kind # "HDR"
                       /\ parts[i].kind = "IHDR" => parts[i].value # "depth"
                       /\ parts[i].kind \in {"sRGB", "iCCP"} => parts[i].value = "srgb"
                       /\ parts[i].kind \in {"gAMA", "cHRM"} => parts[i].value # "short"
  <2>2. /\ whole
        /\ Once(parts, "gAMA") /\ Once(parts, "cHRM")
    BY <1>5, <2>1, PngColoredAll
  <2>3. s.srgb <=> Some(parts, "sRGB")
    <3>1. s.srgb <=> \E i \in 1..N : Srgb(parts[i])
      BY DEF PngSeen
    <3>2. \A i \in 1..N : Srgb(parts[i]) <=> parts[i].kind = "sRGB"
      BY <2>2 DEF Srgb
    <3> HIDE DEF whole
    <3> QED
      BY <3>1, <3>2 DEF Some
  <2>4. s.iccp <=> Some(parts, "iCCP")
    BY DEF PngSeen, Some
  <2>5. \A i \in 1..N : parts[i].kind \in {"gAMA", "cHRM"} => parts[i].value # "none"
    BY DEF PngChunks, PngChunk
  <2> DEFINE told(kind) == \A i \in 1..N : parts[i].kind = kind => parts[i].value = "srgb"
  <2>6. (s.gAMA = "none" <=> ~Some(parts, "gAMA"))
        /\ (s.gAMA = "srgb" <=> Some(parts, "gAMA") /\ told("gAMA"))
    <3>1. Told(s.gAMA, "gAMA", parts, N)
      BY DEF PngSeen
    <3>2. \A i \in 1..N : parts[i].kind = "gAMA" =>
             parts[i].value # "short" /\ parts[i].value # "none"
      <4>1. \A i \in 1..N : parts[i].kind \in {"gAMA", "cHRM"} => parts[i].value # "short"
        BY <2>2
      <4> HIDE DEF whole
      <4> QED
        BY <2>5, <4>1
    <3> QED
      BY <2>2, <3>1, <3>2, ToldIs
  <2>7. (s.cHRM = "none" <=> ~Some(parts, "cHRM"))
        /\ (s.cHRM = "srgb" <=> Some(parts, "cHRM") /\ told("cHRM"))
    <3>1. Told(s.cHRM, "cHRM", parts, N)
      BY DEF PngSeen
    <3>2. \A i \in 1..N : parts[i].kind = "cHRM" =>
             parts[i].value # "short" /\ parts[i].value # "none"
      <4>1. \A i \in 1..N : parts[i].kind \in {"gAMA", "cHRM"} => parts[i].value # "short"
        BY <2>2
      <4> HIDE DEF whole
      <4> QED
        BY <2>5, <4>1
    <3> QED
      BY <2>2, <3>1, <3>2, ToldIs
  <2>8. srgb <=> told("gAMA") /\ told("cHRM")
    OBVIOUS
  <2>9. /\ ~Some(parts, "gAMA") => told("gAMA")
        /\ ~Some(parts, "cHRM") => told("cHRM")
    BY DEF Some
  <2> HIDE DEF told, colored, whole, srgb
  <2>10. PngDeclares(s)
           <=> /\ colored /\ ~(Some(parts, "sRGB") /\ Some(parts, "iCCP"))
               /\ srgb
               /\ (Some(parts, "gAMA") \/ Some(parts, "cHRM")) => Some(parts, "sRGB")
    BY <1>2, <1>3, <1>5, <2>3, <2>4, <2>6, <2>7, <2>8, <2>9
  <2> QED
    BY <2>10 DEF colored, srgb
<1> QED
  BY <1>4, <1>5

\* A scan that passes, and whose declarations agree, is that of a declared list.
LEMMA PngAccepted ==
    ASSUME NEW parts, NEW size, NEW s, PngChunks(parts, size), MaxParts \in Nat,
           size[1] # 0, PngAfter(parts, size, Len(parts), s)
    PROVE  /\ (s.error = "none" /\ s.w # 0 /\ s.ended /\ PngDeclares(s)) <=> DeclaredPng(parts)
           /\ s.error = "none" /\ s.w # 0 => s.w = size[1] /\ s.h = size[2]
<1> DEFINE N == Len(parts)
<1>1. N \in Nat /\ DOMAIN parts = 1..N
  BY DEF PngChunks
<1>2. \A i \in 1..N : /\ parts[i].whole \in BOOLEAN
                      /\ parts[i].kind = "IHDR" => parts[i].value \in {"rgb8", "depth", "method"}
  BY DEF PngChunks, PngChunk
<1>3. PngState(s) /\ (s.error = "none" <=> \A i \in 1..N : PngSound(parts, i))
      /\ (s.error = "none" => PngSeen(parts, N, s, size))
  BY DEF PngAfter
<1> DEFINE passing(i) ==
              /\ parts[i].whole
              /\ parts[i].kind \notin {"unknown critical", "animation", "text"}
              /\ parts[i].kind = "IHDR" => i = 1 /\ parts[i].value # "method"
              /\ parts[i].kind = "iCCP" => parts[i].value # "large"
              /\ parts[i].kind = "IEND" => parts[i].value = "empty" /\ i = Len(parts)
           valued(i) ==
              /\ parts[i].kind # "HDR"
              /\ parts[i].kind = "IHDR" => parts[i].value # "depth"
              /\ parts[i].kind \in {"sRGB", "iCCP"} => parts[i].value = "srgb"
              /\ parts[i].kind \in {"gAMA", "cHRM"} => parts[i].value # "short"
           once == /\ Once(parts, "sRGB") /\ Once(parts, "iCCP")
                   /\ Once(parts, "gAMA") /\ Once(parts, "cHRM")
           srgb == \A i \in 1..N : parts[i].kind \in {"gAMA", "cHRM"} => parts[i].value = "srgb"
           named == (Some(parts, "gAMA") \/ Some(parts, "cHRM")) => Some(parts, "sRGB")
           single == ~(Some(parts, "sRGB") /\ Some(parts, "iCCP"))
           fits == N <= MaxParts
           exif == Once(parts, "eXIf")
<1>4. (\A i \in 1..N : PngSound(parts, i))
         <=> fits /\ (\A i \in 1..N : passing(i)) /\ exif
  BY <1>1, <1>2, PngSoundAll
<1>5. (\A i \in 1..N : PngColored(parts, i)) <=> (\A i \in 1..N : valued(i)) /\ once
  BY <1>1, PngColoredAll
<1>6. s.error = "none" =>
        /\ PngDeclares(s)
             <=> (\A i \in 1..N : valued(i)) /\ once /\ single /\ srgb /\ named
        /\ s.ended <=> Some(parts, "IEND")
        /\ s.w # 0 <=> Some(parts, "IHDR")
        /\ s.w # 0 => s.w = size[1] /\ s.h = size[2]
  <2>1. SUFFICES ASSUME s.error = "none"
                 PROVE  /\ PngDeclares(s)
                             <=> (\A i \in 1..N : valued(i)) /\ once /\ single /\ srgb /\ named
                        /\ s.ended <=> Some(parts, "IEND")
                        /\ s.w # 0 <=> Some(parts, "IHDR")
                        /\ s.w # 0 => s.w = size[1] /\ s.h = size[2]
    OBVIOUS
  <2>2. PngSeen(parts, N, s, size)
    BY <1>3, <2>1
  <2>3. PngDeclares(s) <=> (\A i \in 1..N : PngColored(parts, i)) /\ single /\ srgb /\ named
    BY <1>3, <2>2, PngDeclaresIs
  <2>4. /\ s.ended <=> Some(parts, "IEND")
        /\ s.w = IF Some(parts, "IHDR") THEN size[1] ELSE 0
        /\ s.h = IF Some(parts, "IHDR") THEN size[2] ELSE 0
    BY <2>2 DEF PngSeen, Some
  <2> HIDE DEF single, srgb, named, once, valued
  <2> QED
    BY <1>5, <2>3, <2>4
<1>7. DeclaredPng(parts) <=>
         /\ fits
         /\ \A i \in 1..N : parts[i].whole
         /\ \A i \in 1..N : parts[i].kind = "IHDR" <=> i = 1
         /\ 1 \in 1..N /\ parts[1].value = "rgb8"
         /\ \A i \in 1..N : parts[i].kind = "IEND" <=> i = N
         /\ parts[N].value = "empty"
         /\ \A i \in 1..N : parts[i].kind \notin {"text", "animation", "unknown critical", "HDR"}
         /\ once /\ exif
         /\ \A i \in 1..N :
               parts[i].kind \in {"sRGB", "iCCP", "gAMA", "cHRM"} => parts[i].value = "srgb"
         /\ named /\ single
  BY <1>1, DeclaredPngIs
<1> HIDE DEF fits, once, exif, named, single
<1>8. ASSUME s.error = "none", s.w # 0, s.ended, PngDeclares(s)
      PROVE  DeclaredPng(parts)
  <2>1. /\ fits /\ (\A i \in 1..N : passing(i)) /\ exif
        /\ (\A i \in 1..N : valued(i)) /\ once /\ single /\ srgb /\ named
        /\ Some(parts, "IEND") /\ Some(parts, "IHDR")
    <3> HIDE DEF passing, valued, srgb
    <3> QED
      BY <1>3, <1>4, <1>6, <1>8
  <2>2. PICK i \in 1..N : parts[i].kind = "IHDR"
    BY <2>1 DEF Some
  <2>3. i = 1 /\ 1 \in 1..N
    BY <2>1, <2>2
  <2>4. parts[1].kind = "IHDR" /\ parts[1].value = "rgb8"
    BY <1>2, <2>1, <2>2, <2>3
  <2>5. \A j \in 1..N : parts[j].kind = "IHDR" <=> j = 1
    BY <2>1, <2>4
  <2>6. PICK k \in 1..N : parts[k].kind = "IEND"
    BY <2>1 DEF Some
  <2>7. k = N /\ parts[N].kind = "IEND" /\ parts[N].value = "empty"
    BY <2>1, <2>6
  <2>8. \A j \in 1..N : parts[j].kind = "IEND" <=> j = N
    BY <2>1, <2>7
  <2>9. \A j \in 1..N : /\ parts[j].whole
                        /\ parts[j].kind \notin {"text", "animation", "unknown critical", "HDR"}
                        /\ parts[j].kind \in {"sRGB", "iCCP", "gAMA", "cHRM"} =>
                              parts[j].value = "srgb"
    BY <2>1
  <2> QED
    BY <1>7, <2>1, <2>3, <2>4, <2>5, <2>7, <2>8, <2>9
<1>9. ASSUME DeclaredPng(parts)
      PROVE  s.error = "none" /\ s.w # 0 /\ s.ended /\ PngDeclares(s)
  <2>1. /\ fits
        /\ \A i \in 1..N : parts[i].whole
        /\ \A i \in 1..N : parts[i].kind = "IHDR" <=> i = 1
        /\ 1 \in 1..N /\ parts[1].value = "rgb8"
        /\ \A i \in 1..N : parts[i].kind = "IEND" <=> i = N
        /\ parts[N].value = "empty"
        /\ \A i \in 1..N : parts[i].kind \notin {"text", "animation", "unknown critical", "HDR"}
        /\ once /\ exif
        /\ \A i \in 1..N :
              parts[i].kind \in {"sRGB", "iCCP", "gAMA", "cHRM"} => parts[i].value = "srgb"
        /\ named /\ single
    BY <1>7, <1>9
  <2>2. \A i \in 1..N : passing(i)
    BY <2>1
  <2>3. \A i \in 1..N : valued(i)
    BY <2>1
  <2>4. srgb
    BY <2>1
  <2>5. Some(parts, "IHDR")
    BY <2>1 DEF Some
  <2>6. N \in 1..N
    <3>1. 1 \in 1..N
      BY <2>1
    <3> HIDE DEF N
    <3> QED
      BY <1>1, <3>1
  <2>7. Some(parts, "IEND")
    BY <2>1, <2>6 DEF Some
  <2> HIDE DEF passing, valued, srgb
  <2>8. s.error = "none"
    BY <1>3, <1>4, <2>1, <2>2
  <2> QED
    BY <1>6, <2>1, <2>3, <2>4, <2>5, <2>7, <2>8
<1>10. s.error = "none" /\ s.w # 0 => s.w = size[1] /\ s.h = size[2]
  BY <1>6
<1> QED
  BY <1>8, <1>9, <1>10

\* _preflight_png passes, with the colour contract, exactly the declared lists.
LEMMA PreflightPngIs ==
    ASSUME NEW parts, NEW size, PngChunks(parts, size), MaxParts \in Nat, size[1] # 0
    PROVE  /\ (~IsFailed(PreflightPng(parts)) /\ PreflightPng(parts).color)
                 <=> DeclaredPng(parts)
           /\ ~IsFailed(PreflightPng(parts)) =>
                 PreflightPng(parts).w = size[1] /\ PreflightPng(parts).h = size[2]
<1>1. Len(parts) \in Nat
  BY DEF PngChunks
<1>2. PICK f : PngScan(parts, f) /\ PreflightPng(parts) = PngContainer(f[Len(parts)])
  BY <1>1, PngScanExists
<1> DEFINE s == f[Len(parts)]
           container == PngContainer(s)
<1>3. PngAfter(parts, size, Len(parts), s)
  BY <1>2, PngAfterAll
<1> HIDE DEF s
<1>4. /\ (s.error = "none" /\ s.w # 0 /\ s.ended /\ PngDeclares(s)) <=> DeclaredPng(parts)
      /\ s.error = "none" /\ s.w # 0 => s.w = size[1] /\ s.h = size[2]
  BY <1>3, PngAccepted
<1>5. CASE s.error # "none"
  <2>1. IsFailed(container)
    BY <1>5 DEF PngContainer, IsFailed, Failed
  <2> HIDE DEF container
  <2> QED
    BY <1>2, <1>4, <1>5, <2>1 DEF s, container
<1>6. CASE s.error = "none" /\ (s.w = 0 \/ ~s.ended)
  <2>1. IsFailed(container)
    BY <1>6 DEF PngContainer, IsFailed, Failed
  <2> HIDE DEF container
  <2> QED
    BY <1>2, <1>4, <1>6, <2>1 DEF s, container
<1>7. CASE s.error = "none" /\ s.w # 0 /\ s.ended
  <2>1. container = [format |-> "PNG", w |-> s.w, h |-> s.h, color |-> PngDeclares(s)]
    BY <1>7 DEF PngContainer
  <2>2. ~IsFailed(container) /\ container.color = PngDeclares(s)
        /\ container.w = s.w /\ container.h = s.h
    BY <2>1 DEF IsFailed
  <2> HIDE DEF container
  <2> QED
    BY <1>2, <1>4, <1>7, <2>2 DEF s, container
<1> QED
  BY <1>5, <1>6, <1>7

-----------------------------------------------------------------------------
(* The JPEG scan.                                                           *)

JpegFields == {"error", "n", "scan", "w", "h", "deep", "color", "total", "parts", "exif"}

JpegState(s) ==
    /\ DOMAIN s = JpegFields
    /\ s.deep \in BOOLEAN /\ s.color \in BOOLEAN /\ s.exif \in BOOLEAN

\* One step of the scan.
LEMMA JpegStepIs ==
    ASSUME NEW s, JpegState(s), NEW c, NEW i
    PROVE  LET next == JpegStep(s, c, i)
               keeps == c.kind = "ICC" /\ ProfileFits(s, c)
           IN /\ JpegState(next)
              /\ (s.error # "none" \/ s.scan # 0) => next = s
              /\ (s.error = "none" /\ s.scan = 0 /\ JpegError(s, c) # "none")
                    => next.error # "none"
              /\ (s.error = "none" /\ s.scan = 0 /\ JpegError(s, c) = "none") =>
                    /\ next.error = "none" /\ next.n = s.n + 1
                    /\ next.scan = (IF c.kind = "SOS" THEN i ELSE 0)
                    /\ next.w = (IF c.kind = "SOF" THEN c.w ELSE s.w)
                    /\ next.h = (IF c.kind = "SOF" THEN c.h ELSE s.h)
                    /\ next.deep = (IF c.kind = "SOF" THEN c.value = "deep" ELSE s.deep)
                    /\ next.color = (s.color /\ (c.kind = "ICC" => keeps))
                    /\ next.total = (IF keeps THEN c.total ELSE s.total)
                    /\ next.parts = (IF keeps THEN Keep(s.parts, c) ELSE s.parts)
                    /\ next.exif = (s.exif \/ c.kind = "Exif")
<1> DEFINE next == JpegStep(s, c, i)
           error == JpegError(s, c)
           fits == ProfileFits(s, c)
           keeps == c.kind = "ICC" /\ fits
           kept == Keep(s.parts, c)
<1>0. fits \in BOOLEAN
  BY DEF ProfileFits
<1>1. CASE s.error # "none" \/ s.scan # 0
  BY <1>1 DEF JpegStep
<1>2. CASE s.error = "none" /\ s.scan = 0 /\ error # "none"
  <2>1. next = [s EXCEPT !.error = error]
    BY <1>2 DEF JpegStep
  <2> HIDE DEF next, error
  <2>2. "error" \in DOMAIN s
    BY DEF JpegState, JpegFields
  <2>3. /\ next.error = error /\ DOMAIN next = DOMAIN s
        /\ next.deep = s.deep /\ next.color = s.color /\ next.exif = s.exif
    BY <2>1, <2>2
  <2>4. JpegState(next)
    BY <2>3 DEF JpegState
  <2> QED
    BY <1>2, <2>3, <2>4 DEF next, error
<1>3. CASE s.error = "none" /\ s.scan = 0 /\ error = "none"
  <2>1. next = [s EXCEPT !.n = @ + 1,
                         !.scan = IF c.kind = "SOS" THEN i ELSE 0,
                         !.w = IF c.kind = "SOF" THEN c.w ELSE @,
                         !.h = IF c.kind = "SOF" THEN c.h ELSE @,
                         !.deep = IF c.kind = "SOF" THEN c.value = "deep" ELSE @,
                         !.color = @ /\ (c.kind = "ICC" => keeps),
                         !.total = IF keeps THEN c.total ELSE @,
                         !.parts = IF keeps THEN Keep(@, c) ELSE @,
                         !.exif = @ \/ c.kind = "Exif"]
    BY <1>3 DEF JpegStep
  <2>2. DOMAIN s = {"error", "n", "scan", "w", "h", "deep", "color", "total", "parts", "exif"}
    BY DEF JpegState, JpegFields
  <2>3. next = [s EXCEPT !.n = @ + 1,
                         !.scan = IF c.kind = "SOS" THEN i ELSE 0,
                         !.w = IF c.kind = "SOF" THEN c.w ELSE @,
                         !.h = IF c.kind = "SOF" THEN c.h ELSE @,
                         !.deep = IF c.kind = "SOF" THEN c.value = "deep" ELSE @,
                         !.color = @ /\ (c.kind = "ICC" => keeps),
                         !.total = IF keeps THEN c.total ELSE @,
                         !.parts = IF keeps THEN kept ELSE @,
                         !.exif = @ \/ c.kind = "Exif"]
    BY <2>1
  <2> HIDE DEF next, error, fits, kept
  <2>4. /\ DOMAIN next = DOMAIN s
        /\ next.error = s.error /\ next.n = s.n + 1
        /\ next.scan = (IF c.kind = "SOS" THEN i ELSE 0)
        /\ next.w = (IF c.kind = "SOF" THEN c.w ELSE s.w)
        /\ next.h = (IF c.kind = "SOF" THEN c.h ELSE s.h)
    BY <2>2, <2>3
  <2>5. /\ next.deep = (IF c.kind = "SOF" THEN c.value = "deep" ELSE s.deep)
        /\ next.color = (s.color /\ (c.kind = "ICC" => keeps))
        /\ next.exif = (s.exif \/ c.kind = "Exif")
    BY <1>0, <2>2, <2>3
  <2>6. /\ next.total = (IF keeps THEN c.total ELSE s.total)
        /\ next.parts = (IF keeps THEN kept ELSE s.parts)
    BY <1>0, <2>2, <2>3
  <2>7. next.deep \in BOOLEAN /\ next.color \in BOOLEAN /\ next.exif \in BOOLEAN
    BY <1>0, <2>5 DEF JpegState
  <2>8. JpegState(next)
    BY <2>4, <2>7 DEF JpegState
  <2> QED
    BY <1>3, <2>4, <2>5, <2>6, <2>8 DEF next, error, fits, kept
<1> QED
  BY <1>1, <1>2, <1>3

\* One step of the search for the end of the scan.
LEMMA ScanStepIs ==
    ASSUME NEW s, DOMAIN s = {"error", "n", "eoi"}, NEW c, NEW i
    PROVE  LET next == ScanStep(s, c, i)
           IN /\ DOMAIN next = {"error", "n", "eoi"}
              /\ (s.error # "none" \/ s.eoi # 0 \/ c.kind = "stuffed") => next = s
              /\ (s.error = "none" /\ s.eoi = 0 /\ c.kind # "stuffed"
                    /\ ScanError(s.n + 1, c) # "none")
                    => next.error # "none"
              /\ (s.error = "none" /\ s.eoi = 0 /\ c.kind # "stuffed"
                    /\ ScanError(s.n + 1, c) = "none") =>
                    /\ next.error = "none" /\ next.n = s.n + 1
                    /\ next.eoi = (IF c.kind = "EOI" THEN i ELSE 0)
<1> DEFINE next == ScanStep(s, c, i)
           error == ScanError(s.n + 1, c)
<1>1. CASE s.error # "none" \/ s.eoi # 0 \/ c.kind = "stuffed"
  BY <1>1 DEF ScanStep
<1>2. CASE s.error = "none" /\ s.eoi = 0 /\ c.kind # "stuffed" /\ error # "none"
  <2>1. next = [s EXCEPT !.error = error]
    BY <1>2 DEF ScanStep
  <2> HIDE DEF next, error
  <2>2. next.error = error /\ DOMAIN next = DOMAIN s
    BY <2>1
  <2> QED
    BY <1>2, <2>2 DEF next, error
<1>3. CASE s.error = "none" /\ s.eoi = 0 /\ c.kind # "stuffed" /\ error = "none"
  <2>1. next = [s EXCEPT !.n = @ + 1, !.eoi = IF c.kind = "EOI" THEN i ELSE 0]
    BY <1>3 DEF ScanStep
  <2> HIDE DEF next, error
  <2>2. /\ next.error = s.error /\ DOMAIN next = DOMAIN s /\ next.n = s.n + 1
        /\ next.eoi = (IF c.kind = "EOI" THEN i ELSE 0)
    BY <2>1
  <2> QED
    BY <1>3, <2>2 DEF next, error
<1> QED
  BY <1>1, <1>2, <1>3

\* The states the JPEG scan goes through.
JpegScan(parts, f) ==
    /\ f[0] = JpegStart
    /\ \A n \in 1..(Len(parts) - 1) : f[n] = JpegStep(f[n - 1], parts[n], n)

LEMMA JpegScanExists ==
    ASSUME NEW parts, Len(parts) \in Nat \ {0}
    PROVE  \E f : /\ JpegScan(parts, f)
                  /\ PreflightJpeg(parts) = JpegContainer(parts, f[Len(parts) - 1])
<1> DEFINE N == Len(parts) - 1
           Value(g, n) == IF n = 0 THEN JpegStart ELSE JpegStep(g[n - 1], parts[n], n)
           Solves(g, m) == g = [n \in 0..m |-> Value(g, n)]
           Q == {m \in Nat : \E g : Solves(g, m)}
<1>1. 0 \in Q
  <2> DEFINE g == [n \in 0..0 |-> JpegStart]
  <2>1. \A n \in 0..0 : Value(g, n) = JpegStart
    OBVIOUS
  <2>2. Solves(g, 0)
    BY <2>1
  <2> QED
    BY <2>2
<1>2. ASSUME NEW m \in Nat, m \in Q
      PROVE  m + 1 \in Q
  <2>1. PICK g : Solves(g, m)
    BY <1>2
  <2> DEFINE f == [n \in 0..(m + 1) |-> IF n = m + 1 THEN JpegStep(g[m], parts[n], n)
                                        ELSE g[n]]
  <2>2. ASSUME NEW n \in 0..(m + 1)
        PROVE  f[n] = Value(f, n)
    <3>1. CASE n = m + 1
      <4>1. n # 0 /\ n - 1 = m /\ m \in 0..(m + 1) /\ m # m + 1
        BY <3>1
      <4>2. f[n - 1] = g[m] /\ f[n] = JpegStep(g[m], parts[n], n)
        BY <3>1, <4>1
      <4> HIDE DEF f
      <4> QED
        BY <4>1, <4>2
    <3>2. CASE n # m + 1
      <4>1. n \in 0..m
        BY <3>2
      <4>2. f[n] = g[n] /\ (n # 0 => f[n - 1] = g[n - 1])
        BY <3>2, <4>1
      <4>3. g[n] = Value(g, n)
        <5> HIDE DEF Value
        <5> QED
          BY <2>1, <4>1
      <4> HIDE DEF f
      <4> QED
        BY <4>1, <4>2, <4>3
    <3> QED
      BY <3>1, <3>2
  <2>3. Solves(f, m + 1)
    <3> HIDE DEF Value
    <3> QED
      BY <2>2
  <2>4. m + 1 \in Nat
    OBVIOUS
  <2> HIDE DEF f, Solves
  <2> QED
    BY <2>3, <2>4
<1>3. N \in Q
  <2>1. N \in Nat
    OBVIOUS
  <2> HIDE DEF Q, N
  <2> QED
    BY <1>1, <1>2, <2>1, NatInduct
<1> DEFINE after == CHOOSE g : Solves(g, N)
<1>4. Solves(after, N)
  <2> HIDE DEF Solves
  <2> QED
    BY <1>3
<1>5. PreflightJpeg(parts) = JpegContainer(parts, after[N])
  BY DEF PreflightJpeg
<1> HIDE DEF after
<1>6. \A n \in 0..N : after[n] = Value(after, n)
  <2> HIDE DEF Value
  <2> QED
    BY <1>4
<1>7. JpegScan(parts, after)
  <2>1. after[0] = JpegStart
    BY <1>6
  <2>2. ASSUME NEW n \in 1..N
        PROVE  after[n] = JpegStep(after[n - 1], parts[n], n)
    <3>1. n \in 0..N /\ n # 0
      OBVIOUS
    <3> QED
      BY <1>6, <3>1
  <2> QED
    BY <2>1, <2>2 DEF JpegScan
<1> QED
  BY <1>5, <1>7

\* The states the search for the end of the scan goes through.
TailStart(counted) == [error |-> "none", n |-> counted, eoi |-> 0]

TailScan(parts, start, counted, g) ==
    /\ g[start] = TailStart(counted)
    /\ \A n \in (start + 1)..Len(parts) : g[n] = ScanStep(g[n - 1], parts[n], n)

LEMMA TailScanExists ==
    ASSUME NEW parts, Len(parts) \in Nat, NEW start \in 0..Len(parts), NEW counted
    PROVE  \E g : /\ TailScan(parts, start, counted, g)
                  /\ TerminalEOI(parts, start, counted) = g[Len(parts)]
<1> DEFINE N == Len(parts)
           Value(g, n) == IF n = start THEN TailStart(counted)
                          ELSE ScanStep(g[n - 1], parts[n], n)
           Solves(g, m) == g = [n \in start..m |-> Value(g, n)]
           Q == {m \in Nat : \E g : Solves(g, start + m)}
<1>0. start \in Nat /\ N \in Nat /\ start <= N /\ start + 0 = start
  OBVIOUS
<1>1. 0 \in Q
  <2> DEFINE g == [n \in start..start |-> TailStart(counted)]
  <2>1. \A n \in start..start : Value(g, n) = TailStart(counted)
    OBVIOUS
  <2>2. Solves(g, start)
    BY <2>1
  <2> HIDE DEF Solves, g
  <2> QED
    BY <1>0, <2>2
<1>2. ASSUME NEW d \in Nat, d \in Q
      PROVE  d + 1 \in Q
  <2> DEFINE m == start + d
  <2>1. PICK g : Solves(g, m)
    BY <1>2
  <2>0. m \in Nat /\ start <= m /\ start + (d + 1) = m + 1
    BY <1>0
  <2> HIDE DEF m
  <2> DEFINE f == [n \in start..(m + 1) |-> IF n = m + 1 THEN ScanStep(g[m], parts[n], n)
                                            ELSE g[n]]
  <2>2. ASSUME NEW n \in start..(m + 1)
        PROVE  f[n] = Value(f, n)
    <3>1. CASE n = m + 1
      <4>1. n # start /\ n - 1 = m /\ m \in start..(m + 1) /\ m # m + 1
        BY <1>0, <2>0, <3>1
      <4>2. f[n - 1] = g[m] /\ f[n] = ScanStep(g[m], parts[n], n)
        BY <3>1, <4>1
      <4> HIDE DEF f
      <4> QED
        BY <4>1, <4>2
    <3>2. CASE n # m + 1
      <4>1. n \in start..m
        BY <1>0, <2>0, <3>2
      <4>2. f[n] = g[n] /\ (n # start => f[n - 1] = g[n - 1])
        BY <1>0, <2>0, <3>2, <4>1
      <4>3. g[n] = Value(g, n)
        <5> HIDE DEF Value
        <5> QED
          BY <2>1, <4>1
      <4> HIDE DEF f
      <4> QED
        BY <4>1, <4>2, <4>3
    <3> QED
      BY <3>1, <3>2
  <2>3. Solves(f, m + 1)
    <3> HIDE DEF Value
    <3> QED
      BY <2>2
  <2>4. d + 1 \in Nat
    OBVIOUS
  <2> HIDE DEF f, Solves
  <2> QED
    BY <2>0, <2>3, <2>4
<1>3. \E g : Solves(g, N)
  <2>1. N - start \in Nat /\ start + (N - start) = N
    BY <1>0
  <2> DEFINE d == N - start
  <2>2. d \in Q
    <3> HIDE DEF Q, d
    <3> QED
      BY <1>1, <1>2, <2>1, NatInduct DEF d
  <2> HIDE DEF Solves, d
  <2>3. start + d = N
    BY <2>1 DEF d
  <2> QED
    BY <2>2, <2>3
<1> DEFINE after == CHOOSE g : Solves(g, N)
<1>4. Solves(after, N)
  <2> HIDE DEF Solves
  <2> QED
    BY <1>3
<1>5. TerminalEOI(parts, start, counted) = after[N]
  BY DEF TerminalEOI, TailStart
<1> HIDE DEF after
<1>6. \A n \in start..N : after[n] = Value(after, n)
  <2> HIDE DEF Value
  <2> QED
    BY <1>4
<1>7. TailScan(parts, start, counted, after)
  <2>1. after[start] = TailStart(counted)
    BY <1>0, <1>6
  <2>2. ASSUME NEW n \in (start + 1)..N
        PROVE  after[n] = ScanStep(after[n - 1], parts[n], n)
    <3>1. n \in start..N /\ n # start
      BY <1>0
    <3> QED
      BY <1>6, <3>1
  <2> QED
    BY <2>1, <2>2 DEF TailScan
<1> QED
  BY <1>5, <1>7

\* A marker as the scan meets it: within the bounds on sizes, a marker without a
\* length is whole, and a frame says what the picture's size is.
JpegMarker(c, size) ==
    /\ c.whole \in BOOLEAN /\ c.kind # "IHDR"
    /\ c.kind \in Bare \cup {"stuffed"} => c.whole
    /\ c.kind = "SOF" => /\ c.w = size[1] /\ c.h = size[2]
                         /\ DimensionError(c.w, c.h) = "none"
                         /\ c.value \in {"8 bits", "deep"}
    /\ c.kind = "Exif" => c.value # "large"
    /\ c.kind = "ICC" => c.seq \in Nat /\ c.total \in Nat

\* Bytes are stuffed only inside a scan.
JpegMarkers(parts, size) ==
    /\ Len(parts) \in Nat \ {0} /\ DOMAIN parts = 1..Len(parts)
    /\ \A i \in 1..Len(parts) :
          /\ JpegMarker(parts[i], size)
          /\ parts[i].kind = "stuffed" => \E j \in 1..(i - 1) : parts[j].kind = "SOS"

\* A marker that does not stop the scan, and a segment of the profile that
\* continues those before it.
JpegSound(parts, i) ==
    /\ i <= MaxParts /\ parts[i].whole /\ parts[i].kind # "MPF"
    /\ parts[i].kind = "Exif" => \A j \in 1..(i - 1) : parts[j].kind # "Exif"

Continues(parts, i) ==
    parts[i].kind = "ICC" =>
        /\ parts[i].seq \in 1..parts[i].total
        /\ \A j \in 1..(i - 1) : parts[j].kind = "ICC" =>
              parts[j].seq # parts[i].seq /\ parts[j].total = parts[i].total

\* No segment so far brings the profile past its bound.
Bounded(parts, n) == \A i \in 1..n : parts[i].kind = "ICC" => parts[i].value # "large"

\* What was kept of the profile: every segment, under its number.
Kept(parts, n, s) ==
    /\ s.total = 0 <=> \A i \in 1..n : parts[i].kind # "ICC"
    /\ \A i \in 1..n : parts[i].kind = "ICC" =>
          s.total = parts[i].total /\ s.parts[parts[i].seq] = parts[i].part
    /\ \A k : k \in DOMAIN s.parts
                 <=> \E i \in 1..n : parts[i].kind = "ICC" /\ parts[i].seq = k
    /\ s.parts = [k \in DOMAIN s.parts |-> s.parts[k]]

LastFrame(parts, n, i) ==
    i \in 1..n /\ parts[i].kind = "SOF" /\ \A j \in (i + 1)..n : parts[j].kind # "SOF"

\* What the scan knows after n markers, none of which stopped it.
JpegSeen(parts, n, s, size) ==
    /\ s.n = n
    /\ s.w = IF \E i \in 1..n : parts[i].kind = "SOF" THEN size[1] ELSE 0
    /\ s.h = IF \E i \in 1..n : parts[i].kind = "SOF" THEN size[2] ELSE 0
    /\ \A i : LastFrame(parts, n, i) => s.deep = (parts[i].value = "deep")
    /\ s.color <=> \A i \in 1..n : Continues(parts, i)
    /\ s.color => Kept(parts, n, s)
    /\ s.exif <=> \E i \in 1..n : parts[i].kind = "Exif"

\* A segment fits what was kept exactly when it continues the others.
LEMMA FitsNext ==
    ASSUME NEW parts, NEW n \in Nat, NEW s, Kept(parts, n, s),
           parts[n + 1].kind = "ICC", parts[n + 1].total \in Nat
    PROVE  ProfileFits(s, parts[n + 1]) <=> Continues(parts, n + 1)
<1> DEFINE c == parts[n + 1]
<1>1. (n + 1) - 1 = n
  OBVIOUS
<1>2. Continues(parts, n + 1)
         <=> /\ c.seq \in 1..c.total
             /\ \A j \in 1..n : parts[j].kind = "ICC" =>
                   parts[j].seq # c.seq /\ parts[j].total = c.total
  BY <1>1 DEF Continues
<1>3. c.seq \notin DOMAIN s.parts
         <=> \A j \in 1..n : parts[j].kind = "ICC" => parts[j].seq # c.seq
  BY DEF Kept
<1>4. ASSUME c.seq \in 1..c.total
      PROVE  s.total \in {0, c.total}
               <=> \A j \in 1..n : parts[j].kind = "ICC" => parts[j].total = c.total
  <2>1. c.total # 0
    BY <1>4
  <2>2. CASE \A j \in 1..n : parts[j].kind # "ICC"
    <3>1. s.total = 0
      BY <2>2 DEF Kept
    <3> QED
      BY <2>2, <3>1
  <2>3. CASE \E j \in 1..n : parts[j].kind = "ICC"
    <3>1. s.total # 0
      BY <2>3 DEF Kept
    <3>2. \A j \in 1..n : parts[j].kind = "ICC" => s.total = parts[j].total
      BY DEF Kept
    <3> QED
      BY <2>3, <3>1, <3>2
  <2> QED
    BY <2>2, <2>3
<1> HIDE DEF c
<1>5. ProfileFits(s, c)
        <=> /\ c.seq \in 1..c.total
            /\ c.seq \notin DOMAIN s.parts
            /\ s.total \in {0, c.total}
  BY DEF ProfileFits
<1>6. ProfileFits(s, c) <=> Continues(parts, n + 1)
  BY <1>2, <1>3, <1>4, <1>5
<1> QED
  BY <1>6 DEF c

\* What is kept, one segment later.
LEMMA KeptNext ==
    ASSUME NEW parts, NEW n \in Nat, NEW s, NEW next, Kept(parts, n, s),
           parts[n + 1].kind = "ICC" => /\ parts[n + 1].seq \in Nat /\ parts[n + 1].total \in Nat
                                        /\ Continues(parts, n + 1),
           next.total = (IF parts[n + 1].kind = "ICC" THEN parts[n + 1].total ELSE s.total),
           next.parts = (IF parts[n + 1].kind = "ICC" THEN Keep(s.parts, parts[n + 1])
                                                      ELSE s.parts)
    PROVE  Kept(parts, n + 1, next)
<1> DEFINE c == parts[n + 1]
<1>1. \A i \in 1..(n + 1) : i \in 1..n \/ i = n + 1
  OBVIOUS
<1>2. n + 1 \in 1..(n + 1) /\ \A i \in 1..n : i \in 1..(n + 1)
  OBVIOUS
<1>3. /\ s.total = 0 <=> \A i \in 1..n : parts[i].kind # "ICC"
      /\ \A i \in 1..n : parts[i].kind = "ICC" =>
            s.total = parts[i].total /\ s.parts[parts[i].seq] = parts[i].part
      /\ \A k : k \in DOMAIN s.parts
                   <=> \E i \in 1..n : parts[i].kind = "ICC" /\ parts[i].seq = k
      /\ s.parts = [k \in DOMAIN s.parts |-> s.parts[k]]
  BY DEF Kept
<1>4. CASE c.kind # "ICC"
  <2>1. next.total = s.total /\ next.parts = s.parts
    BY <1>4
  <2>2. next.total = 0 <=> \A i \in 1..(n + 1) : parts[i].kind # "ICC"
    BY <1>1, <1>2, <1>3, <1>4, <2>1
  <2>3. \A i \in 1..(n + 1) : parts[i].kind = "ICC" =>
           next.total = parts[i].total /\ next.parts[parts[i].seq] = parts[i].part
    BY <1>1, <1>3, <1>4, <2>1
  <2>4. \A k : k \in DOMAIN next.parts
                  <=> \E i \in 1..(n + 1) : parts[i].kind = "ICC" /\ parts[i].seq = k
    BY <1>1, <1>2, <1>3, <1>4, <2>1
  <2>5. next.parts = [k \in DOMAIN next.parts |-> next.parts[k]]
    BY <1>3, <2>1
  <2> QED
    BY <2>2, <2>3, <2>4, <2>5 DEF Kept
<1>5. CASE c.kind = "ICC"
  <2> DEFINE before == s.parts
             after == [k \in DOMAIN before \cup {c.seq} |->
                          IF k = c.seq THEN c.part ELSE before[k]]
  <2>1. next.total = c.total /\ next.parts = after
    BY <1>5 DEF Keep
  <2>2. c.seq \in 1..c.total /\ \A j \in 1..n : parts[j].kind = "ICC" =>
           parts[j].seq # c.seq /\ parts[j].total = c.total
    <3>1. (n + 1) - 1 = n
      OBVIOUS
    <3> QED
      BY <1>5, <3>1 DEF Continues
  <2>3. c.total # 0
    BY <1>5, <2>2
  <2>4. /\ DOMAIN after = DOMAIN before \cup {c.seq}
        /\ after[c.seq] = c.part
        /\ \A k \in DOMAIN before : k # c.seq => after[k] = before[k]
        /\ after = [k \in DOMAIN after |-> after[k]]
    OBVIOUS
  <2> HIDE DEF after, before
  <2>5. next.total = 0 <=> \A i \in 1..(n + 1) : parts[i].kind # "ICC"
    BY <1>2, <1>5, <2>1, <2>3
  <2>6. \A i \in 1..(n + 1) : parts[i].kind = "ICC" =>
           next.total = parts[i].total /\ next.parts[parts[i].seq] = parts[i].part
    <3>1. ASSUME NEW i \in 1..n, parts[i].kind = "ICC"
          PROVE  next.total = parts[i].total /\ next.parts[parts[i].seq] = parts[i].part
      <4>1. parts[i].seq \in DOMAIN before /\ parts[i].seq # c.seq
            /\ before[parts[i].seq] = parts[i].part /\ parts[i].total = c.total
        BY <1>3, <2>2, <3>1 DEF before
      <4> QED
        BY <2>1, <2>4, <4>1
    <3>2. next.total = c.total /\ next.parts[c.seq] = c.part
      BY <2>1, <2>4
    <3> QED
      BY <1>1, <3>1, <3>2
  <2>7. ASSUME NEW k
        PROVE  k \in DOMAIN next.parts
                  <=> \E i \in 1..(n + 1) : parts[i].kind = "ICC" /\ parts[i].seq = k
    <3>1. k \in DOMAIN next.parts <=> k \in DOMAIN before \/ k = c.seq
      BY <2>1, <2>4
    <3>2. k \in DOMAIN before <=> \E i \in 1..n : parts[i].kind = "ICC" /\ parts[i].seq = k
      BY <1>3 DEF before
    <3> QED
      BY <1>1, <1>2, <1>5, <3>1, <3>2
  <2>8. next.parts = [k \in DOMAIN next.parts |-> next.parts[k]]
    BY <2>1, <2>4
  <2> QED
    BY <2>5, <2>6, <2>7, <2>8 DEF Kept
<1> QED
  BY <1>4, <1>5

\* What the scan knows, one marker later.
LEMMA JpegSeenNext ==
    ASSUME NEW parts, NEW n \in Nat, NEW s, NEW next, NEW size,
           JpegSeen(parts, n, s, size), JpegState(s), JpegState(next),
           JpegMarker(parts[n + 1], size),
           next.n = s.n + 1,
           next.w = (IF parts[n + 1].kind = "SOF" THEN parts[n + 1].w ELSE s.w),
           next.h = (IF parts[n + 1].kind = "SOF" THEN parts[n + 1].h ELSE s.h),
           next.deep = (IF parts[n + 1].kind = "SOF" THEN parts[n + 1].value = "deep"
                                                     ELSE s.deep),
           next.color = (s.color /\ (parts[n + 1].kind = "ICC" =>
                            (parts[n + 1].kind = "ICC" /\ ProfileFits(s, parts[n + 1])))),
           next.total = (IF parts[n + 1].kind = "ICC" /\ ProfileFits(s, parts[n + 1])
                         THEN parts[n + 1].total ELSE s.total),
           next.parts = (IF parts[n + 1].kind = "ICC" /\ ProfileFits(s, parts[n + 1])
                         THEN Keep(s.parts, parts[n + 1]) ELSE s.parts),
           next.exif = (s.exif \/ parts[n + 1].kind = "Exif")
    PROVE  JpegSeen(parts, n + 1, next, size)
<1> DEFINE c == parts[n + 1]
<1>1. \A i \in 1..(n + 1) : i \in 1..n \/ i = n + 1
  OBVIOUS
<1>2. n + 1 \in 1..(n + 1) /\ \A i \in 1..n : i \in 1..(n + 1)
  OBVIOUS
<1>3. next.n = n + 1
  BY DEF JpegSeen
<1>4. /\ next.w = IF \E i \in 1..(n + 1) : parts[i].kind = "SOF" THEN size[1] ELSE 0
      /\ next.h = IF \E i \in 1..(n + 1) : parts[i].kind = "SOF" THEN size[2] ELSE 0
  <2>1. /\ s.w = IF \E i \in 1..n : parts[i].kind = "SOF" THEN size[1] ELSE 0
        /\ s.h = IF \E i \in 1..n : parts[i].kind = "SOF" THEN size[2] ELSE 0
    BY DEF JpegSeen
  <2>2. CASE c.kind = "SOF"
    <3>1. next.w = size[1] /\ next.h = size[2]
      BY <2>2 DEF JpegMarker
    <3>2. \E i \in 1..(n + 1) : parts[i].kind = "SOF"
      BY <1>2, <2>2
    <3> QED
      BY <3>1, <3>2
  <2>3. CASE c.kind # "SOF"
    <3>1. (\E i \in 1..(n + 1) : parts[i].kind = "SOF")
             <=> \E i \in 1..n : parts[i].kind = "SOF"
      BY <1>1, <1>2, <2>3
    <3>2. next.w = s.w /\ next.h = s.h
      BY <2>3
    <3> QED
      BY <2>1, <3>1, <3>2
  <2> QED
    BY <2>2, <2>3
<1>5. ASSUME NEW i, LastFrame(parts, n + 1, i)
      PROVE  next.deep = (parts[i].value = "deep")
  <2>1. CASE c.kind = "SOF"
    <3>1. i = n + 1
      <4>1. i \in 1..(n + 1)
        BY <1>5 DEF LastFrame
      <4>2. i # n + 1 => n + 1 \in (i + 1)..(n + 1)
        BY <4>1
      <4> QED
        BY <1>5, <2>1, <4>2 DEF LastFrame
    <3> QED
      BY <2>1, <3>1
  <2>2. CASE c.kind # "SOF"
    <3>1. i \in 1..n
      BY <1>1, <1>5, <2>2 DEF LastFrame
    <3>2. \A j \in (i + 1)..n : j \in (i + 1)..(n + 1)
      BY <3>1
    <3>3. LastFrame(parts, n, i)
      BY <1>5, <3>1, <3>2 DEF LastFrame
    <3>4. s.deep = (parts[i].value = "deep")
      BY <3>3 DEF JpegSeen
    <3> QED
      BY <2>2, <3>4
  <2> QED
    BY <2>1, <2>2
<1> DEFINE fits == c.kind = "ICC" => ProfileFits(s, c)
<1>6. next.color = (s.color /\ fits) /\ fits \in BOOLEAN
  OBVIOUS
<1>7. s.color <=> \A i \in 1..n : Continues(parts, i)
  BY DEF JpegSeen
<1>8. s.color => Kept(parts, n, s)
  BY DEF JpegSeen
<1>9. c.kind = "ICC" => c.seq \in Nat /\ c.total \in Nat
  BY DEF JpegMarker
<1>10. s.color => (fits <=> Continues(parts, n + 1))
  <2>1. CASE c.kind = "ICC"
    <3> SUFFICES ASSUME s.color
                 PROVE  fits <=> Continues(parts, n + 1)
      OBVIOUS
    <3>1. ProfileFits(s, c) <=> Continues(parts, n + 1)
      BY <1>8, <1>9, <2>1, FitsNext
    <3> QED
      BY <2>1, <3>1
  <2>2. CASE c.kind # "ICC"
    BY <2>2 DEF Continues
  <2> QED
    BY <2>1, <2>2
<1>11. next.color <=> \A i \in 1..(n + 1) : Continues(parts, i)
  <2> HIDE DEF fits
  <2>1. s.color \in BOOLEAN
    BY DEF JpegState
  <2> QED
    BY <1>1, <1>2, <1>6, <1>7, <1>10, <2>1
<1>12. ASSUME next.color
       PROVE  Kept(parts, n + 1, next)
  <2>1. s.color /\ fits
    BY <1>6, <1>12
  <2>2. Kept(parts, n, s) /\ Continues(parts, n + 1)
    BY <1>8, <1>10, <2>1
  <2>3. /\ next.total = (IF c.kind = "ICC" THEN c.total ELSE s.total)
        /\ next.parts = (IF c.kind = "ICC" THEN Keep(s.parts, c) ELSE s.parts)
    BY <2>1
  <2> QED
    BY <1>9, <2>2, <2>3, KeptNext
<1>13. next.exif <=> \E i \in 1..(n + 1) : parts[i].kind = "Exif"
  <2>1. s.exif <=> \E i \in 1..n : parts[i].kind = "Exif"
    BY DEF JpegSeen
  <2> QED
    BY <1>1, <1>2, <2>1 DEF JpegState
<1> QED
  BY <1>3, <1>4, <1>5, <1>11, <1>12, <1>13 DEF JpegSeen

\* The scan after n markers, the last of which may start the scan data.
JpegAfter(parts, size, n, s) ==
    /\ JpegState(s)
    /\ s.error = "none" => \A i \in 1..n : JpegSound(parts, i)
    /\ (\A i \in 1..n : JpegSound(parts, i)) /\ Bounded(parts, n) => s.error = "none"
    /\ s.error = "none" =>
          /\ JpegSeen(parts, n, s, size)
          /\ s.color => Bounded(parts, n)
          /\ s.scan = IF n # 0 /\ parts[n].kind = "SOS" THEN n ELSE 0

LEMMA JpegAfterStart ==
    ASSUME NEW parts, NEW size
    PROVE  JpegAfter(parts, size, 0, JpegStart)
<1>1. \A i \in 1..0 : FALSE
  OBVIOUS
<1>2. /\ JpegStart.error = "none" /\ JpegStart.n = 0 /\ JpegStart.scan = 0
      /\ JpegStart.w = 0 /\ JpegStart.h = 0 /\ JpegStart.deep = FALSE
      /\ JpegStart.color = TRUE /\ JpegStart.total = 0 /\ JpegStart.exif = FALSE
      /\ JpegStart.parts = <<>>
      /\ DOMAIN JpegStart = JpegFields
  BY DEF JpegStart, JpegFields
<1>3. JpegState(JpegStart)
  BY <1>2 DEF JpegState
<1> HIDE DEF JpegStart
<1>4. Kept(parts, 0, JpegStart)
  <2>1. DOMAIN <<>> = {} /\ <<>> = [k \in DOMAIN <<>> |-> <<>>[k]]
    OBVIOUS
  <2> QED
    BY <1>1, <1>2, <2>1 DEF Kept
<1>5. \A i : ~LastFrame(parts, 0, i)
  BY <1>1 DEF LastFrame
<1>6. JpegSeen(parts, 0, JpegStart, size)
  BY <1>1, <1>2, <1>4, <1>5 DEF JpegSeen
<1>7. Bounded(parts, 0) /\ \A i \in 1..0 : JpegSound(parts, i)
  BY <1>1 DEF Bounded
<1>8. ~(0 # 0 /\ parts[0].kind = "SOS")
  OBVIOUS
<1> QED
  BY <1>2, <1>3, <1>6, <1>7, <1>8 DEF JpegAfter

\* A marker within the bounds does not stop the scan exactly when it is sound and
\* does not bring the profile past its bound.
LEMMA JpegErrorNext ==
    ASSUME NEW parts, NEW n \in Nat, NEW s, NEW size, JpegSeen(parts, n, s, size),
           JpegMarker(parts[n + 1], size), MaxParts \in Nat
    PROVE  JpegError(s, parts[n + 1]) = "none"
              <=> JpegSound(parts, n + 1) /\ ~Overflows(s, parts[n + 1])
<1> DEFINE c == parts[n + 1]
           exif == \A j \in 1..n : parts[j].kind # "Exif"
<1>1. PartSize(c) = "none" /\ ~(c.kind = "Exif" /\ c.value = "large") /\ c.whole \in BOOLEAN
      /\ (c.kind \in Bare => c.whole)
  BY DEF JpegMarker, PartSize
<1>2. s.n = n /\ (~s.exif <=> exif)
  BY DEF JpegSeen
<1>3. JpegSound(parts, n + 1)
         <=> /\ n + 1 <= MaxParts /\ c.whole /\ c.kind # "MPF"
             /\ c.kind = "Exif" => exif
  <2>1. (n + 1) - 1 = n
    OBVIOUS
  <2> QED
    BY <2>1 DEF JpegSound
<1> HIDE DEF c, exif
<1>4. JpegError(s, c) = "none"
         <=> /\ ~(s.n + 1 > MaxParts) /\ (c.kind \in Bare \/ c.whole)
             /\ c.kind # "MPF" /\ ~Overflows(s, c) /\ ~(c.kind = "Exif" /\ s.exif)
  BY <1>1, JpegErrorIs
<1>5. ~(s.n + 1 > MaxParts) <=> n + 1 <= MaxParts
  BY <1>2
<1>6. JpegError(s, c) = "none" <=> JpegSound(parts, n + 1) /\ ~Overflows(s, c)
  BY <1>1, <1>2, <1>3, <1>4, <1>5
<1> QED
  BY <1>6 DEF c

LEMMA JpegAfterNext ==
    ASSUME NEW parts, NEW size, JpegMarkers(parts, size), MaxParts \in Nat,
           NEW n \in 0..(Len(parts) - 1), NEW s, JpegAfter(parts, size, n, s),
           n # 0 => parts[n].kind # "SOS"
    PROVE  JpegAfter(parts, size, n + 1, JpegStep(s, parts[n + 1], n + 1))
<1> DEFINE c == parts[n + 1]
           m == n + 1
           next == JpegStep(s, c, m)
           keeps == c.kind = "ICC" /\ ProfileFits(s, c)
           moved == /\ next.n = s.n + 1
                    /\ next.scan = (IF c.kind = "SOS" THEN m ELSE 0)
                    /\ next.w = (IF c.kind = "SOF" THEN c.w ELSE s.w)
                    /\ next.h = (IF c.kind = "SOF" THEN c.h ELSE s.h)
                    /\ next.deep = (IF c.kind = "SOF" THEN c.value = "deep" ELSE s.deep)
                    /\ next.color = (s.color /\ (c.kind = "ICC" => keeps))
                    /\ next.total = (IF keeps THEN c.total ELSE s.total)
                    /\ next.parts = (IF keeps THEN Keep(s.parts, c) ELSE s.parts)
                    /\ next.exif = (s.exif \/ c.kind = "Exif")
<1>1. n \in Nat /\ Len(parts) \in Nat /\ n + 1 \in 1..Len(parts) /\ n + 1 # 0
  BY DEF JpegMarkers
<1>2. n + 1 \in 1..(n + 1) /\ \A i \in 1..(n + 1) : i \in 1..n \/ i = n + 1
  BY <1>1
<1>3. \A i \in 1..n : i \in 1..(n + 1)
  BY <1>1
<1>4. JpegMarker(parts[n + 1], size)
  BY <1>1 DEF JpegMarkers
<1>5. JpegState(s)
  BY DEF JpegAfter
<1>6. /\ JpegState(next)
      /\ (s.error # "none" \/ s.scan # 0) => next = s
      /\ (s.error = "none" /\ s.scan = 0 /\ JpegError(s, c) # "none")
            => next.error # "none"
      /\ (s.error = "none" /\ s.scan = 0 /\ JpegError(s, c) = "none")
            => next.error = "none" /\ moved
  <2> HIDE DEF c, m
  <2> QED
    BY <1>5, JpegStepIs
<1>7. CASE s.error # "none"
  <2>1. next.error # "none"
    BY <1>6, <1>7
  <2>2. ~((\A i \in 1..(n + 1) : JpegSound(parts, i)) /\ Bounded(parts, n + 1))
    BY <1>3, <1>7 DEF JpegAfter, Bounded
  <2> HIDE DEF next
  <2>3. JpegAfter(parts, size, n + 1, next)
    BY <1>6, <2>1, <2>2 DEF JpegAfter
  <2> QED
    BY <2>3 DEF next, c, m
<1>8. CASE s.error = "none"
  <2>1. /\ JpegSeen(parts, n, s, size) /\ (\A i \in 1..n : JpegSound(parts, i)) /\ s.scan = 0
        /\ s.color => Bounded(parts, n)
    BY <1>8 DEF JpegAfter
  <2>2. JpegError(s, c) = "none" <=> JpegSound(parts, n + 1) /\ ~Overflows(s, c)
    BY <1>1, <1>4, <2>1, JpegErrorNext
  <2> HIDE DEF next
  <2>3. CASE JpegSound(parts, n + 1) /\ ~Overflows(s, c)
    <3>1. next.error = "none" /\ moved
      BY <1>6, <1>8, <2>1, <2>2, <2>3
    <3>2. JpegSeen(parts, n + 1, next, size)
      BY <1>1, <1>4, <1>5, <1>6, <2>1, <3>1, JpegSeenNext
    <3>3. \A i \in 1..(n + 1) : JpegSound(parts, i)
      BY <1>2, <2>1, <2>3
    <3>4. next.scan = IF n + 1 # 0 /\ parts[n + 1].kind = "SOS" THEN n + 1 ELSE 0
      BY <1>1, <3>1
    <3>5. next.color => Bounded(parts, n + 1)
      <4>1. next.color => s.color /\ (c.kind = "ICC" => ProfileFits(s, c))
        BY <1>5, <3>1 DEF JpegState
      <4>2. next.color => (c.kind = "ICC" => c.value # "large")
        BY <2>3, <4>1 DEF Overflows
      <4> QED
        BY <1>2, <2>1, <4>1, <4>2 DEF Bounded
    <3>6. JpegAfter(parts, size, n + 1, next)
      BY <1>6, <3>1, <3>2, <3>3, <3>4, <3>5 DEF JpegAfter
    <3> QED
      BY <3>6 DEF next, c, m
  <2>4. CASE ~(JpegSound(parts, n + 1) /\ ~Overflows(s, c))
    <3>1. next.error # "none"
      BY <1>6, <1>8, <2>1, <2>2, <2>4
    <3>2. ~((\A i \in 1..(n + 1) : JpegSound(parts, i)) /\ Bounded(parts, n + 1))
      BY <1>2, <2>4 DEF Overflows, Bounded
    <3>3. JpegAfter(parts, size, n + 1, next)
      BY <1>6, <3>1, <3>2 DEF JpegAfter
    <3> QED
      BY <3>3 DEF next, c, m
  <2> QED
    BY <2>3, <2>4
<1> QED
  BY <1>7, <1>8

\* The scan up to the first SOS.
LEMMA JpegAfterUntil ==
    ASSUME NEW parts, NEW size, JpegMarkers(parts, size), MaxParts \in Nat,
           NEW f, JpegScan(parts, f), NEW k \in 0..(Len(parts) - 1),
           \A j \in 1..(k - 1) : parts[j].kind # "SOS"
    PROVE  JpegAfter(parts, size, k, f[k])
<1> DEFINE P(n) == n <= k => JpegAfter(parts, size, n, f[n])
           Q == {n \in Nat : P(n)}
<1>1. Len(parts) \in Nat /\ k \in Nat /\ k <= Len(parts) - 1
  BY DEF JpegMarkers
<1>2. P(0)
  <2>1. f[0] = JpegStart
    BY DEF JpegScan
  <2> QED
    BY <2>1, JpegAfterStart
<1>3. ASSUME NEW n \in Nat, P(n)
      PROVE  P(n + 1)
  <2>1. SUFFICES ASSUME n + 1 <= k
                 PROVE  JpegAfter(parts, size, n + 1, f[n + 1])
    OBVIOUS
  <2>2. n \in 0..(Len(parts) - 1) /\ n + 1 \in 1..(Len(parts) - 1) /\ n <= k /\ (n + 1) - 1 = n
    BY <1>1, <2>1
  <2>3. f[n + 1] = JpegStep(f[n], parts[n + 1], n + 1)
    BY <2>2 DEF JpegScan
  <2>4. JpegAfter(parts, size, n, f[n])
    BY <1>3, <2>2
  <2>5. n # 0 => n \in 1..(k - 1)
    BY <1>1, <2>1
  <2>6. n # 0 => parts[n].kind # "SOS"
    BY <2>5
  <2> QED
    BY <2>2, <2>3, <2>4, <2>6, JpegAfterNext
<1> HIDE DEF P
<1>4. 0 \in Q /\ \A n \in Nat : n \in Q => n + 1 \in Q
  BY <1>2, <1>3
<1>5. k \in Q
  <2> HIDE DEF Q
  <2> QED
    BY <1>1, <1>4, NatInduct
<1> QED
  BY <1>1, <1>5 DEF P

\* A scan that stopped stays as it is.
LEMMA JpegStops ==
    ASSUME NEW parts, NEW size, JpegMarkers(parts, size),
           NEW f, JpegScan(parts, f), NEW k \in 0..(Len(parts) - 1), JpegState(f[k]),
           f[k].error # "none" \/ f[k].scan # 0
    PROVE  f[Len(parts) - 1] = f[k]
<1> DEFINE P(d) == k + d <= Len(parts) - 1 => f[k + d] = f[k]
           Q == {d \in Nat : P(d)}
<1>1. Len(parts) \in Nat /\ k \in Nat /\ k <= Len(parts) - 1
  BY DEF JpegMarkers
<1>2. P(0)
  BY <1>1
<1>3. ASSUME NEW d \in Nat, P(d)
      PROVE  P(d + 1)
  <2>1. SUFFICES ASSUME k + (d + 1) <= Len(parts) - 1
                 PROVE  f[k + (d + 1)] = f[k]
    OBVIOUS
  <2> DEFINE m == k + (d + 1)
  <2>2. m \in 1..(Len(parts) - 1) /\ m - 1 = k + d /\ k + d <= Len(parts) - 1
    BY <1>1, <2>1
  <2> HIDE DEF m
  <2>3. f[m] = JpegStep(f[m - 1], parts[m], m)
    BY <2>2 DEF JpegScan
  <2>4. f[m - 1] = f[k]
    BY <1>3, <2>2
  <2>5. JpegStep(f[k], parts[m], m) = f[k]
    BY DEF JpegStep
  <2> QED
    BY <2>3, <2>4, <2>5 DEF m
<1> HIDE DEF P
<1>4. 0 \in Q /\ \A d \in Nat : d \in Q => d + 1 \in Q
  BY SMTT(30), <1>2, <1>3
<1>5. (Len(parts) - 1) - k \in Q
  <2>1. (Len(parts) - 1) - k \in Nat
    BY <1>1
  <2> HIDE DEF Q
  <2> QED
    BY <2>1, <1>4, NatInduct
<1>6. k + ((Len(parts) - 1) - k) = Len(parts) - 1
  BY <1>1
<1>7. P((Len(parts) - 1) - k)
  BY <1>5
<1> DEFINE d == (Len(parts) - 1) - k
<1>8. k + d = Len(parts) - 1 /\ P(d)
  BY <1>6, <1>7
<1> HIDE DEF d
<1>9. k + d <= Len(parts) - 1
  BY <1>1, <1>8
<1> QED
  BY <1>8, <1>9 DEF P

FirstScan(parts, k) ==
    /\ k \in 1..(Len(parts) - 1) /\ parts[k].kind = "SOS"
    /\ \A j \in 1..(k - 1) : parts[j].kind # "SOS"

\* The scan as far as the scan data, or without any.
LEMMA JpegScanned ==
    ASSUME NEW parts, NEW size, JpegMarkers(parts, size), MaxParts \in Nat,
           NEW f, JpegScan(parts, f)
    PROVE  LET s == f[Len(parts) - 1]
           IN /\ \A k : FirstScan(parts, k) =>
                    /\ s.error = "none" => \A i \in 1..k : JpegSound(parts, i)
                    /\ (\A i \in 1..k : JpegSound(parts, i)) /\ Bounded(parts, k)
                          => s.error = "none"
                    /\ s.error = "none" => /\ s.scan = k /\ JpegSeen(parts, k, s, size)
                                           /\ s.color => Bounded(parts, k)
              /\ (\A k : ~FirstScan(parts, k)) => s.error # "none" \/ s.scan = 0
<1> DEFINE last == Len(parts) - 1
           s == f[last]
<1>1. Len(parts) \in Nat /\ last \in Nat /\ last \in 0..last
  BY DEF JpegMarkers
<1>2. ASSUME NEW k, FirstScan(parts, k)
      PROVE  /\ s.error = "none" => \A i \in 1..k : JpegSound(parts, i)
             /\ (\A i \in 1..k : JpegSound(parts, i)) /\ Bounded(parts, k) => s.error = "none"
             /\ s.error = "none" => /\ s.scan = k /\ JpegSeen(parts, k, s, size)
                                    /\ s.color => Bounded(parts, k)
  <2>1. /\ k \in 1..last /\ k \in 0..last /\ k # 0 /\ parts[k].kind = "SOS"
        /\ \A j \in 1..(k - 1) : parts[j].kind # "SOS"
    BY <1>1, <1>2 DEF FirstScan
  <2>2. JpegAfter(parts, size, k, f[k])
    BY <2>1, JpegAfterUntil
  <2>3. f[k].error # "none" \/ f[k].scan # 0
    BY <2>1, <2>2 DEF JpegAfter
  <2>4. JpegState(f[k])
    BY <2>2 DEF JpegAfter
  <2>5. s = f[k]
    BY <2>1, <2>3, <2>4, JpegStops
  <2> HIDE DEF s
  <2> QED
    BY <2>1, <2>2, <2>5 DEF JpegAfter
<1>3. ASSUME \A k : ~FirstScan(parts, k)
      PROVE  s.error # "none" \/ s.scan = 0
  <2>1. \A j \in 1..last : parts[j].kind # "SOS"
    <3> DEFINE S == {j \in 1..last : parts[j].kind = "SOS"}
    <3>1. SUFFICES ASSUME S # {} PROVE FALSE
      OBVIOUS
    <3>2. S \in SUBSET Nat
      OBVIOUS
    <3>3. PICK k \in S : \A j \in S : k <= j
      BY <3>1, <3>2, LeastNatural
    <3>4. \A j \in 1..(k - 1) : j \in 1..last /\ ~(k <= j)
      BY <1>1, <3>3
    <3>5. FirstScan(parts, k)
      BY <3>3, <3>4 DEF FirstScan
    <3> QED
      BY <1>3, <3>5
  <2>2. \A j \in 1..(last - 1) : j \in 1..last
    BY <1>1
  <2>3. \A j \in 1..(last - 1) : parts[j].kind # "SOS"
    BY <2>1, <2>2
  <2>4. JpegAfter(parts, size, last, s)
    BY <1>1, <2>3, JpegAfterUntil
  <2>5. last # 0 => parts[last].kind # "SOS"
    <3> HIDE DEF last
    <3>1. last # 0 => last \in 1..last
      BY <1>1
    <3> QED
      BY <2>1, <3>1
  <2> HIDE DEF s, last
  <2> QED
    BY <2>4, <2>5 DEF JpegAfter
<1> QED
  BY <1>2, <1>3

-----------------------------------------------------------------------------
(* The end of the scan data.                                                *)

\* The markers a scan is counted by: stuffed bytes are none.
Counted(parts, n) == {i \in 1..n : parts[i].kind # "stuffed"}

TailSound(parts, i) ==
    parts[i].kind = "stuffed"
    \/ /\ Cardinality(Counted(parts, i)) <= MaxParts /\ parts[i].whole
       /\ parts[i].kind \notin {"Exif", "ICC", "MPF", "APP"}

TailFields == {"error", "n", "eoi"}

TailAfter(parts, start, n, t) ==
    /\ DOMAIN t = TailFields
    /\ t.error = "none" <=> \A i \in (start + 1)..n : TailSound(parts, i)
    /\ t.error = "none" =>
          /\ t.n = Cardinality(Counted(parts, n))
          /\ t.eoi = IF n # start /\ parts[n].kind = "EOI" THEN n ELSE 0

LEMMA CountedNext ==
    ASSUME NEW parts, NEW n \in Nat
    PROVE  /\ IsFiniteSet(Counted(parts, n)) /\ Cardinality(Counted(parts, n)) \in Nat
           /\ Cardinality(Counted(parts, n + 1))
                = IF parts[n + 1].kind = "stuffed" THEN Cardinality(Counted(parts, n))
                  ELSE Cardinality(Counted(parts, n)) + 1
<1>1. IsFiniteSet(1..n) /\ Counted(parts, n) \in SUBSET (1..n)
  BY FS_Interval, 0 \in Int, 1 \in Int DEF Counted
<1>2. IsFiniteSet(Counted(parts, n)) /\ Cardinality(Counted(parts, n)) \in Nat
  BY <1>1, FS_Subset, FS_CardinalityType
<1>3. \A i : i \in 1..(n + 1) <=> i \in 1..n \/ i = n + 1
  OBVIOUS
<1>4. n + 1 \notin Counted(parts, n)
  BY DEF Counted
<1>5. CASE parts[n + 1].kind = "stuffed"
  <2>1. Counted(parts, n + 1) = Counted(parts, n)
    BY <1>3, <1>5 DEF Counted
  <2> QED
    BY <1>2, <1>5, <2>1
<1>6. CASE parts[n + 1].kind # "stuffed"
  <2>1. Counted(parts, n + 1) = Counted(parts, n) \cup {n + 1}
    BY <1>3, <1>6 DEF Counted
  <2>2. Cardinality(Counted(parts, n) \cup {n + 1}) = Cardinality(Counted(parts, n)) + 1
    BY <1>2, <1>4, FS_AddElement
  <2> QED
    BY <1>2, <1>6, <2>1, <2>2
<1> QED
  BY <1>5, <1>6

LEMMA TailAfterNext ==
    ASSUME NEW parts, NEW size, JpegMarkers(parts, size), MaxParts \in Nat,
           NEW start \in Nat, NEW n \in start..(Len(parts) - 1),
           NEW t, TailAfter(parts, start, n, t),
           n # start => parts[n].kind # "EOI"
    PROVE  TailAfter(parts, start, n + 1, ScanStep(t, parts[n + 1], n + 1))
<1> DEFINE c == parts[n + 1]
           m == n + 1
           next == ScanStep(t, c, m)
           error == ScanError(t.n + 1, c)
<1>1. n \in Nat /\ Len(parts) \in Nat /\ n + 1 \in 1..Len(parts) /\ n + 1 # start
      /\ n + 1 # 0
  BY DEF JpegMarkers
<1>2. n + 1 \in (start + 1)..(n + 1)
      /\ \A i \in (start + 1)..(n + 1) : i \in (start + 1)..n \/ i = n + 1
  BY <1>1
<1>3. \A i \in (start + 1)..n : i \in (start + 1)..(n + 1)
  BY <1>1
<1>4. c.whole \in BOOLEAN /\ (c.kind \in Bare => c.whole)
  BY <1>1 DEF JpegMarkers, JpegMarker
<1>5. DOMAIN t = {"error", "n", "eoi"}
  BY DEF TailAfter, TailFields
<1>6. /\ DOMAIN next = {"error", "n", "eoi"}
      /\ (t.error # "none" \/ t.eoi # 0 \/ c.kind = "stuffed") => next = t
      /\ (t.error = "none" /\ t.eoi = 0 /\ c.kind # "stuffed" /\ error # "none")
            => next.error # "none"
      /\ (t.error = "none" /\ t.eoi = 0 /\ c.kind # "stuffed" /\ error = "none") =>
            /\ next.error = "none" /\ next.n = t.n + 1
            /\ next.eoi = (IF c.kind = "EOI" THEN m ELSE 0)
  <2> HIDE DEF c, m
  <2> QED
    BY <1>5, ScanStepIs
<1>7. DOMAIN next = TailFields
  BY <1>6 DEF TailFields
<1>8. Cardinality(Counted(parts, n + 1))
        = IF c.kind = "stuffed" THEN Cardinality(Counted(parts, n))
          ELSE Cardinality(Counted(parts, n)) + 1
  BY <1>1, CountedNext
<1>9. CASE t.error # "none"
  <2>1. next.error # "none"
    BY <1>6, <1>9
  <2>2. ~ \A i \in (start + 1)..(n + 1) : TailSound(parts, i)
    BY <1>3, <1>9 DEF TailAfter
  <2> HIDE DEF next
  <2>3. TailAfter(parts, start, n + 1, next)
    BY <1>7, <2>1, <2>2 DEF TailAfter
  <2> QED
    BY <2>3 DEF next, c, m
<1>10. CASE t.error = "none"
  <2>1. /\ \A i \in (start + 1)..n : TailSound(parts, i)
        /\ t.n = Cardinality(Counted(parts, n)) /\ t.eoi = 0
    BY <1>10 DEF TailAfter
  <2>2. CASE c.kind = "stuffed"
    <3>1. next = t
      BY <1>6, <2>2
    <3>2. \A i \in (start + 1)..(n + 1) : TailSound(parts, i)
      BY <1>2, <2>1, <2>2 DEF TailSound
    <3> HIDE DEF next
    <3>3. TailAfter(parts, start, n + 1, next)
      BY <1>7, <1>8, <1>10, <2>1, <2>2, <3>1, <3>2 DEF TailAfter
    <3> QED
      BY <3>3 DEF next, c, m
  <2>3. CASE c.kind # "stuffed"
    <3>1. error = "none" <=> TailSound(parts, n + 1)
      <4> DEFINE counted == t.n + 1
      <4>1. counted = Cardinality(Counted(parts, n + 1)) /\ counted \in Nat
        BY <1>1, <1>8, <2>1, <2>3, CountedNext
      <4>2. ScanError(counted, c) = "none"
              <=> /\ ~(counted > MaxParts) /\ (c.kind \in Bare \/ c.whole)
                  /\ c.kind \notin {"Exif", "ICC", "MPF", "APP"}
        <5> HIDE DEF counted, c
        <5> QED
          BY ScanErrorIs
      <4>3. ~(counted > MaxParts) <=> Cardinality(Counted(parts, n + 1)) <= MaxParts
        <5> HIDE DEF counted
        <5> QED
          BY <4>1
      <4> HIDE DEF counted
      <4>4. TailSound(parts, n + 1)
              <=> /\ Cardinality(Counted(parts, n + 1)) <= MaxParts /\ c.whole
                  /\ c.kind \notin {"Exif", "ICC", "MPF", "APP"}
        BY <2>3 DEF TailSound
      <4>5. ScanError(counted, c) = "none" <=> TailSound(parts, n + 1)
        BY <1>4, <4>2, <4>3, <4>4
      <4> QED
        BY <4>5 DEF counted
    <3> HIDE DEF next, error
    <3>2. CASE TailSound(parts, n + 1)
      <4>1. /\ next.error = "none" /\ next.n = t.n + 1
            /\ next.eoi = (IF c.kind = "EOI" THEN m ELSE 0)
        BY <1>6, <1>10, <2>1, <2>3, <3>1, <3>2
      <4>2. \A i \in (start + 1)..(n + 1) : TailSound(parts, i)
        BY <1>2, <2>1, <3>2
      <4>3. next.n = Cardinality(Counted(parts, n + 1))
        BY <1>8, <2>1, <2>3, <4>1
      <4>4. next.eoi = IF n + 1 # start /\ parts[n + 1].kind = "EOI" THEN n + 1 ELSE 0
        BY <1>1, <4>1
      <4>5. TailAfter(parts, start, n + 1, next)
        BY <1>7, <4>1, <4>2, <4>3, <4>4 DEF TailAfter
      <4> QED
        BY <4>5 DEF next, c, m
    <3>3. CASE ~TailSound(parts, n + 1)
      <4>1. next.error # "none"
        BY <1>6, <1>10, <2>1, <2>3, <3>1, <3>3
      <4>2. ~ \A i \in (start + 1)..(n + 1) : TailSound(parts, i)
        BY <1>2, <3>3
      <4>3. TailAfter(parts, start, n + 1, next)
        BY <1>7, <4>1, <4>2 DEF TailAfter
      <4> QED
        BY <4>3 DEF next, c, m
    <3> QED
      BY <3>2, <3>3
  <2> QED
    BY <2>2, <2>3
<1> QED
  BY <1>9, <1>10

\* The search up to the first EOI.
LEMMA TailAfterUntil ==
    ASSUME NEW parts, NEW size, JpegMarkers(parts, size), MaxParts \in Nat,
           NEW start \in 0..Len(parts), NEW g,
           TailScan(parts, start, Cardinality(Counted(parts, start)), g),
           NEW k \in start..Len(parts),
           \A j \in (start + 1)..(k - 1) : parts[j].kind # "EOI"
    PROVE  TailAfter(parts, start, k, g[k])
<1> DEFINE P(d) == start + d <= k => TailAfter(parts, start, start + d, g[start + d])
           Q == {d \in Nat : P(d)}
<1>1. Len(parts) \in Nat /\ start \in Nat /\ k \in Nat /\ start <= k /\ k <= Len(parts)
  BY DEF JpegMarkers
<1>2. P(0)
  <2> DEFINE t == TailStart(Cardinality(Counted(parts, start)))
  <2>1. g[start] = t
    BY DEF TailScan
  <2>2. /\ DOMAIN t = TailFields
        /\ t.error = "none" /\ t.n = Cardinality(Counted(parts, start)) /\ t.eoi = 0
    BY DEF TailStart, TailFields
  <2>3. \A i \in (start + 1)..start : FALSE
    BY <1>1
  <2> HIDE DEF t
  <2>4. TailAfter(parts, start, start, t)
    BY <2>2, <2>3 DEF TailAfter
  <2>5. start + 0 = start
    BY <1>1
  <2> QED
    BY <2>1, <2>4, <2>5
<1>3. ASSUME NEW d \in Nat, P(d)
      PROVE  P(d + 1)
  <2>1. SUFFICES ASSUME start + (d + 1) <= k
                 PROVE  TailAfter(parts, start, start + (d + 1), g[start + (d + 1)])
    OBVIOUS
  <2> DEFINE n == start + d
  <2>2. /\ n \in start..(Len(parts) - 1) /\ n + 1 \in (start + 1)..Len(parts) /\ n <= k
        /\ (n + 1) - 1 = n /\ start + (d + 1) = n + 1
        /\ n # start => n \in (start + 1)..(k - 1)
    BY <1>1, <2>1
  <2>3. TailAfter(parts, start, n, g[n])
    BY <1>3, <2>2
  <2> HIDE DEF n
  <2>4. g[n + 1] = ScanStep(g[n], parts[n + 1], n + 1)
    BY <2>2 DEF TailScan
  <2>5. n # start => parts[n].kind # "EOI"
    BY <2>2
  <2>6. TailAfter(parts, start, n + 1, ScanStep(g[n], parts[n + 1], n + 1))
    BY <1>1, <2>2, <2>3, <2>5, TailAfterNext
  <2> QED
    BY <2>2, <2>4, <2>6
<1> HIDE DEF P
<1>4. 0 \in Q /\ \A d \in Nat : d \in Q => d + 1 \in Q
  BY <1>2, <1>3
<1> DEFINE d == k - start
<1>5. d \in Nat /\ start + d = k /\ start + d <= k
  BY <1>1
<1> HIDE DEF d
<1>6. d \in Q
  <2> HIDE DEF Q
  <2> QED
    BY <1>4, <1>5, NatInduct
<1> QED
  BY <1>5, <1>6 DEF P

\* A search that ended stays as it is.
LEMMA TailStops ==
    ASSUME NEW parts, NEW size, JpegMarkers(parts, size), NEW start \in Nat, NEW counted,
           NEW g, TailScan(parts, start, counted, g),
           NEW k \in start..Len(parts), g[k].error # "none" \/ g[k].eoi # 0
    PROVE  g[Len(parts)] = g[k]
<1> DEFINE P(d) == k + d <= Len(parts) => g[k + d] = g[k]
           Q == {d \in Nat : P(d)}
<1>1. Len(parts) \in Nat /\ start \in Nat /\ k \in Nat /\ start <= k /\ k <= Len(parts)
  BY DEF JpegMarkers
<1>2. P(0)
  BY <1>1
<1>3. ASSUME NEW d \in Nat, P(d)
      PROVE  P(d + 1)
  <2>1. SUFFICES ASSUME k + (d + 1) <= Len(parts)
                 PROVE  g[k + (d + 1)] = g[k]
    OBVIOUS
  <2> DEFINE m == k + (d + 1)
  <2>2. m \in (start + 1)..Len(parts) /\ m - 1 = k + d /\ k + d <= Len(parts)
    BY <1>1, <2>1
  <2> HIDE DEF m
  <2>3. g[m] = ScanStep(g[m - 1], parts[m], m)
    BY <2>2 DEF TailScan
  <2>4. g[m - 1] = g[k]
    BY <1>3, <2>2
  <2>5. ScanStep(g[k], parts[m], m) = g[k]
    BY DEF ScanStep
  <2> QED
    BY <2>3, <2>4, <2>5 DEF m
<1> HIDE DEF P
<1>4. 0 \in Q /\ \A d \in Nat : d \in Q => d + 1 \in Q
  BY <1>2, <1>3
<1> DEFINE d == Len(parts) - k
<1>5. d \in Nat /\ k + d = Len(parts) /\ k + d <= Len(parts)
  BY <1>1
<1> HIDE DEF d
<1>6. d \in Q
  <2> HIDE DEF Q
  <2> QED
    BY <1>4, <1>5, NatInduct
<1> QED
  BY <1>5, <1>6 DEF P

\* _jpeg_terminal_eoi finds the end of the list exactly when nothing before it
\* ends the scan or may not follow it.
LEMMA TerminalEOIIs ==
    ASSUME NEW parts, NEW size, JpegMarkers(parts, size), MaxParts \in Nat,
           NEW start \in 0..(Len(parts) - 1)
    PROVE  LET tail == TerminalEOI(parts, start, Cardinality(Counted(parts, start)))
           IN tail.error = "none" /\ tail.eoi = Len(parts)
                <=> /\ \A i \in (start + 1)..Len(parts) : TailSound(parts, i)
                    /\ \A i \in (start + 1)..Len(parts) :
                          parts[i].kind = "EOI" <=> i = Len(parts)
<1> DEFINE N == Len(parts)
           counted == Cardinality(Counted(parts, start))
           tail == TerminalEOI(parts, start, counted)
           sound == \A i \in (start + 1)..N : TailSound(parts, i)
           ends == \A i \in (start + 1)..N : parts[i].kind = "EOI" <=> i = N
<1>1. N \in Nat /\ start \in Nat /\ start < N /\ start \in 0..N /\ N \in (start + 1)..N
      /\ N # start /\ N \in start..N
  <2>1. N \in Nat \ {0} /\ start \in 0..(N - 1)
    BY DEF JpegMarkers
  <2> HIDE DEF N
  <2> QED
    BY <2>1
<1>2. PICK g : TailScan(parts, start, counted, g) /\ tail = g[N]
  <2> HIDE DEF counted
  <2> QED
    BY <1>1, TailScanExists
<1> HIDE DEF tail
<1> DEFINE S == {i \in (start + 1)..(N - 1) : parts[i].kind = "EOI"}
<1>3. CASE S # {}
  <2>1. S \in SUBSET Nat
    BY <1>1
  <2>2. PICK k \in S : \A j \in S : k <= j
    BY <1>3, <2>1, LeastNatural
  <2>3. k \in start..N /\ k # start /\ k # N /\ k # 0 /\ parts[k].kind = "EOI"
        /\ k \in (start + 1)..N
    BY <1>1
  <2>4. \A j \in (start + 1)..(k - 1) : j \in (start + 1)..(N - 1) /\ ~(k <= j)
    BY <1>1
  <2>5. \A j \in (start + 1)..(k - 1) : parts[j].kind # "EOI"
    BY <2>2, <2>4
  <2>6. TailAfter(parts, start, k, g[k])
    BY <1>1, <1>2, <2>3, <2>5, TailAfterUntil
  <2>7. g[k].error # "none" \/ g[k].eoi = k
    BY <2>3, <2>6 DEF TailAfter
  <2>8. g[N] = g[k]
    <3>1. g[k].error # "none" \/ g[k].eoi # 0
      BY <2>3, <2>7
    <3> HIDE DEF counted
    <3> QED
      BY <1>1, <1>2, <2>3, <3>1, TailStops
  <2>9. ~ends
    BY <2>3
  <2>10. ~(tail.error = "none" /\ tail.eoi = N)
    BY <1>2, <2>3, <2>7, <2>8
  <2> QED
    BY <2>9, <2>10 DEF tail
<1>4. CASE S = {}
  <2>1. \A j \in (start + 1)..(N - 1) : parts[j].kind # "EOI"
    BY <1>4
  <2>2. TailAfter(parts, start, N, g[N])
    BY <1>1, <1>2, <2>1, TailAfterUntil
  <2>3. \A i \in (start + 1)..N : i \in (start + 1)..(N - 1) \/ i = N
    BY <1>1
  <2>4. ends <=> parts[N].kind = "EOI"
    BY <1>1, <2>1, <2>3
  <2>5. tail.error = "none" <=> sound
    BY <1>2, <2>2 DEF TailAfter
  <2>6. tail.error = "none" => (tail.eoi = N <=> parts[N].kind = "EOI")
    BY <1>1, <1>2, <2>2 DEF TailAfter
  <2> HIDE DEF ends, sound
  <2>7. tail.error = "none" /\ tail.eoi = N <=> sound /\ ends
    BY <2>4, <2>5, <2>6
  <2> QED
    BY <2>7 DEF tail, ends, sound
<1> QED
  BY <1>3, <1>4

LEMMA MinIs ==
    ASSUME NEW S \in SUBSET Nat, S # {}
    PROVE  Min(S) \in S /\ \A y \in S : Min(S) <= y
<1>1. PICK x \in S : \A y \in S : x <= y
  BY LeastNatural
<1> QED
  BY <1>1 DEF Min

LEMMA MaxIs ==
    ASSUME NEW n \in Nat, NEW S \in SUBSET (1..n), S # {}
    PROVE  Max(S) \in S /\ \A y \in S : y <= Max(S)
<1> DEFINE T == {n - i : i \in S}
<1>1. T \in SUBSET Nat /\ T # {}
  <2>1. \A i \in S : n - i \in Nat
    <3>1. \A i \in S : i \in 1..n
      OBVIOUS
    <3> QED
      BY <3>1
  <2> QED
    BY <2>1
<1>2. PICK t \in T : \A u \in T : t <= u
  BY <1>1, LeastNatural
<1>3. PICK x \in S : t = n - x
  OBVIOUS
<1>4. ASSUME NEW y \in S
      PROVE  y <= x
  <2>1. n - y \in T
    OBVIOUS
  <2>2. n - x <= n - y
    BY <1>2, <1>3, <2>1
  <2>3. x \in Nat /\ y \in Nat
    OBVIOUS
  <2> QED
    BY <2>2, <2>3
<1>5. \E m \in S : \A y \in S : m >= y
  <2>1. \A y \in S : x >= y
    BY <1>4
  <2> QED
    BY <2>1
<1>6. Max(S) \in S /\ \A y \in S : Max(S) >= y
  <2> HIDE DEF T
  <2> QED
    BY <1>5 DEF Max
<1> QED
  BY <1>6

\* The profile a list declares, but for its bound.
DeclaredProfile(parts) ==
    LET profile == Of(parts, {"ICC"})
        total == parts[Min(profile)].total
    IN profile # {} =>
         /\ \A i \in profile : parts[i].total = total
         /\ {parts[i].seq : i \in profile} = 1..total /\ Cardinality(profile) = total
         /\ FlattenSeq([k \in 1..total |->
               parts[CHOOSE i \in profile : parts[i].seq = k].part]) = Pinned

\* Numbered segments are as many as their numbers exactly when no two share one.
LEMMA NumbersAreDistinct ==
    ASSUME NEW profile, IsFiniteSet(profile), NEW total \in Nat, NEW seq,
           {seq[i] : i \in profile} = 1..total
    PROVE  Cardinality(profile) = total
             <=> \A i, j \in profile : seq[i] = seq[j] => i = j
<1> DEFINE number == [i \in profile |-> seq[i]]
<1>1. number \in [profile -> 1..total] /\ \A k \in 1..total : \E i \in profile : number[i] = k
  OBVIOUS
<1>2. number \in Surjection(profile, 1..total)
  BY <1>1 DEF Surjection
<1>3. \A i \in profile : number[i] = seq[i]
  OBVIOUS
<1> HIDE DEF number
<1>4. Cardinality(1..total) = Cardinality(profile) <=> number \in Injection(profile, 1..total)
  BY <1>2, FS_Surjection
<1>5. Cardinality(1..total) = total
  BY FS_Interval, 1 \in Int
<1>6. number \in Injection(profile, 1..total)
        <=> \A i, j \in profile : number[i] = number[j] => i = j
  BY <1>1 DEF Injection, IsInjective
<1> QED
  BY <1>3, <1>4, <1>5, <1>6

\* What was kept is the declared profile.
LEMMA ProfileIs ==
    ASSUME NEW parts, NEW size, JpegMarkers(parts, size), NEW n \in 1..Len(parts),
           \A i \in 1..Len(parts) : parts[i].kind = "ICC" => i \in 1..n,
           NEW s,
           s.color <=> \A i \in 1..n : Continues(parts, i),
           s.color => Kept(parts, n, s)
    PROVE  (/\ s.color
            /\ s.total # 0 => DOMAIN s.parts = 1..s.total /\ FlattenSeq(s.parts) = Pinned)
             <=> DeclaredProfile(parts)
<1> DEFINE profile == Of(parts, {"ICC"})
           total == parts[Min(profile)].total
           made == [k \in 1..total |-> parts[CHOOSE i \in profile : parts[i].seq = k].part]
           whole == s.total # 0 => DOMAIN s.parts = 1..s.total /\ FlattenSeq(s.parts) = Pinned
           numbers == {parts[i].seq : i \in profile}
<1>1. Len(parts) \in Nat /\ DOMAIN parts = 1..Len(parts)
  BY DEF JpegMarkers
<1>2. \A i : i \in profile <=> i \in 1..n /\ parts[i].kind = "ICC"
  <2>1. \A i \in 1..n : i \in 1..Len(parts)
    BY <1>1
  <2> QED
    BY <1>1, <2>1 DEF Of
<1>3. IsFiniteSet(profile)
  BY <1>1, OfIsFinite
<1>4. \A i \in profile : parts[i].seq \in Nat /\ parts[i].total \in Nat
  BY <1>1 DEF JpegMarkers, JpegMarker, Of
<1>5. DeclaredProfile(parts)
        <=> (profile # {} => /\ \A i \in profile : parts[i].total = total
                             /\ numbers = 1..total /\ Cardinality(profile) = total
                             /\ FlattenSeq(made) = Pinned)
  BY DEF DeclaredProfile
<1>6. profile # {} => Min(profile) \in profile
  <2>1. profile \in SUBSET Nat
    BY <1>2
  <2> HIDE DEF profile
  <2> QED
    BY <2>1, MinIs
<1> HIDE DEF profile
<1>7. CASE profile = {}
  <2>1. \A i \in 1..n : parts[i].kind # "ICC"
    BY <1>2, <1>7
  <2>2. s.color
    BY <2>1 DEF Continues
  <2>3. s.total = 0
    BY <2>1, <2>2 DEF Kept
  <2> QED
    BY <1>5, <1>7, <2>2, <2>3
<1>8. CASE profile # {}
  <2>1. total \in Nat
    BY <1>4, <1>6, <1>8
  <2> HIDE DEF total
  <2>2. numbers = 1..total =>
          (Cardinality(profile) = total
             <=> \A i, j \in profile : parts[i].seq = parts[j].seq => i = j)
    <3> DEFINE seq == [i \in profile |-> parts[i].seq]
    <3>1. \A i \in profile : seq[i] = parts[i].seq
      OBVIOUS
    <3>2. numbers = {seq[i] : i \in profile}
      BY <3>1
    <3> HIDE DEF seq, numbers
    <3>3. {seq[i] : i \in profile} = 1..total =>
            (Cardinality(profile) = total
               <=> \A i, j \in profile : seq[i] = seq[j] => i = j)
      BY <1>3, <2>1, NumbersAreDistinct
    <3> QED
      BY <3>1, <3>2, <3>3
  <2>3. ASSUME s.color, Kept(parts, n, s), \A i \in profile : parts[i].total = total,
               numbers = 1..total, s.total = total, DOMAIN s.parts = 1..total
        PROVE  s.parts = made
    <3>1. ASSUME NEW k \in 1..total
          PROVE  s.parts[k] = parts[CHOOSE i \in profile : parts[i].seq = k].part
      <4> DEFINE i == CHOOSE i \in profile : parts[i].seq = k
      <4>1. \E j \in profile : parts[j].seq = k
        BY <2>3
      <4>2. i \in profile /\ parts[i].seq = k
        BY <4>1
      <4> HIDE DEF i
      <4>3. s.parts[parts[i].seq] = parts[i].part
        BY <1>2, <2>3, <4>2 DEF Kept
      <4>4. s.parts[k] = parts[i].part
        BY <4>2, <4>3
      <4> QED
        BY <4>4 DEF i
    <3>2. s.parts = [k \in 1..total |-> s.parts[k]]
      BY <2>3 DEF Kept
    <3> QED
      BY <3>1, <3>2
  <2> HIDE DEF made
  <2>4. ASSUME s.color, whole
        PROVE  DeclaredProfile(parts)
    <3>1. Kept(parts, n, s) /\ \A i \in 1..n : Continues(parts, i)
      BY <2>4
    <3>2. s.total # 0 /\ \A i \in profile : parts[i].total = s.total
      BY <1>2, <1>8, <3>1 DEF Kept
    <3>3. s.total = total
      BY <1>6, <1>8, <3>2 DEF total
    <3>4. DOMAIN s.parts = 1..total /\ FlattenSeq(s.parts) = Pinned
      BY <2>4, <3>2, <3>3
    <3>5. numbers = 1..total
      <4>1. \A k : k \in DOMAIN s.parts <=> \E i \in profile : parts[i].seq = k
        BY <1>2, <3>1 DEF Kept
      <4> QED
        BY <3>4, <4>1
    <3>6. \A i, j \in profile : parts[i].seq = parts[j].seq => i = j
      <4>1. ASSUME NEW i \in profile, NEW j \in 1..(i - 1), j \in profile
            PROVE  parts[i].seq # parts[j].seq
        <5>1. Continues(parts, i) /\ parts[i].kind = "ICC" /\ parts[j].kind = "ICC"
          BY <1>2, <3>1, <4>1
        <5> QED
          BY <5>1 DEF Continues
      <4>2. \A i, j \in profile : i = j \/ i \in 1..(j - 1) \/ j \in 1..(i - 1)
        BY <1>2
      <4> QED
        BY <4>1, <4>2
    <3>7. Cardinality(profile) = total
      BY <2>2, <3>5, <3>6
    <3>8. s.parts = made
      BY <2>3, <2>4, <3>1, <3>2, <3>3, <3>4, <3>5
    <3> HIDE DEF numbers
    <3> QED
      BY <1>5, <3>2, <3>3, <3>4, <3>5, <3>7, <3>8
  <2>5. ASSUME DeclaredProfile(parts)
        PROVE  s.color /\ whole
    <3>1. /\ \A i \in profile : parts[i].total = total
          /\ numbers = 1..total /\ Cardinality(profile) = total
          /\ FlattenSeq(made) = Pinned
      BY <1>5, <1>8, <2>5
    <3>2. \A i, j \in profile : parts[i].seq = parts[j].seq => i = j
      BY <2>2, <3>1
    <3>3. ASSUME NEW i \in 1..n
          PROVE  Continues(parts, i)
      <4>1. SUFFICES ASSUME parts[i].kind = "ICC"
                     PROVE  /\ parts[i].seq \in 1..parts[i].total
                            /\ \A j \in 1..(i - 1) : parts[j].kind = "ICC" =>
                                  parts[j].seq # parts[i].seq /\ parts[j].total = parts[i].total
        BY DEF Continues
      <4>2. i \in profile /\ parts[i].seq \in numbers
        BY <1>2, <4>1
      <4>3. \A j \in 1..(i - 1) : j \in 1..n /\ j # i
        OBVIOUS
      <4>4. \A j \in 1..(i - 1) : parts[j].kind = "ICC" => j \in profile
        BY <1>2, <4>3
      <4> HIDE DEF numbers
      <4> QED
        BY <3>1, <3>2, <4>2, <4>3, <4>4
    <3>4. s.color /\ Kept(parts, n, s)
      BY <3>3
    <3>5. s.total = total
      <4>1. PICK i \in profile : TRUE
        BY <1>8
      <4> QED
        BY <1>2, <3>1, <3>4, <4>1 DEF Kept
    <3>6. DOMAIN s.parts = 1..total
      <4>1. \A k : k \in DOMAIN s.parts <=> \E i \in profile : parts[i].seq = k
        BY <1>2, <3>4 DEF Kept
      <4>2. \A k : k \in numbers <=> \E i \in profile : parts[i].seq = k
        OBVIOUS
      <4> HIDE DEF numbers
      <4> QED
        BY <3>1, <4>1, <4>2
    <3>7. s.parts = made
      BY <2>3, <3>1, <3>4, <3>5, <3>6
    <3> QED
      BY <3>1, <3>4, <3>5, <3>6, <3>7
  <2> QED
    BY <2>4, <2>5
<1> QED
  BY <1>7, <1>8

\* The last frame before the scan is one of a list that has any.
LEMMA LastFrameIs ==
    ASSUME NEW parts, NEW size, JpegMarkers(parts, size), NEW k, FirstScan(parts, k)
    PROVE  LET frames == {i \in Of(parts, {"SOF"}) : i < k}
           IN /\ frames # {} => LastFrame(parts, k, Max(frames))
              /\ \A i : LastFrame(parts, k, i) => frames # {} /\ i = Max(frames)
<1> DEFINE frames == {i \in Of(parts, {"SOF"}) : i < k}
<1>1. Len(parts) \in Nat /\ DOMAIN parts = 1..Len(parts) /\ k \in 1..(Len(parts) - 1)
      /\ parts[k].kind = "SOS"
  BY DEF JpegMarkers, FirstScan
<1>2. \A i : i \in frames <=> i \in 1..k /\ parts[i].kind = "SOF"
  <2>1. \A i \in 1..Len(parts) : i < k <=> i \in 1..k /\ i # k
    BY <1>1
  <2>2. \A i \in 1..k : i \in 1..Len(parts)
    BY <1>1
  <2>3. \A i : i \in frames <=> i \in 1..Len(parts) /\ parts[i].kind = "SOF" /\ i < k
    BY <1>1 DEF Of
  <2> HIDE DEF frames
  <2> QED
    BY <1>1, <2>1, <2>2, <2>3
<1> HIDE DEF frames
<1>3. frames \in SUBSET (1..k) /\ k \in Nat
  BY <1>1, <1>2
<1>4. frames # {} => Max(frames) \in frames /\ \A j \in frames : j <= Max(frames)
  BY <1>3, MaxIs
<1>5. ASSUME frames # {}
      PROVE  LastFrame(parts, k, Max(frames))
  <2> DEFINE m == Max(frames)
  <2>1. m \in 1..k /\ parts[m].kind = "SOF"
    BY <1>2, <1>4, <1>5
  <2>2. ASSUME NEW j \in (m + 1)..k, parts[j].kind = "SOF"
        PROVE  FALSE
    <3> HIDE DEF m
    <3>1. j \in 1..k /\ ~(j <= m)
      BY <1>3, <2>1
    <3>2. j \in frames
      BY <1>2, <2>2, <3>1
    <3> QED
      BY <1>4, <3>1, <3>2 DEF m
  <2> QED
    BY <2>1, <2>2 DEF LastFrame
<1>6. ASSUME NEW i, LastFrame(parts, k, i)
      PROVE  frames # {} /\ i = Max(frames)
  <2>1. i \in frames
    BY <1>2, <1>6 DEF LastFrame
  <2>2. Max(frames) \in 1..k /\ parts[Max(frames)].kind = "SOF" /\ i <= Max(frames)
    BY <1>2, <1>4, <2>1
  <2>3. i \in 1..k
    BY <1>6 DEF LastFrame
  <2>4. i # Max(frames) => Max(frames) \in (i + 1)..k
    BY <1>3, <2>2, <2>3
  <2> QED
    BY <1>6, <2>1, <2>2, <2>4 DEF LastFrame
<1> QED
  BY <1>5, <1>6 DEF frames

\* The JPEG profile, one marker at a time.
LEMMA DeclaredJpegIs ==
    ASSUME NEW parts, NEW size, JpegMarkers(parts, size), NEW k, FirstScan(parts, k)
    PROVE  DeclaredJpeg(parts) <=>
              /\ Cardinality(Counted(parts, Len(parts))) <= MaxParts
              /\ \A i \in 1..Len(parts) : parts[i].whole
              /\ \A i \in 1..Len(parts) : (i > k /\ parts[i].kind = "EOI") <=> i = Len(parts)
              /\ \A i \in 1..Len(parts) : parts[i].kind \in {"ICC", "Exif", "APP", "MPF"} => i < k
              /\ \A i \in 1..Len(parts) : parts[i].kind # "MPF"
              /\ Once(parts, "Exif")
              /\ \E i : LastFrame(parts, k, i) /\ parts[i].value = "8 bits"
              /\ Bounded(parts, Len(parts)) /\ DeclaredProfile(parts)
<1> DEFINE N == Len(parts)
           scan == Min(Of(parts, {"SOS"}))
           frames == {i \in Of(parts, {"SOF"}) : i < scan}
           last == Max(frames)
           marked == Of(parts, {"SOS"}) # {}
           large == Cardinality(DOMAIN parts \ Of(parts, {"stuffed"})) <= MaxParts
           whole == \A i \in 1..N : parts[i].whole
           end == {i \in Of(parts, {"EOI"}) : i > scan} = {N}
           early == \A i \in Of(parts, {"ICC", "Exif", "APP", "MPF"}) : i < scan
           single == Of(parts, {"MPF"}) = {}
           exif == AtMostOne(Of(parts, {"Exif"}))
           frame == frames # {} /\ parts[last].value = "8 bits"
           bounded == \A i \in Of(parts, {"ICC"}) : parts[i].value # "large"
           profile == DeclaredProfile(parts)
<1>1. N \in Nat /\ DOMAIN parts = 1..N /\ N \in 1..N /\ k \in 1..N /\ k \in Nat /\ k < N
  <2>1. N \in Nat \ {0} /\ DOMAIN parts = 1..N /\ k \in 1..(N - 1)
    BY DEF JpegMarkers, FirstScan
  <2> HIDE DEF N
  <2> QED
    BY <2>1
<1>2. DeclaredJpeg(parts)
        <=> /\ marked /\ large /\ whole /\ end /\ early /\ single /\ exif /\ frame
            /\ bounded /\ profile
  BY DEF DeclaredJpeg, DeclaredProfile
<1>3. \A kinds : \A i : i \in Of(parts, kinds) <=> i \in 1..N /\ parts[i].kind \in kinds
  BY <1>1 DEF Of
<1>4. marked /\ scan = k
  <2> DEFINE S == Of(parts, {"SOS"})
  <2>1. k \in S /\ \A j \in S : j \in 1..N /\ parts[j].kind = "SOS"
    BY <1>1, <1>3 DEF FirstScan
  <2>2. S \in SUBSET Nat
    BY <2>1
  <2> HIDE DEF S
  <2>3. Min(S) \in S /\ \A y \in S : Min(S) <= y
    BY <2>1, <2>2, MinIs
  <2>4. Min(S) \in 1..N /\ parts[Min(S)].kind = "SOS" /\ Min(S) <= k
    BY <2>1, <2>3
  <2>5. Min(S) # k => Min(S) \in 1..(k - 1)
    BY <1>1, <2>4
  <2>6. Min(S) = k
    BY <2>4, <2>5 DEF FirstScan
  <2> QED
    BY <2>1, <2>6 DEF S
<1> HIDE DEF scan
<1>5. large <=> Cardinality(Counted(parts, N)) <= MaxParts
  <2>1. DOMAIN parts \ Of(parts, {"stuffed"}) = Counted(parts, N)
    BY <1>1 DEF Of, Counted
  <2> QED
    BY <2>1
<1>6. end <=> \A i \in 1..N : (i > k /\ parts[i].kind = "EOI") <=> i = N
  <2> DEFINE S == {i \in Of(parts, {"EOI"}) : i > scan}
  <2>1. \A i : i \in S <=> i \in 1..N /\ parts[i].kind = "EOI" /\ i > k
    BY <1>3, <1>4
  <2> HIDE DEF S
  <2>2. S = {N} <=> \A i : i \in S <=> i = N
    OBVIOUS
  <2>3. S = {N} <=> \A i \in 1..N : (i > k /\ parts[i].kind = "EOI") <=> i = N
    BY <1>1, <2>1, <2>2
  <2> QED
    BY <2>3 DEF S
<1>7. early <=> \A i \in 1..N : parts[i].kind \in {"ICC", "Exif", "APP", "MPF"} => i < k
  BY <1>3, <1>4
<1>8. single <=> \A i \in 1..N : parts[i].kind # "MPF"
  BY <1>3
<1>9. exif <=> Once(parts, "Exif")
  BY <1>1, OnceIs
<1>10. frame <=> \E i : LastFrame(parts, k, i) /\ parts[i].value = "8 bits"
  <2> DEFINE F == {i \in Of(parts, {"SOF"}) : i < k}
  <2>1. /\ F # {} => LastFrame(parts, k, Max(F))
        /\ \A i : LastFrame(parts, k, i) => F # {} /\ i = Max(F)
    BY LastFrameIs
  <2>2. F = frames
    BY <1>4
  <2> HIDE DEF F
  <2>3. (F # {} /\ parts[Max(F)].value = "8 bits")
           <=> \E i : LastFrame(parts, k, i) /\ parts[i].value = "8 bits"
    BY <2>1
  <2> QED
    BY <2>2, <2>3
<1>11. bounded <=> Bounded(parts, N)
  BY <1>3 DEF Bounded
<1> HIDE DEF marked, large, end, early, single, exif, frame, bounded
<1> QED
  BY <1>2, <1>4, <1>5, <1>6, <1>7, <1>8, <1>9, <1>10, <1>11

\* A declared list has a scan before its end.
LEMMA DeclaredScan ==
    ASSUME NEW parts, NEW size, JpegMarkers(parts, size), DeclaredJpeg(parts)
    PROVE  \E k : FirstScan(parts, k)
<1> DEFINE N == Len(parts)
           S == Of(parts, {"SOS"})
           k == Min(S)
<1>1. N \in Nat /\ DOMAIN parts = 1..N
  BY DEF JpegMarkers
<1>2. S # {} /\ {i \in Of(parts, {"EOI"}) : i > k} = {N}
  BY DEF DeclaredJpeg
<1>3. \A i : i \in S <=> i \in 1..N /\ parts[i].kind = "SOS"
  BY <1>1 DEF Of
<1>4. N > k
  BY <1>2
<1>5. S \in SUBSET Nat
  BY <1>3
<1> HIDE DEF S
<1>6. k \in S /\ \A y \in S : k <= y
  BY <1>2, <1>5, MinIs
<1> HIDE DEF k
<1>7. k \in 1..N /\ parts[k].kind = "SOS"
  BY <1>3, <1>6
<1>8. k \in 1..(N - 1)
  BY <1>1, <1>4, <1>7
<1>9. ASSUME NEW j \in 1..(k - 1)
      PROVE  parts[j].kind # "SOS"
  <2>1. j \in 1..N /\ ~(k <= j)
    BY <1>1, <1>7
  <2> QED
    BY <1>3, <1>6, <2>1
<1> QED
  BY <1>7, <1>8, <1>9 DEF FirstScan

LEMMA CountedGrows ==
    ASSUME NEW parts, NEW m \in Nat, NEW n \in Nat, m <= n
    PROVE  Cardinality(Counted(parts, m)) <= Cardinality(Counted(parts, n))
<1>1. \A i \in 1..m : i \in 1..n
  OBVIOUS
<1>2. Counted(parts, m) \in SUBSET Counted(parts, n)
  BY <1>1 DEF Counted
<1>3. IsFiniteSet(Counted(parts, n))
  BY CountedNext
<1> QED
  BY <1>2, <1>3, FS_Subset

\* Every marker before the scan data counts.
LEMMA CountedBefore ==
    ASSUME NEW parts, NEW size, JpegMarkers(parts, size), NEW k, FirstScan(parts, k)
    PROVE  \A i \in 1..k : Cardinality(Counted(parts, i)) = i
<1>1. k \in Nat /\ Len(parts) \in Nat /\ \A i \in 1..k : i \in 1..Len(parts)
  BY DEF JpegMarkers, FirstScan
<1>2. ASSUME NEW i \in 1..k
      PROVE  parts[i].kind # "stuffed"
  <2>1. \A j \in 1..(i - 1) : j \in 1..(k - 1)
    BY <1>1
  <2>2. \A j \in 1..(i - 1) : parts[j].kind # "SOS"
    BY <2>1 DEF FirstScan
  <2>3. i \in 1..Len(parts)
    BY <1>1
  <2> QED
    BY <2>2, <2>3 DEF JpegMarkers
<1>3. ASSUME NEW i \in 1..k
      PROVE  Cardinality(Counted(parts, i)) = i
  <2>1. i \in Nat /\ \A j \in 1..i : j \in 1..k
    BY <1>1
  <2>2. Counted(parts, i) = 1..i
    BY <1>2, <2>1 DEF Counted
  <2>3. Cardinality(1..i) = i
    BY <2>1, FS_Interval, 1 \in Int
  <2> QED
    BY <2>2, <2>3
<1> QED
  BY <1>3

\* Both scans let a list pass exactly when its markers are those of a declared
\* one.
LEMMA JpegSoundAll ==
    ASSUME NEW parts, NEW size, JpegMarkers(parts, size), MaxParts \in Nat,
           NEW k, FirstScan(parts, k)
    PROVE  (/\ \A i \in 1..k : JpegSound(parts, i)
            /\ \A i \in (k + 1)..Len(parts) : TailSound(parts, i)
            /\ \A i \in (k + 1)..Len(parts) : parts[i].kind = "EOI" <=> i = Len(parts))
             <=> /\ Cardinality(Counted(parts, Len(parts))) <= MaxParts
                 /\ \A i \in 1..Len(parts) : parts[i].whole
                 /\ \A i \in 1..Len(parts) : (i > k /\ parts[i].kind = "EOI") <=> i = Len(parts)
                 /\ \A i \in 1..Len(parts) :
                       parts[i].kind \in {"ICC", "Exif", "APP", "MPF"} => i < k
                 /\ \A i \in 1..Len(parts) : parts[i].kind # "MPF"
                 /\ Once(parts, "Exif")
<1> DEFINE N == Len(parts)
           ends == \A i \in 1..N : (i > k /\ parts[i].kind = "EOI") <=> i = N
<1>1. /\ N \in Nat /\ k \in Nat /\ k \in 1..N /\ k < N /\ N \in 1..N /\ N \in (k + 1)..N
      /\ \A i \in 1..N : i \in 1..k \/ i \in (k + 1)..N
      /\ \A i \in 1..k : i \in 1..N /\ ~(i > k) /\ i # N
      /\ \A i \in (k + 1)..N : i \in 1..N /\ i > k /\ ~(i < k) /\ i \in Nat /\ i <= N
  <2>1. N \in Nat /\ k \in 1..(N - 1)
    BY DEF JpegMarkers, FirstScan
  <2> HIDE DEF N
  <2> QED
    BY <2>1
<1>2. parts[k].kind = "SOS"
  BY DEF FirstScan
<1>3. (\A i \in (k + 1)..N : parts[i].kind = "EOI" <=> i = N) <=> ends
  <2> HIDE DEF N
  <2> QED
    BY <1>1
<1>4. \A i \in 1..N : parts[i].kind \in {"EOI", "stuffed"} => parts[i].whole
  BY DEF JpegMarkers, JpegMarker, Bare
<1>5. \A i \in 1..k : Cardinality(Counted(parts, i)) = i
  BY CountedBefore
<1>6. ASSUME \A i \in 1..k : JpegSound(parts, i), \A i \in (k + 1)..N : TailSound(parts, i),
             ends
      PROVE  /\ Cardinality(Counted(parts, N)) <= MaxParts
             /\ \A i \in 1..N : parts[i].whole
             /\ \A i \in 1..N : parts[i].kind \in {"ICC", "Exif", "APP", "MPF"} => i < k
             /\ \A i \in 1..N : parts[i].kind # "MPF"
             /\ Once(parts, "Exif")
  <2>1. parts[N].kind = "EOI"
    BY <1>1, <1>6
  <2>2. TailSound(parts, N)
    BY <1>1, <1>6
  <2>3. Cardinality(Counted(parts, N)) <= MaxParts
    BY <2>1, <2>2 DEF TailSound
  <2>4. \A i \in 1..k : parts[i].whole /\ parts[i].kind # "MPF"
    BY <1>6 DEF JpegSound
  <2>5. \A i \in (k + 1)..N : parts[i].whole /\ parts[i].kind \notin {"Exif", "ICC", "MPF", "APP"}
    BY <1>1, <1>4, <1>6 DEF TailSound
  <2>6. \A i \in 1..N : parts[i].whole /\ parts[i].kind # "MPF"
    BY <1>1, <2>4, <2>5
  <2>7. ASSUME NEW i \in 1..N, parts[i].kind \in {"ICC", "Exif", "APP", "MPF"}
        PROVE  i < k
    <3>1. i \in 1..k
      BY <1>1, <2>5, <2>7
    <3>2. i # k
      BY <1>2, <2>7
    <3> QED
      BY <1>1, <3>1, <3>2
  <2>8. \A i \in 1..N : parts[i].kind = "Exif" => i \in 1..k
    BY <1>1, <2>5
  <2>9. \A i \in 1..N : parts[i].kind = "Exif" => \A j \in 1..(i - 1) : parts[j].kind # "Exif"
    BY <1>6, <2>8 DEF JpegSound
  <2>10. Once(parts, "Exif")
    BY <1>1, <2>9, LaterRefuses
  <2> QED
    BY <2>3, <2>6, <2>7, <2>10
<1>7. ASSUME Cardinality(Counted(parts, N)) <= MaxParts,
             \A i \in 1..N : parts[i].whole, ends,
             \A i \in 1..N : parts[i].kind \in {"ICC", "Exif", "APP", "MPF"} => i < k,
             \A i \in 1..N : parts[i].kind # "MPF",
             Once(parts, "Exif")
      PROVE  /\ \A i \in 1..k : JpegSound(parts, i)
             /\ \A i \in (k + 1)..N : TailSound(parts, i)
  <2>1. \A i \in 1..N : /\ Cardinality(Counted(parts, i)) <= Cardinality(Counted(parts, N))
                        /\ Cardinality(Counted(parts, i)) \in Nat
    <3>1. \A i \in 1..N : i \in Nat /\ i <= N
      OBVIOUS
    <3> HIDE DEF N
    <3> QED
      BY <1>1, <3>1, CountedGrows, CountedNext
  <2>2. Cardinality(Counted(parts, N)) \in Nat
    BY <1>1, <2>1
  <2>3. \A i \in 1..N : Cardinality(Counted(parts, i)) <= MaxParts
    <3> HIDE DEF N
    <3> QED
      BY <1>7, <2>1, <2>2
  <2>4. ASSUME NEW i \in 1..k
        PROVE  JpegSound(parts, i)
    <3>1. i \in 1..N /\ i <= MaxParts
      BY <1>1, <1>5, <2>3
    <3>2. parts[i].kind = "Exif" => \A j \in 1..(i - 1) : parts[j].kind # "Exif"
      BY <1>1, <1>7, <3>1, OnceRefuses
    <3>3. parts[i].whole /\ parts[i].kind # "MPF"
      BY <1>7, <3>1
    <3> QED
      BY <3>1, <3>2, <3>3 DEF JpegSound
  <2>5. ASSUME NEW i \in (k + 1)..N
        PROVE  TailSound(parts, i)
    <3>1. i \in 1..N /\ ~(i < k)
      BY <1>1
    <3>2. parts[i].whole /\ parts[i].kind \notin {"Exif", "ICC", "MPF", "APP"}
      BY <1>7, <3>1
    <3> QED
      BY <2>3, <3>1, <3>2 DEF TailSound
  <2> QED
    BY <2>4, <2>5
<1> HIDE DEF ends
<1> QED
  BY <1>3, <1>6, <1>7 DEF ends

\* What a container must be to be compiled, with the contract on colours.
Compilable(container) == ~IsFailed(container) /\ container.color

\* The scans of a list, one after the other.
LEMMA JpegContainerIs ==
    ASSUME NEW parts, NEW s
    PROVE  LET tail == TerminalEOI(parts, s.scan, s.n)
               container == JpegContainer(parts, s)
               profile == s.total # 0 => /\ DOMAIN s.parts = 1..s.total
                                         /\ FlattenSeq(s.parts) = Pinned
           IN /\ ~IsFailed(container)
                    <=> /\ Last(parts).kind = "EOI" /\ s.error = "none" /\ s.scan # 0
                        /\ tail.error = "none" /\ tail.eoi = Len(parts) /\ s.w # 0
              /\ ~IsFailed(container) =>
                    /\ container.w = s.w /\ container.h = s.h
                    /\ container.color = (s.color /\ ~s.deep /\ profile)
<1> DEFINE tail == TerminalEOI(parts, s.scan, s.n)
           container == JpegContainer(parts, s)
           profile == s.total # 0 => /\ DOMAIN s.parts = 1..s.total
                                     /\ FlattenSeq(s.parts) = Pinned
           colors == s.color /\ ~s.deep /\ profile
           ended == /\ Last(parts).kind = "EOI" /\ s.error = "none" /\ s.scan # 0
                    /\ tail.error = "none" /\ tail.eoi = Len(parts) /\ s.w # 0
<1>1. CASE ended
  <2>1. container = [format |-> "JPEG", w |-> s.w, h |-> s.h, color |-> colors]
    BY <1>1 DEF JpegContainer
  <2> HIDE DEF container, colors
  <2>2. ~IsFailed(container) /\ container.w = s.w /\ container.h = s.h
        /\ container.color = colors
    BY <2>1 DEF IsFailed
  <2> QED
    BY <1>1, <2>2 DEF container, colors
<1>2. CASE ~ended
  <2>1. \E code : container = Failed(code)
    <3> HIDE DEF tail
    <3> QED
      BY <1>2 DEF JpegContainer, tail
  <2>2. IsFailed(container)
    BY <2>1 DEF Failed, IsFailed
  <2> QED
    BY <1>2, <2>2
<1> QED
  BY <1>1, <1>2

\* _preflight_jpeg passes, with the colour contract, exactly the declared lists.
LEMMA PreflightJpegIs ==
    ASSUME NEW parts, NEW size, JpegMarkers(parts, size), MaxParts \in Nat, size[1] # 0
    PROVE  /\ Compilable(PreflightJpeg(parts)) <=> DeclaredJpeg(parts)
           /\ Compilable(PreflightJpeg(parts)) =>
                 PreflightJpeg(parts).w = size[1] /\ PreflightJpeg(parts).h = size[2]
<1> DEFINE N == Len(parts)
<1>1. N \in Nat \ {0}
  BY DEF JpegMarkers
<1>2. PICK f : JpegScan(parts, f) /\ PreflightJpeg(parts) = JpegContainer(parts, f[N - 1])
  BY <1>1, JpegScanExists
<1> DEFINE s == f[N - 1]
           container == JpegContainer(parts, s)
           tail == TerminalEOI(parts, s.scan, s.n)
           profile == s.total # 0 => /\ DOMAIN s.parts = 1..s.total
                                     /\ FlattenSeq(s.parts) = Pinned
           ended == /\ Last(parts).kind = "EOI" /\ s.error = "none" /\ s.scan # 0
                    /\ tail.error = "none" /\ tail.eoi = N /\ s.w # 0
<1>3. /\ ~IsFailed(container) <=> ended
      /\ ~IsFailed(container) => /\ container.w = s.w /\ container.h = s.h
                                 /\ container.color = (s.color /\ ~s.deep /\ profile)
  <2> HIDE DEF s
  <2> QED
    BY JpegContainerIs
<1>4. /\ \A k : FirstScan(parts, k) =>
            /\ s.error = "none" => \A i \in 1..k : JpegSound(parts, i)
            /\ (\A i \in 1..k : JpegSound(parts, i)) /\ Bounded(parts, k) => s.error = "none"
            /\ s.error = "none" => /\ s.scan = k /\ JpegSeen(parts, k, s, size)
                                   /\ s.color => Bounded(parts, k)
      /\ (\A k : ~FirstScan(parts, k)) => s.error # "none" \/ s.scan = 0
  BY <1>2, JpegScanned
<1> HIDE DEF container, tail
<1>5. CASE \A k : ~FirstScan(parts, k)
  <2>1. ~Compilable(container)
    BY <1>3, <1>4, <1>5 DEF Compilable
  <2>2. ~DeclaredJpeg(parts)
    BY <1>5, DeclaredScan
  <2> QED
    BY <1>2, <2>1, <2>2 DEF container
<1>6. ASSUME NEW k, FirstScan(parts, k)
      PROVE  /\ Compilable(container) <=> DeclaredJpeg(parts)
             /\ Compilable(container) => container.w = size[1] /\ container.h = size[2]
  <2> DEFINE sounds == \A i \in 1..k : JpegSound(parts, i)
             tails == \A i \in (k + 1)..N : TailSound(parts, i)
             ends == \A i \in (k + 1)..N : parts[i].kind = "EOI" <=> i = N
             frame == \E i : LastFrame(parts, k, i) /\ parts[i].value = "8 bits"
  <2>1. /\ k \in Nat /\ k \in 1..N /\ k \in 0..(N - 1) /\ k # 0 /\ N \in (k + 1)..N
        /\ parts[k].kind = "SOS" /\ \A i \in 1..k : i \in 1..N
    <3>1. k \in 1..(N - 1) /\ parts[k].kind = "SOS"
      BY <1>6 DEF FirstScan
    <3> HIDE DEF N
    <3> QED
      BY <1>1, <3>1
  <2>2. DeclaredJpeg(parts)
          <=> sounds /\ tails /\ ends /\ frame /\ Bounded(parts, N) /\ DeclaredProfile(parts)
    <3>1. DeclaredJpeg(parts) <=>
              /\ Cardinality(Counted(parts, N)) <= MaxParts
              /\ \A i \in 1..N : parts[i].whole
              /\ \A i \in 1..N : (i > k /\ parts[i].kind = "EOI") <=> i = N
              /\ \A i \in 1..N : parts[i].kind \in {"ICC", "Exif", "APP", "MPF"} => i < k
              /\ \A i \in 1..N : parts[i].kind # "MPF"
              /\ Once(parts, "Exif")
              /\ frame
              /\ Bounded(parts, N) /\ DeclaredProfile(parts)
      BY <1>6, DeclaredJpegIs
    <3>2. sounds /\ tails /\ ends <=>
              /\ Cardinality(Counted(parts, N)) <= MaxParts
              /\ \A i \in 1..N : parts[i].whole
              /\ \A i \in 1..N : (i > k /\ parts[i].kind = "EOI") <=> i = N
              /\ \A i \in 1..N : parts[i].kind \in {"ICC", "Exif", "APP", "MPF"} => i < k
              /\ \A i \in 1..N : parts[i].kind # "MPF"
              /\ Once(parts, "Exif")
      BY <1>6, JpegSoundAll
    <3> HIDE DEF sounds, tails, ends, frame
    <3> QED
      BY <3>1, <3>2
  <2>3. /\ s.error = "none" => sounds
        /\ sounds /\ Bounded(parts, k) => s.error = "none"
    BY <1>4, <1>6
  <2>4. s.error # "none" => ~Compilable(container) /\ ~DeclaredJpeg(parts)
    <3>1. Bounded(parts, N) => Bounded(parts, k)
      BY <2>1 DEF Bounded
    <3> HIDE DEF sounds, tails, ends, frame
    <3> QED
      BY <1>3, <2>2, <2>3, <3>1 DEF Compilable
  <2>5. ASSUME s.error = "none"
        PROVE  /\ Compilable(container) <=> DeclaredJpeg(parts)
               /\ Compilable(container) => container.w = size[1] /\ container.h = size[2]
    <3>1. /\ s.error = "none" /\ s.scan = k /\ s.scan # 0 /\ JpegSeen(parts, k, s, size)
          /\ s.color => Bounded(parts, k)
      BY <1>4, <1>6, <2>1, <2>5
    <3>2. sounds
      BY <2>3, <2>5
    <3> HIDE DEF s
    <3>3. s.n = k /\ s.n = Cardinality(Counted(parts, k))
      <4>1. s.n = k
        BY <3>1 DEF JpegSeen
      <4>2. k \in 1..k
        BY <2>1
      <4>3. Cardinality(Counted(parts, k)) = k
        BY <1>6, <4>2, CountedBefore
      <4> QED
        BY <4>1, <4>3
    <3>4. (tail.error = "none" /\ tail.eoi = N) <=> tails /\ ends
      <4> DEFINE found == TerminalEOI(parts, k, Cardinality(Counted(parts, k)))
      <4>1. (found.error = "none" /\ found.eoi = N) <=> tails /\ ends
        BY <2>1, TerminalEOIIs
      <4>2. tail = found
        BY <3>1, <3>3 DEF tail
      <4> HIDE DEF found, tails, ends
      <4> QED
        BY <4>1, <4>2
    <3>5. ends => Last(parts).kind = "EOI"
      BY <2>1 DEF Last
    <3>6. /\ s.w # 0 <=> \E i \in 1..k : parts[i].kind = "SOF"
          /\ s.w # 0 => s.w = size[1] /\ s.h = size[2]
      <4>1. /\ s.w = IF \E i \in 1..k : parts[i].kind = "SOF" THEN size[1] ELSE 0
            /\ s.h = IF \E i \in 1..k : parts[i].kind = "SOF" THEN size[2] ELSE 0
        BY <3>1 DEF JpegSeen
      <4> QED
        BY <4>1
    <3>7. (s.w # 0 /\ ~s.deep) <=> frame
      <4> DEFINE F == {i \in Of(parts, {"SOF"}) : i < k}
      <4>1. /\ F # {} => LastFrame(parts, k, Max(F))
            /\ \A i : LastFrame(parts, k, i) => F # {} /\ i = Max(F)
        BY <1>6, LastFrameIs
      <4>2. F # {} <=> \E i \in 1..k : parts[i].kind = "SOF"
        <5>1. DOMAIN parts = 1..N
          BY DEF JpegMarkers
        <5>2. \A i \in 1..N : i < k <=> i \in 1..k /\ i # k
          BY <2>1
        <5>3. \A i : i \in F <=> i \in 1..k /\ parts[i].kind = "SOF"
          BY <2>1, <5>1, <5>2 DEF Of
        <5> HIDE DEF F
        <5> QED
          BY <5>3
      <4> HIDE DEF F
      <4>3. ASSUME NEW i, LastFrame(parts, k, i)
            PROVE  ~s.deep <=> parts[i].value = "8 bits"
        <5>1. s.deep = (parts[i].value = "deep")
          BY <3>1, <4>3 DEF JpegSeen
        <5>2. parts[i].value \in {"8 bits", "deep"}
          BY <2>1, <4>3 DEF LastFrame, JpegMarkers, JpegMarker
        <5> QED
          BY <5>1, <5>2
      <4> QED
        BY <3>6, <4>1, <4>2, <4>3
    <3>8. tails => ((s.color /\ profile) <=> DeclaredProfile(parts))
      <4>1. SUFFICES ASSUME tails
                     PROVE  (s.color /\ profile) <=> DeclaredProfile(parts)
        OBVIOUS
      <4>2. \A i \in 1..N : parts[i].kind = "ICC" => i \in 1..k
        <5>1. \A i \in 1..N : i \in 1..k \/ i \in (k + 1)..N
          BY <2>1
        <5> QED
          BY <4>1, <5>1 DEF TailSound
      <4>3. /\ s.color <=> \A i \in 1..k : Continues(parts, i)
            /\ s.color => Kept(parts, k, s)
        BY <3>1 DEF JpegSeen
      <4> QED
        BY <2>1, <4>2, <4>3, ProfileIs
    <3>9. tails /\ Bounded(parts, k) => Bounded(parts, N)
      <4>1. \A i \in 1..N : i \in 1..k \/ i \in (k + 1)..N
        BY <2>1
      <4> QED
        BY <4>1 DEF TailSound, Bounded
    <3> HIDE DEF profile, tails, ends, frame, sounds
    <3>10. ended <=> Last(parts).kind = "EOI" /\ tails /\ ends /\ s.w # 0
      BY <3>1, <3>4
    <3> HIDE DEF ended
    <3>11. Compilable(container) <=> tails /\ ends /\ s.w # 0 /\ s.color /\ ~s.deep /\ profile
      BY <1>3, <3>5, <3>10 DEF Compilable
    <3>12. Compilable(container) <=> DeclaredJpeg(parts)
      BY <2>2, <3>1, <3>2, <3>7, <3>8, <3>9, <3>11
    <3>13. Compilable(container) => container.w = size[1] /\ container.h = size[2]
      BY <1>3, <3>6, <3>11 DEF Compilable
    <3> QED
      BY <3>12, <3>13
  <2> QED
    BY <2>4, <2>5
<1> QED
  BY <1>2, <1>5, <1>6 DEF container

\* An encoded image as the compiler meets it: chunks or markers within the bounds
\* on sizes, and a decoder that reports the size and the profile they declare.
MediumIsOne(medium) ==
    LET image == medium.image
        size == <<image.w, image.h>>
    IN /\ medium.format \in {"PNG", "JPEG"}
       /\ medium.format = "PNG" => PngChunks(medium.parts, size)
       /\ medium.format = "JPEG" => JpegMarkers(medium.parts, size)
       /\ image.w \in Nat \ {0} /\ image.h \in Nat \ {0}
       /\ DOMAIN image.px = (0..(image.w - 1)) \X (0..(image.h - 1))
       /\ image.readable \in BOOLEAN /\ image.opaque \in BOOLEAN /\ image.warns \in BOOLEAN
       /\ image.profile \in {<<>>, Pinned}

MediumInput == input.kind = "medium" => MediumIsOne(input.medium)

\* An image that compiles: its container passes and the decoder agrees.
LEMMA CompileIs ==
    ASSUME NEW medium, medium.image.warns \in BOOLEAN
    PROVE  LET image == medium.image
               container == Preflight(medium)
               result == Compile(medium, medium)
           IN /\ ~IsFailed(result)
                    <=> /\ Compilable(container)
                        /\ image.readable /\ image.w = container.w /\ image.h = container.h
                        /\ image.frames = 1 /\ image.orientation \in 1..8 /\ image.opaque
                        /\ ColorError(image) = "none" /\ ~image.warns
              /\ ~IsFailed(result) => result.raster.px = Orient(image).px
<1> DEFINE image == medium.image
           container == Preflight(medium)
           result == Compile(medium, medium)
           error == DecodeError(image, container)
           observed == Inspection(image, Orient(image).w, Orient(image).h)
           raster == Raster(medium, Orient(image))
<1>1. result = CompileContainer(medium, container)
  BY DEF Compile
<1>2. error = "none"
        <=> /\ image.readable /\ image.w = container.w /\ image.h = container.h
            /\ image.frames = 1 /\ image.orientation \in 1..8 /\ image.opaque
            /\ container.color /\ ColorError(image) = "none" /\ ~image.warns
  <2> HIDE DEF container, image
  <2>1. image.warns \in BOOLEAN
    BY DEF image
  <2> QED
    BY <2>1, DecodeErrorIs
<1>3. raster.px = Orient(image).px
  BY DEF Raster
<1> HIDE DEF result, container, error, observed, raster
<1>4. CASE IsFailed(container)
  <2>1. result = [error |-> container.error, inspection |-> NotInspected]
    BY <1>1, <1>4 DEF CompileContainer
  <2>2. IsFailed(result) /\ ~Compilable(container)
    BY <1>4, <2>1 DEF IsFailed, Compilable
  <2> QED
    BY <2>2 DEF result, container
<1>5. CASE ~IsFailed(container)
  <2>1. result = Decode(medium, image, error)
    BY <1>1, <1>5 DEF CompileContainer, error
  <2>2. CASE error # "none"
    <3>1. "error" \in DOMAIN result
      BY <2>1, <2>2 DEF Decode
    <3>2. IsFailed(result)
      BY <3>1 DEF IsFailed
    <3> QED
      BY <1>2, <2>2, <3>2 DEF result, container, Compilable
  <2>3. CASE error = "none"
    <3>1. result = [inspection |-> observed, raster |-> raster]
      BY <2>1, <2>3 DEF Decode, observed, raster
    <3>2. ~IsFailed(result) /\ result.raster = raster
      BY <3>1 DEF IsFailed
    <3>3. result.raster.px = Orient(image).px
      BY <1>3, <3>2
    <3>4. Compilable(container)
      BY <1>2, <1>5, <2>3 DEF Compilable
    <3> QED
      BY <1>2, <2>3, <3>2, <3>3, <3>4 DEF result, container
  <2> QED
    BY <2>2, <2>3
<1> QED
  BY <1>4, <1>5

\* The containers that pass are the declared ones.
LEMMA PreflightIs ==
    ASSUME NEW medium, MediumIsOne(medium), MaxParts \in Nat
    PROVE  LET container == Preflight(medium)
               declared == CASE medium.format = "PNG" -> DeclaredPng(medium.parts)
                             [] medium.format = "JPEG" -> DeclaredJpeg(medium.parts)
           IN /\ Compilable(container) <=> declared
              /\ Compilable(container) =>
                    container.w = medium.image.w /\ container.h = medium.image.h
<1> DEFINE parts == medium.parts
           size == <<medium.image.w, medium.image.h>>
<1>1. size[1] = medium.image.w /\ size[2] = medium.image.h /\ size[1] # 0
  BY DEF MediumIsOne
<1>2. /\ medium.format \in {"PNG", "JPEG"}
      /\ medium.format = "PNG" => PngChunks(parts, size)
      /\ medium.format = "JPEG" => JpegMarkers(parts, size)
  BY DEF MediumIsOne
<1> HIDE DEF parts, size
<1>3. CASE medium.format = "PNG"
  <2>1. Preflight(medium) = PreflightPng(parts)
    BY <1>3 DEF Preflight, parts
  <2>2. /\ (~IsFailed(PreflightPng(parts)) /\ PreflightPng(parts).color) <=> DeclaredPng(parts)
        /\ ~IsFailed(PreflightPng(parts)) =>
              PreflightPng(parts).w = size[1] /\ PreflightPng(parts).h = size[2]
    BY <1>1, <1>2, <1>3, PreflightPngIs
  <2> QED
    BY <1>1, <1>3, <2>1, <2>2 DEF Compilable, parts
<1>4. CASE medium.format = "JPEG"
  <2>1. Preflight(medium) = PreflightJpeg(parts)
    BY <1>4 DEF Preflight, parts
  <2>2. /\ Compilable(PreflightJpeg(parts)) <=> DeclaredJpeg(parts)
        /\ Compilable(PreflightJpeg(parts)) =>
              PreflightJpeg(parts).w = size[1] /\ PreflightJpeg(parts).h = size[2]
    BY <1>1, <1>2, <1>4, PreflightJpegIs
  <2> QED
    BY <1>1, <1>4, <2>1, <2>2 DEF parts
<1> QED
  BY <1>2, <1>3, <1>4

\* Lists of chunks or markers of any length become a raster exactly when they
\* declare one opaque sRGB still that the decoder agrees with, and the raster is
\* the picture the way EXIF says it is shown.
THEOREM MediaCompileAsDeclared ==
    MediumInput => CompilesAsDeclared
<1> SUFFICES ASSUME MediumInput, input.kind = "medium"
             PROVE  CompilesAsDeclared
  BY DEF CompilesAsDeclared
<1> DEFINE medium == input.medium
           image == medium.image
           result == Compile(medium, medium)
           container == Preflight(medium)
           declared == CASE medium.format = "PNG" -> DeclaredPng(medium.parts)
                         [] medium.format = "JPEG" -> DeclaredJpeg(medium.parts)
           agrees == /\ declared /\ image.readable /\ image.frames = 1 /\ image.opaque
                     /\ ~image.warns /\ image.orientation \in 1..8
                     /\ \/ image.mode \in {"RGB", "RGBA"}
                        \/ image.mode \in {"L", "LA"} /\ image.profile = <<>>
           shown == \A p \in DOMAIN image.px :
                       result.raster.px[Shown(image.orientation, p[1], p[2], image.w, image.h)]
                          = image.px[p]
<1>1. MediumIsOne(medium) /\ MaxParts \in Nat
  BY BoundsAssumption DEF MediumInput
<1> HIDE DEF medium
<1>2. /\ Compilable(container) <=> declared
      /\ Compilable(container) => container.w = image.w /\ container.h = image.h
  BY <1>1, PreflightIs
<1>3. image.warns \in BOOLEAN
  BY <1>1 DEF MediumIsOne
<1>4. /\ ~IsFailed(result)
           <=> /\ Compilable(container)
               /\ image.readable /\ image.w = container.w /\ image.h = container.h
               /\ image.frames = 1 /\ image.orientation \in 1..8 /\ image.opaque
               /\ ColorError(image) = "none" /\ ~image.warns
      /\ ~IsFailed(result) => result.raster.px = Orient(image).px
  BY <1>3, CompileIs
<1>5. ColorError(image) = "none"
        <=> \/ image.mode \in {"RGB", "RGBA"}
            \/ image.mode \in {"L", "LA"} /\ image.profile = <<>>
  <2> HIDE DEF image
  <2>1. ColorError(image) = "none"
          <=> /\ image.mode \in {"L", "LA", "RGB", "RGBA"}
              /\ image.profile = <<>>
                 \/ (image.mode \in {"RGB", "RGBA"} /\ image.profile = Pinned)
    BY ColorErrorIs
  <2>2. image.profile \in {<<>>, Pinned}
    BY <1>1 DEF MediumIsOne, image
  <2> QED
    BY <2>1, <2>2
<1>6. ~IsFailed(result) <=> agrees
  <2> HIDE DEF image, container, declared, result
  <2> QED
    BY <1>2, <1>4, <1>5
<1>7. ~IsFailed(result) => shown
  <2>1. SUFFICES ASSUME ~IsFailed(result)
                 PROVE  shown
    OBVIOUS
  <2>2. image.orientation \in 1..8 /\ result.raster.px = Orient(image).px
    BY <1>4, <2>1
  <2>3. /\ image.w \in Nat \ {0} /\ image.h \in Nat \ {0}
        /\ DOMAIN image.px = (0..(image.w - 1)) \X (0..(image.h - 1))
    BY <1>1 DEF MediumIsOne
  <2> HIDE DEF image, result
  <2>4. \A p \in (0..(image.w - 1)) \X (0..(image.h - 1)) :
           LET place == Shown(image.orientation, p[1], p[2], image.w, image.h)
           IN /\ place \in DOMAIN Orient(image).px
              /\ Orient(image).px[place] = image.px[p]
    BY <2>2, <2>3, OrientsAsDeclared
  <2> QED
    BY <2>2, <2>3, <2>4
<1> HIDE DEF result, declared, image
<1> QED
  BY <1>6, <1>7 DEF CompilesAsDeclared, medium, result, declared, image

-----------------------------------------------------------------------------
(* Source-backed edits, from the encoded pictures to the composed one.       *)

\* A picture that can be encoded: pixels of its whole rectangle, within the bounds.
PictureOK(pic) ==
    /\ pic.w \in Nat \ {0} /\ pic.h \in Nat \ {0}
    /\ pic.w <= MaxSide /\ pic.h <= MaxSide /\ pic.w * pic.h <= MaxPixels
    /\ pic.px = [p \in (0..(pic.w - 1)) \X (0..(pic.h - 1)) |-> pic.px[p]]

\* The bounds of the two manifests: what the compiler admits the encoder can write.
ManifestsAgree == MaxSide <= MaxRegion /\ MaxPixels <= MaxPngPixels /\ 3 <= MaxParts

\* What compiling gives when it does not fail.
LEMMA CompileGives ==
    ASSUME NEW medium, ~IsFailed(Compile(medium, medium))
    PROVE  Compile(medium, medium)
             = [inspection |-> Inspection(medium.image, Orient(medium.image).w,
                                          Orient(medium.image).h),
                raster |-> Raster(medium, Orient(medium.image))]
<1> DEFINE container == Preflight(medium)
           error == DecodeError(medium.image, container)
<1>1. Compile(medium, medium) = CompileContainer(medium, container)
  BY DEF Compile
<1> HIDE DEF container
<1>2. ~IsFailed(container)
  BY <1>1 DEF CompileContainer, IsFailed
<1>3. Compile(medium, medium) = Decode(medium, medium.image, error)
  BY <1>1, <1>2 DEF CompileContainer
<1> HIDE DEF error
<1>4. error = "none"
  BY <1>3 DEF Decode, IsFailed
<1> QED
  BY <1>3, <1>4 DEF Decode

LEMMA NoDimensionError ==
    ASSUME NEW w \in Nat \ {0}, NEW h \in Nat \ {0},
           w <= MaxSide, h <= MaxSide, w * h <= MaxPixels
    PROVE  DimensionError(w, h) = "none"
<1>1. MaxSide \in Nat /\ MaxPixels \in Nat /\ w * h \in Nat
  BY BoundsAssumption
<1> DEFINE a == w <= 0 \/ h <= 0
           b == w > MaxSide \/ h > MaxSide \/ w * h > MaxPixels
<1>2. ~a /\ ~b
  BY <1>1
<1> HIDE DEF a, b
<1> DEFINE table == << <<a, "decode_failed">>, <<b, "decode_limit_exceeded">> >>
<1>3. {i \in DOMAIN table : table[i][1]} = {}
  BY <1>2
<1>4. FirstError(table) = "none"
  BY <1>3 DEF FirstError
<1> QED
  BY <1>4 DEF DimensionError, a, b

\* The compositor's encoder writes what the compiler reads back as the same pixels.
LEMMA EncodedCompiles ==
    ASSUME NEW pic, PictureOK(pic), ManifestsAgree
    PROVE  LET png == EncodePng(pic)
           IN Compile(png, png)
                = [inspection |-> Inspection(png.image, pic.w, pic.h),
                   raster |-> [content |-> png, w |-> pic.w, h |-> pic.h, px |-> pic.px]]
<1> DEFINE png == EncodePng(pic)
           header == [kind |-> "IHDR", whole |-> TRUE, value |-> "rgb8",
                      w |-> pic.w, h |-> pic.h]
           data == [kind |-> "IDAT", whole |-> TRUE, value |-> ""]
           end == [kind |-> "IEND", whole |-> TRUE, value |-> "empty"]
           parts == <<header, data, end>>
           size == <<pic.w, pic.h>>
           image == [readable |-> TRUE, w |-> pic.w, h |-> pic.h, px |-> pic.px,
                     frames |-> 1, orientation |-> 1, opaque |-> TRUE, mode |-> "RGB",
                     profile |-> <<>>, warns |-> FALSE]
<1>1. png = [format |-> "PNG", parts |-> parts, image |-> image]
  BY DEF EncodePng
<1>2. /\ header.kind = "IHDR" /\ header.whole = TRUE /\ header.value = "rgb8"
      /\ header.w = pic.w /\ header.h = pic.h
      /\ data.kind = "IDAT" /\ data.whole = TRUE
      /\ end.kind = "IEND" /\ end.whole = TRUE /\ end.value = "empty"
  OBVIOUS
<1>3. /\ Len(parts) = 3 /\ DOMAIN parts = 1..3 /\ 1..3 = {1, 2, 3}
      /\ parts[1] = header /\ parts[2] = data /\ parts[3] = end
  OBVIOUS
<1>4. size[1] = pic.w /\ size[2] = pic.h
  OBVIOUS
<1>5. /\ image.readable = TRUE /\ image.w = pic.w /\ image.h = pic.h /\ image.px = pic.px
      /\ image.frames = 1 /\ image.orientation = 1 /\ image.opaque = TRUE
      /\ image.mode = "RGB" /\ image.profile = <<>> /\ image.warns = FALSE
  OBVIOUS
<1> HIDE DEF png, header, data, end, parts, size, image
<1>6. DimensionError(pic.w, pic.h) = "none"
  BY NoDimensionError DEF PictureOK
<1>7. PngChunks(parts, size)
  <2>1. PngChunk(header, size) /\ PngChunk(data, size) /\ PngChunk(end, size)
    BY <1>2, <1>4, <1>6 DEF PngChunk
  <2> QED
    BY <1>3, <2>1 DEF PngChunks
<1>8. DeclaredPng(parts)
  <2>1. \A kinds : Of(parts, kinds) = {i \in {1, 2, 3} : parts[i].kind \in kinds}
    BY <1>3 DEF Of
  <2>2. parts[1].kind = "IHDR" /\ parts[2].kind = "IDAT" /\ parts[3].kind = "IEND"
    BY <1>2, <1>3
  <2>7. \A kinds : (1 \in Of(parts, kinds) <=> "IHDR" \in kinds)
                   /\ (2 \in Of(parts, kinds) <=> "IDAT" \in kinds)
                   /\ (3 \in Of(parts, kinds) <=> "IEND" \in kinds)
                   /\ Of(parts, kinds) \subseteq {1, 2, 3}
    BY <2>1, <2>2
  <2>3. /\ Of(parts, {"IHDR"}) = {1} /\ Of(parts, {"IEND"}) = {3}
    <3>1. /\ Of(parts, {"IHDR"}) \subseteq {1, 2, 3} /\ 1 \in Of(parts, {"IHDR"})
          /\ 2 \notin Of(parts, {"IHDR"}) /\ 3 \notin Of(parts, {"IHDR"})
      BY <2>7
    <3>2. /\ Of(parts, {"IEND"}) \subseteq {1, 2, 3} /\ 3 \in Of(parts, {"IEND"})
          /\ 1 \notin Of(parts, {"IEND"}) /\ 2 \notin Of(parts, {"IEND"})
      BY <2>7
    <3> QED
      BY <3>1, <3>2
  <2>8. \A kinds : "IHDR" \notin kinds /\ "IDAT" \notin kinds /\ "IEND" \notin kinds
                   => Of(parts, kinds) = {}
    BY <2>7
  <2>4. /\ Of(parts, {"text", "animation", "unknown critical", "HDR"}) = {}
        /\ Of(parts, {"sRGB", "iCCP", "gAMA", "cHRM"}) = {}
        /\ Of(parts, {"gAMA", "cHRM"}) = {} /\ Of(parts, {"sRGB", "iCCP"}) = {}
        /\ \A k \in {"sRGB", "iCCP", "gAMA", "cHRM", "eXIf"} : Of(parts, {k}) = {}
    BY <2>8
  <2>5. AtMostOne({})
    BY FS_EmptySet DEF AtMostOne
  <2>6. 3 <= MaxParts
    BY DEF ManifestsAgree
  <2> QED
    BY <1>2, <1>3, <2>3, <2>4, <2>5, <2>6 DEF DeclaredPng
<1>9. Compilable(PreflightPng(parts)) /\ PreflightPng(parts).w = pic.w
         /\ PreflightPng(parts).h = pic.h
  <2>1. MaxParts \in Nat /\ size[1] # 0
    BY <1>4, BoundsAssumption DEF PictureOK
  <2> QED
    BY <1>4, <1>7, <1>8, <2>1, PreflightPngIs DEF Compilable
<1>10. Preflight(png) = PreflightPng(parts)
  BY <1>1 DEF Preflight
<1>11. ColorError(png.image) = "none"
  <2> DEFINE a == image.mode \notin {"L", "LA", "RGB", "RGBA"}
             b == image.profile # <<>> /\ (image.mode \notin {"RGB", "RGBA"}
                                             \/ image.profile # Pinned)
             code == "unsupported_color_contract"
             table == << <<a, code>>, <<b, code>> >>
  <2>1. ~a /\ ~b
    BY <1>5
  <2>2. {i \in DOMAIN table : table[i][1]} = {}
    <3> HIDE DEF a, b, code
    <3> QED
      BY <2>1
  <2>3. FirstError(table) = "none"
    <3> HIDE DEF table
    <3> QED
      BY <2>2 DEF FirstError
  <2>4. ColorError(image) = "none"
    BY <2>3 DEF ColorError
  <2> QED
    BY <1>1, <2>4
<1>12. ~IsFailed(Compile(png, png))
  <2>1. png.image = image
    BY <1>1
  <2>2. png.image.warns \in BOOLEAN
    BY <1>5, <2>1
  <2> QED
    BY <1>5, <1>9, <1>10, <1>11, <2>1, <2>2, CompileIs
<1>13. Compile(png, png) = [inspection |-> Inspection(image, Orient(image).w, Orient(image).h),
                            raster |-> Raster(png, Orient(image))]
  BY <1>1, <1>12, CompileGives
<1>14. Orient(image) = [w |-> pic.w, h |-> pic.h, px |-> pic.px]
  <2>1. Orient(image).px = [p \in (0..(pic.w - 1)) \X (0..(pic.h - 1)) |-> pic.px[<<p[1], p[2]>>]]
    BY <1>5 DEF Orient, Turns
  <2>2. \A p \in (0..(pic.w - 1)) \X (0..(pic.h - 1)) : <<p[1], p[2]>> = p
    OBVIOUS
  <2>3. Orient(image).px = [p \in (0..(pic.w - 1)) \X (0..(pic.h - 1)) |-> pic.px[p]]
    BY <2>1, <2>2
  <2>4. Orient(image).px = pic.px
    BY <2>3 DEF PictureOK
  <2>5. /\ Orient(image) = [w |-> Orient(image).w, h |-> Orient(image).h, px |-> Orient(image).px]
        /\ Orient(image).w = pic.w /\ Orient(image).h = pic.h
    BY <1>5 DEF Orient, Turns
  <2> QED
    BY <2>4, <2>5
<1>15. Raster(png, Orient(image)) = [content |-> png, w |-> pic.w, h |-> pic.h, px |-> pic.px]
  BY <1>14 DEF Raster
<1>16. Orient(image).w = pic.w /\ Orient(image).h = pic.h /\ png.image = image
  BY <1>1, <1>14
<1> QED
  BY <1>13, <1>15, <1>16 DEF png

Bounds == [left : Int, top : Int, right : Int, bottom : Int]

\* An edit the studio can confirm over a source: a provider picture within the
\* bounds, a crop of it, and a region of the source that leaves some of it.
EditFits(e, source) ==
    /\ PictureOK(Picture(e.size[1], e.size[2], e.raw))
    /\ e.crop \in Bounds /\ Inside(e.crop, e.size[1], e.size[2])
    /\ e.region \in Bounds /\ Inside(e.region, source.w, source.h)
    /\ \E p \in DOMAIN source.px : ~In(p, e.region)

PictureOf(e) == Picture(e.size[1], e.size[2], e.raw)

\* The mask of a region that is inside the source and not all of it.
MaskOf(source, region) ==
    [w |-> source.w, h |-> source.h, source |-> source,
     bits |-> [p \in DOMAIN source.px |-> IF In(p, region) THEN 1 ELSE 0]]

LEMMA MaskCompiles ==
    ASSUME NEW e, NEW source, PictureOK(source), EditFits(e, source)
    PROVE  /\ RectangleMask(source, e.region) = MaskOf(source, e.region)
           /\ MaskOK(MaskOf(source, e.region))
<1> DEFINE mask == MaskOf(source, e.region)
<1>1. DOMAIN source.px = (0..(source.w - 1)) \X (0..(source.h - 1))
  BY DEF PictureOK
<1>2. /\ mask.w = source.w /\ mask.h = source.h
      /\ mask.bits = [p \in DOMAIN source.px |-> IF In(p, e.region) THEN 1 ELSE 0]
  BY DEF MaskOf
<1>3. DOMAIN mask.bits = (0..(mask.w - 1)) \X (0..(mask.h - 1))
  BY <1>1, <1>2
<1>4. PICK p \in DOMAIN source.px : ~In(p, e.region)
  BY DEF EditFits
<1>5. <<e.region.left, e.region.top>> \in DOMAIN source.px
         /\ In(<<e.region.left, e.region.top>>, e.region)
  BY <1>1 DEF EditFits, Bounds, Inside, In, PictureOK
<1>6. {mask.bits[q] : q \in DOMAIN mask.bits} = {0, 1}
  <2> DEFINE q == <<e.region.left, e.region.top>>
  <2>1. /\ q \in DOMAIN mask.bits /\ mask.bits[q] = 1
        /\ p \in DOMAIN mask.bits /\ mask.bits[p] = 0
    BY <1>2, <1>4, <1>5
  <2>2. \A r \in DOMAIN mask.bits : mask.bits[r] \in {0, 1}
    BY <1>2
  <2> HIDE DEF q, mask
  <2> QED
    BY <2>1, <2>2
<1>7. MaskOK(mask)
  BY <1>3, <1>6 DEF MaskOK
<1>8. Inside(e.region, source.w, source.h)
  BY DEF EditFits
<1> QED
  BY <1>7, <1>8 DEF RectangleMask, MaskOf

\* The provider's output of a picture, and what compiles of it.
RasterOf(e) ==
    [content |-> EncodePng(PictureOf(e)), w |-> e.size[1], h |-> e.size[2],
     px |-> PictureOf(e).px]

RawOf(e, packet) ==
    [attempt |-> "a1", receipt |-> ReceiptOf(EncodePng(PictureOf(e))), index |-> 1,
     intent |-> packet, content |-> EncodePng(PictureOf(e)),
     media |-> Inspection(EncodePng(PictureOf(e)).image, e.size[1], e.size[2]),
     eligible |-> TRUE]

LEMMA MediaCompiles ==
    ASSUME NEW e, PictureOK(PictureOf(e)), ManifestsAgree
    PROVE  CompileMedia(ReceiptOf(EncodePng(PictureOf(e))), 1, EncodePng(PictureOf(e)))
             = [inspection |-> Inspection(EncodePng(PictureOf(e)).image, e.size[1], e.size[2]),
                raster |-> RasterOf(e)]
<1> DEFINE pic == PictureOf(e)
           png == EncodePng(pic)
           receipt == ReceiptOf(png)
<1>1. pic.w = e.size[1] /\ pic.h = e.size[2]
  BY DEF PictureOf, Picture
<1>2. Compile(png, png) = [inspection |-> Inspection(png.image, pic.w, pic.h),
                           raster |-> [content |-> png, w |-> pic.w, h |-> pic.h,
                                       px |-> pic.px]]
  <2>1. PictureOK(pic)
    OBVIOUS
  <2> HIDE DEF pic
  <2> QED
    BY <2>1, EncodedCompiles
<1>3. png.format = "PNG"
  BY DEF EncodePng
<1> HIDE DEF png, pic
<1>4. /\ 1 \in DOMAIN receipt.outputs
      /\ receipt.outputs[1].content = png /\ receipt.outputs[1].claim = "PNG"
  BY DEF ReceiptOf
<1> HIDE DEF receipt
<1>5. CompileMedia(receipt, 1, png) = Compile(png, png)
  BY <1>3, <1>4 DEF CompileMedia
<1>6. Compile(png, png) = [inspection |-> Inspection(png.image, e.size[1], e.size[2]),
                           raster |-> RasterOf(e)]
  BY <1>1, <1>2 DEF RasterOf, png, pic
<1> QED
  BY <1>5, <1>6 DEF png, pic, receipt

LEMMA OutputIsRaw ==
    ASSUME NEW e, PictureOK(PictureOf(e)), ManifestsAgree, NEW packet
    PROVE  Output(packet, ReceiptOf(EncodePng(PictureOf(e)))) = RawOf(e, packet)
<1> DEFINE png == EncodePng(PictureOf(e))
           receipt == ReceiptOf(png)
<1>1. CompileMedia(receipt, 1, png).inspection = Inspection(png.image, e.size[1], e.size[2])
  BY MediaCompiles
<1> HIDE DEF png
<1>2. receipt.outputs[1].content = png
  BY DEF ReceiptOf
<1> HIDE DEF receipt
<1>3. Output(packet, receipt)
        = [attempt |-> "a1", receipt |-> receipt, index |-> 1, intent |-> packet,
           content |-> png, media |-> Inspection(png.image, e.size[1], e.size[2]),
           eligible |-> TRUE]
  BY <1>1, <1>2 DEF Output
<1> QED
  BY <1>3 DEF RawOf, png, receipt

\* The structural judgment of an output that compiles.
StructureOf(source, raw, raster) ==
    LET same == raster.w = source.w /\ raster.h = source.h
    IN [verifier |-> "structure", subject |-> [occurrence |-> raw],
        state |-> IF same THEN "pass" ELSE "fail",
        reason |-> IF same THEN "none" ELSE "dimension_mismatch",
        source |-> source, content |-> raw.content, raster |-> raster,
        measured |-> Measured(source, raw.media, TRUE)]

LEMMA StructureJudged ==
    ASSUME NEW e, NEW source, PictureOK(source), PictureOK(PictureOf(e)), ManifestsAgree,
           NEW packet
    PROVE  LET raw == RawOf(e, packet)
               raster == RasterOf(e)
           IN VerifyStructure(source, raw.receipt, 1, raw.content, raw)
                = [judgment |-> StructureOf(source, raw, raster), raster |-> raster]
<1> DEFINE raw == RawOf(e, packet)
           raster == RasterOf(e)
           png == EncodePng(PictureOf(e))
           media == CompileMedia(raw.receipt, 1, raw.content)
           same == raster.w = source.w /\ raster.h = source.h
           judgment == StructureOf(source, raw, raster)
<1>1. /\ raw.attempt = "a1" /\ raw.receipt = ReceiptOf(png) /\ raw.index = 1
      /\ raw.content = png /\ raw.eligible = TRUE
      /\ raw.media = Inspection(png.image, e.size[1], e.size[2])
      /\ "attempt" \in DOMAIN raw
      /\ ReceiptOf(png).attempt = "a1"
  BY DEF RawOf, ReceiptOf
<1>2. raster.w = e.size[1] /\ raster.h = e.size[2] /\ raster.content = png
         /\ "content" \in DOMAIN raster
  BY DEF RasterOf
<1>3. /\ raw.media.frames = 1 /\ raw.media.w = e.size[1] /\ raw.media.h = e.size[2]
      /\ raw.media.mode = "RGB" /\ raw.media.opaque = TRUE
  <2>1. png.image.frames = 1 /\ png.image.mode = "RGB" /\ png.image.opaque = TRUE
    BY DEF EncodePng
  <2> HIDE DEF png, raw
  <2> QED
    BY <1>1, <2>1 DEF Inspection
<1>4. media = [inspection |-> raw.media, raster |-> raster]
  <2>1. media = CompileMedia(ReceiptOf(png), 1, png)
    BY <1>1
  <2>2. CompileMedia(ReceiptOf(png), 1, png)
          = [inspection |-> Inspection(png.image, e.size[1], e.size[2]), raster |-> raster]
    BY MediaCompiles
  <2> HIDE DEF png, raw, raster, media
  <2> QED
    BY <1>1, <2>1, <2>2
<1> HIDE DEF png, raw, raster, media
<1>5. /\ media.inspection = raw.media /\ media.raster = raster /\ ~IsFailed(media)
  BY <1>4 DEF IsFailed
<1>6. RasterOK(source)
  BY DEF PictureOK, RasterOK
<1>7. raw # NoOccurrence /\ raster # NoRaster
  BY <1>1, <1>2 DEF NoOccurrence, NoRaster
<1>8. OccurrenceBinds(raw, raw.receipt, 1, raw.content, media)
  BY <1>1, <1>5 DEF OccurrenceBinds
<1> HIDE DEF same
<1>9. same \in BOOLEAN /\ same <=> (raster.w = source.w /\ raster.h = source.h)
  BY DEF same
<1>10. judgment = [verifier |-> "structure", subject |-> [occurrence |-> raw],
                   state |-> IF same THEN "pass" ELSE "fail",
                   reason |-> IF same THEN "none" ELSE "dimension_mismatch",
                   source |-> source, content |-> raw.content, raster |-> raster,
                   measured |-> Measured(source, raw.media, TRUE)]
  BY DEF StructureOf, same
<1>11. StructuralJudgmentOK(judgment)
  <2>1. /\ judgment.measured.inspection = raw.media /\ judgment.measured.compiled = TRUE
        /\ judgment.measured.sourceW = source.w /\ judgment.measured.sourceH = source.h
        /\ judgment.raster = raster /\ DOMAIN judgment.subject = {"occurrence"}
        /\ judgment.state = (IF same THEN "pass" ELSE "fail")
        /\ judgment.reason = (IF same THEN "none" ELSE "dimension_mismatch")
    BY <1>10 DEF Measured
  <2>2. raw.media # NotInspected
    BY <1>3 DEF NotInspected
  <2>3. (raw.media.w = source.w /\ raw.media.h = source.h) <=> same
    BY <1>2, <1>3, <1>9
  <2> HIDE DEF judgment
  <2>4. CASE same
    BY <1>3, <1>7, <2>1, <2>2, <2>3, <2>4 DEF StructuralJudgmentOK
  <2>5. CASE ~same
    BY <1>3, <1>7, <2>1, <2>2, <2>3, <2>5 DEF StructuralJudgmentOK
  <2> QED
    BY <2>4, <2>5
<1> HIDE DEF judgment
<1>12. JudgeStructure(source, raw.receipt, 1, raw.content, raw, media)
         = [judgment |-> judgment, raster |-> raster]
  <2>1. CASE same
    <3>1. media.raster.w = source.w /\ media.raster.h = source.h
      BY <1>5, <1>9, <2>1
    <3> QED
      BY <1>5, <1>6, <1>7, <1>8, <1>10, <1>11, <2>1, <3>1 DEF JudgeStructure
  <2>2. CASE ~same
    <3>1. ~(media.raster.w = source.w /\ media.raster.h = source.h)
      BY <1>5, <1>9, <2>2
    <3> QED
      BY <1>5, <1>6, <1>7, <1>8, <1>10, <1>11, <2>2, <3>1 DEF JudgeStructure
  <2> QED
    BY <2>1, <2>2
<1>13. VerifyStructure(source, raw.receipt, 1, raw.content, raw)
         = JudgeStructure(source, raw.receipt, 1, raw.content, raw, media)
  BY DEF VerifyStructure, media
<1> QED
  BY <1>12, <1>13 DEF judgment, raw, raster

\* The locality judgment that goes with it: measured on an output of the source's
\* size, blocked by the mismatch otherwise.
LocalityOf(source, mask, raw, raster) ==
    RawLocality(source, raster, mask, raw,
                [judgment |-> StructureOf(source, raw, raster), raster |-> raster])

GoesWith(source, mask, raster, structural, locality) ==
    /\ locality.verifier = "locality" /\ locality.subject = structural.subject
    /\ locality.source = source /\ locality.mask = mask
    /\ \/ /\ structural.state = "pass" /\ locality.state \in {"pass", "fail"}
          /\ locality.output = raster
       \/ /\ structural.state = "fail" /\ structural.reason = "dimension_mismatch"
          /\ BlockingPair(structural, locality)

LEMMA LocalityJudged ==
    ASSUME NEW source, NEW mask, mask.source = source, NEW raw, raw.eligible = TRUE,
           NEW raster, raster.content = raw.content
    PROVE  GoesWith(source, mask, raster, StructureOf(source, raw, raster),
                    LocalityOf(source, mask, raw, raster))
<1> DEFINE structural == StructureOf(source, raw, raster)
           locality == LocalityOf(source, mask, raw, raster)
           replayed == [judgment |-> structural, raster |-> raster]
           same == raster.w = source.w /\ raster.h = source.h
<1>1. /\ structural.verifier = "structure" /\ structural.subject = [occurrence |-> raw]
      /\ structural.source = source /\ structural.content = raw.content
      /\ structural.raster = raster
      /\ same => structural.state = "pass"
      /\ ~same => structural.state = "fail" /\ structural.reason = "dimension_mismatch"
  BY DEF StructureOf
<1>2. locality = RawLocality(source, raster, mask, raw, replayed)
  BY DEF LocalityOf
<1>3. replayed.judgment = structural
  OBVIOUS
<1> HIDE DEF structural, locality, replayed
<1>4. ASSUME same
      PROVE  GoesWith(source, mask, raster, structural, locality)
  <2> DEFINE changed == ChangedOutside(source, raster, mask)
  <2>1. locality = VerifyOutsideMask(source, raster, mask, raw, structural)
    BY <1>1, <1>2, <1>3, <1>4 DEF RawLocality
  <2> HIDE DEF changed
  <2>2. locality = [verifier |-> "locality", subject |-> structural.subject,
                    state |-> IF changed = {} THEN "pass" ELSE "fail",
                    source |-> source, mask |-> mask, output |-> raster,
                    changed |-> Cardinality(changed)]
    BY <1>1, <1>4, <2>1 DEF VerifyOutsideMask, changed
  <2> QED
    BY <1>1, <1>4, <2>2 DEF GoesWith
<1>5. ASSUME ~same
      PROVE  GoesWith(source, mask, raster, structural, locality)
  <2> DEFINE blocked == [verifier |-> "locality", subject |-> structural.subject,
                         state |-> "not_run", source |-> mask.source, mask |-> mask,
                         blocking |-> structural]
  <2>1. locality = LocalityNotRun(structural, mask)
    BY <1>1, <1>2, <1>3, <1>5 DEF RawLocality
  <2>2. BlockingPair(structural, blocked)
    BY <1>1, <1>5 DEF BlockingPair
  <2>3. locality = blocked
    BY <1>1, <1>5, <2>1, <2>2 DEF LocalityNotRun
  <2> QED
    BY <1>1, <1>5, <2>2, <2>3 DEF GoesWith
<1> QED
  BY <1>4, <1>5 DEF structural, locality

\* The artifacts of one edit, each made by the code that makes it.
Honest(e, source, x) ==
    /\ x.source = source /\ x.mask = MaskOf(source, e.region)
    /\ x.packet = Packet(e, source, x.mask)
    /\ x.raw = RawOf(e, x.packet) /\ x.bytes = x.raw.content
    /\ x.bundle = [packet |-> x.packet, receipts |-> {x.raw.receipt}, outputs |-> {x.raw}]
    /\ x.raster = RasterOf(e)
    /\ x.structural = StructureOf(source, x.raw, x.raster)
    /\ x.locality = LocalityOf(source, x.mask, x.raw, x.raster)
    /\ x.confirmation = Confirm(e, source, x.mask, x.packet, x.raw,
                                [judgment |-> x.structural, raster |-> x.raster], x.locality)
    /\ x.insert = CompileInsert(x.raster, x.raw, x.structural, x.locality, x.confirmation)
    /\ x = [source |-> x.source, mask |-> x.mask, packet |-> x.packet, bundle |-> x.bundle,
            raw |-> x.raw, bytes |-> x.bytes, raster |-> x.raster,
            structural |-> x.structural, locality |-> x.locality,
            confirmation |-> x.confirmation, insert |-> x.insert]

LEMMA MadeHonestly ==
    ASSUME NEW e, NEW source, PictureOK(source), EditFits(e, source), ManifestsAgree
    PROVE  Honest(e, source, FromSource(e, source, RectangleMask(source, e.region)))
<1> DEFINE mask == MaskOf(source, e.region)
           packet == Packet(e, source, mask)
           raw == RawOf(e, packet)
           raster == RasterOf(e)
           structural == StructureOf(source, raw, raster)
           seen == [judgment |-> structural, raster |-> raster]
           locality == LocalityOf(source, mask, raw, raster)
           c == Confirm(e, source, mask, packet, raw, seen, locality)
           x == FromSource(e, source, RectangleMask(source, e.region))
<1>1. RectangleMask(source, e.region) = mask
  BY MaskCompiles
<1>2. PictureOK(PictureOf(e))
  BY DEF EditFits, PictureOf
<1>3. Output(packet, ReceiptOf(EncodePng(PictureOf(e)))) = raw
  BY <1>2, OutputIsRaw
<1>4. VerifyStructure(source, raw.receipt, 1, raw.content, raw) = seen
  BY <1>2, StructureJudged
<1>5. RawLocality(source, raster, mask, raw, seen) = locality
  BY DEF LocalityOf
<1>6. seen.raster = raster /\ seen.judgment = structural
  OBVIOUS
<1>7. x = Asked(e, source, mask, packet)
  BY <1>1 DEF FromSource
<1> HIDE DEF mask, packet, raw, raster, structural, seen, locality, x
<1>8. x = Provided(e, source, mask, packet, raw)
  BY <1>3, <1>7 DEF Asked, PictureOf
<1>9. x = Verified(e, source, mask, packet, raw, seen)
  BY <1>4, <1>8 DEF Provided
<1>10. x = Judged(e, source, mask, packet, raw, seen, locality)
  BY <1>5, <1>6, <1>9 DEF Verified
<1>11. x = Confirmed(source, mask, packet, raw, seen, locality, c)
  BY <1>10 DEF Judged
<1> HIDE DEF c
<1>12. x = [source |-> source, mask |-> mask, packet |-> packet,
            bundle |-> [packet |-> packet, receipts |-> {raw.receipt}, outputs |-> {raw}],
            raw |-> raw, bytes |-> raw.content,
            raster |-> raster, structural |-> structural, locality |-> locality,
            confirmation |-> c, insert |-> CompileInsert(raster, raw, structural, locality, c)]
  BY <1>6, <1>11 DEF Confirmed
<1>13. /\ x.source = source /\ x.mask = mask /\ x.packet = packet
       /\ x.bundle = [packet |-> packet, receipts |-> {raw.receipt}, outputs |-> {raw}]
       /\ x.raw = raw /\ x.bytes = raw.content
       /\ x.raster = raster /\ x.structural = structural /\ x.locality = locality
       /\ x.confirmation = c /\ x.insert = CompileInsert(raster, raw, structural, locality, c)
  BY <1>12
<1>14. x = [source |-> x.source, mask |-> x.mask, packet |-> x.packet, bundle |-> x.bundle,
            raw |-> x.raw, bytes |-> x.bytes, raster |-> x.raster,
            structural |-> x.structural, locality |-> x.locality,
            confirmation |-> x.confirmation, insert |-> x.insert]
  BY <1>12, <1>13
<1>15. /\ mask = MaskOf(source, e.region) /\ packet = Packet(e, source, mask)
       /\ raw = RawOf(e, packet) /\ raster = RasterOf(e)
       /\ structural = StructureOf(source, raw, raster)
       /\ locality = LocalityOf(source, mask, raw, raster)
       /\ c = Confirm(e, source, mask, packet, raw,
                      [judgment |-> structural, raster |-> raster], locality)
  BY DEF mask, packet, raw, raster, structural, locality, c, seen
<1>16. Honest(e, source, x)
  BY <1>13, <1>14, <1>15 DEF Honest
<1> QED
  BY <1>16 DEF x

\* What the confirmation of an honest edit says.
ConfirmationIs(e, source, x, c) ==
    /\ c.principal = "user" /\ c.session = e.session /\ c.intent = x.packet
    /\ c.raw = x.raw /\ c.raster = x.raster /\ c.structural = x.structural
    /\ c.locality = x.locality /\ c.crop = e.crop
    /\ c.target = [bounds |-> e.region, source |-> source, mask |-> x.mask]
    /\ c.target.bounds = e.region /\ c.target.source = source /\ c.target.mask = x.mask

LEMMA HonestConfirmation ==
    ASSUME NEW e, NEW source, NEW x, Honest(e, source, x)
    PROVE  ConfirmationIs(e, source, x, x.confirmation)
<1> DEFINE seen == [judgment |-> x.structural, raster |-> x.raster]
<1>1. seen.judgment = x.structural /\ seen.raster = x.raster
  OBVIOUS
<1>2. x.confirmation = Confirm(e, source, x.mask, x.packet, x.raw, seen, x.locality)
  BY DEF Honest
<1> HIDE DEF seen
<1>3. x.confirmation =
        [principal |-> "user", session |-> e.session, intent |-> x.packet, raw |-> x.raw,
         raster |-> x.raster, structural |-> x.structural, locality |-> x.locality,
         crop |-> e.crop,
         target |-> [bounds |-> e.region, source |-> source, mask |-> x.mask], at |-> e.at]
  BY <1>1, <1>2 DEF Confirm, TargetRegion
<1> QED
  BY <1>3 DEF ConfirmationIs

RawIs(e, x) ==
    /\ x.raw.attempt = "a1" /\ x.raw.index = 1 /\ x.raw.intent = x.packet
    /\ x.raw.receipt = ReceiptOf(EncodePng(PictureOf(e)))
    /\ x.raw.content = EncodePng(PictureOf(e)) /\ x.raw.eligible = TRUE
    /\ x.raw.media.w = e.size[1] /\ x.raw.media.h = e.size[2]
    /\ x.raster.w = e.size[1] /\ x.raster.h = e.size[2]
    /\ x.raster.content = x.raw.content /\ x.raster.px = PictureOf(e).px

LEMMA HonestRaw ==
    ASSUME NEW e, NEW source, NEW x, Honest(e, source, x)
    PROVE  RawIs(e, x)
<1>1. x.raw = RawOf(e, x.packet) /\ x.raster = RasterOf(e)
  BY DEF Honest
<1>2. /\ x.raw.attempt = "a1" /\ x.raw.index = 1 /\ x.raw.intent = x.packet
      /\ x.raw.receipt = ReceiptOf(EncodePng(PictureOf(e)))
      /\ x.raw.content = EncodePng(PictureOf(e)) /\ x.raw.eligible = TRUE
      /\ x.raw.media = Inspection(EncodePng(PictureOf(e)).image, e.size[1], e.size[2])
  BY <1>1 DEF RawOf
<1>3. x.raw.media.w = e.size[1] /\ x.raw.media.h = e.size[2]
  BY <1>2 DEF Inspection
<1>4. /\ x.raster.w = e.size[1] /\ x.raster.h = e.size[2]
      /\ x.raster.content = EncodePng(PictureOf(e)) /\ x.raster.px = PictureOf(e).px
  BY <1>1 DEF RasterOf
<1> QED
  BY <1>2, <1>3, <1>4 DEF RawIs

\* The insert of an honest edit compiles.
LEMMA HonestInsert ==
    ASSUME NEW e, NEW source, NEW x, Honest(e, source, x), EditFits(e, source)
    PROVE  /\ ~IsFailed(x.insert)
           /\ x.insert.confirmation = x.confirmation /\ x.insert.crop = e.crop
           /\ x.insert.w = Width(e.region) /\ x.insert.h = Height(e.region)
           /\ DOMAIN x.insert.px = (0..(Width(e.region) - 1)) \X (0..(Height(e.region) - 1))
<1> DEFINE c == x.confirmation
           w == Width(c.target.bounds)
           h == Height(c.target.bounds)
<1>1. /\ x.structural = StructureOf(source, x.raw, x.raster)
      /\ x.locality = LocalityOf(source, x.mask, x.raw, x.raster)
      /\ x.mask = MaskOf(source, e.region)
      /\ x.insert = CompileInsert(x.raster, x.raw, x.structural, x.locality, c)
  BY DEF Honest
<1>2. /\ c.intent = x.packet /\ c.raw = x.raw /\ c.raster = x.raster
      /\ c.structural = x.structural /\ c.locality = x.locality /\ c.crop = e.crop
      /\ c.target.bounds = e.region /\ c.target.source = source /\ c.target.mask = x.mask
  <2>1. ConfirmationIs(e, source, x, c)
    BY HonestConfirmation
  <2> HIDE DEF c
  <2> QED
    BY <2>1 DEF ConfirmationIs
<1>3. /\ x.raw.intent = x.packet /\ x.raw.eligible = TRUE
      /\ x.raw.media.w = x.raster.w /\ x.raw.media.h = x.raster.h
      /\ x.raster.w = e.size[1] /\ x.raster.h = e.size[2]
      /\ x.raster.content = x.raw.content
  <2>1. RawIs(e, x)
    BY HonestRaw
  <2> QED
    BY <2>1 DEF RawIs
<1>4. x.mask.source = source
  BY <1>1 DEF MaskOf
<1>5. GoesWith(source, x.mask, x.raster, x.structural, x.locality)
  BY <1>1, <1>3, <1>4, LocalityJudged
<1>6. /\ x.structural.verifier = "structure"
      /\ x.structural.subject = [occurrence |-> x.raw]
      /\ x.structural.source = source /\ x.structural.content = x.raw.content
      /\ x.structural.raster = x.raster
      /\ x.structural.measured.compiled = TRUE
      /\ x.structural.measured.inspection = x.raw.media
  BY <1>1 DEF StructureOf, Measured
<1> HIDE DEF c
<1>7. RawInputsBind(x.raster, x.raw, x.structural, x.locality, c)
  BY <1>2, <1>3, <1>5, <1>6 DEF RawInputsBind, GoesWith
<1>8. Inside(c.crop, x.raster.w, x.raster.h)
  BY <1>2, <1>3 DEF EditFits
<1>9. x.insert =
        [confirmation |-> c, intent |-> c.intent, raw |-> x.raw, raster |-> x.raster,
         structural |-> x.structural, locality |-> x.locality, crop |-> c.crop,
         target |-> c.target, w |-> w, h |-> h,
         px |-> [p \in (0..(w - 1)) \X (0..(h - 1)) |->
                   x.raster.px[<<c.crop.left + NearestOffset(p[1], Width(c.crop), w),
                                 c.crop.top + NearestOffset(p[2], Height(c.crop), h)>>]]]
  BY <1>1, <1>7, <1>8 DEF CompileInsert
<1>10. /\ ~IsFailed(x.insert) /\ x.insert.confirmation = c /\ x.insert.crop = c.crop
       /\ x.insert.w = w /\ x.insert.h = h
       /\ DOMAIN x.insert.px = (0..(w - 1)) \X (0..(h - 1))
  BY <1>9 DEF IsFailed
<1> QED
  BY <1>2, <1>10 DEF c

\* The source with the insert of an honest edit pasted is a picture again.
PastedPicture(x) ==
    [w |-> x.source.w, h |-> x.source.h, px |-> Paste(x.source, x.insert, x.packet.region)]

LEMMA PastedOK ==
    ASSUME NEW x, PictureOK(x.source)
    PROVE  /\ PictureOK(PastedPicture(x))
           /\ ComposedPng(x) = EncodePng(PastedPicture(x))
<1> DEFINE pic == PastedPicture(x)
<1>1. /\ pic.w = x.source.w /\ pic.h = x.source.h
      /\ pic.px = [p \in DOMAIN x.source.px |->
            IF In(p, x.packet.region)
            THEN x.insert.px[<<p[1] - x.packet.region.left, p[2] - x.packet.region.top>>]
            ELSE x.source.px[p]]
  BY DEF PastedPicture, Paste
<1>2. DOMAIN x.source.px = (0..(x.source.w - 1)) \X (0..(x.source.h - 1))
  BY DEF PictureOK
<1> HIDE DEF pic
<1>3. pic.px = [p \in (0..(pic.w - 1)) \X (0..(pic.h - 1)) |-> pic.px[p]]
  BY <1>1, <1>2
<1>4. PictureOK(pic)
  BY <1>1, <1>3 DEF PictureOK
<1> QED
  BY <1>4 DEF pic, PastedPicture, ComposedPng

\* The ancestry of an honest edit replays.
LEMMA HonestAncestry ==
    ASSUME NEW e, NEW source, NEW x, Honest(e, source, x), PictureOK(source),
           EditFits(e, source), ManifestsAgree
    PROVE  AncestryReplays(x)
<1>1. /\ x.source = source /\ x.mask = MaskOf(source, e.region)
      /\ x.raw = RawOf(e, x.packet) /\ x.bytes = x.raw.content
      /\ x.bundle = [packet |-> x.packet, receipts |-> {x.raw.receipt}, outputs |-> {x.raw}]
      /\ x.raster = RasterOf(e)
      /\ x.structural = StructureOf(source, x.raw, x.raster)
      /\ x.locality = LocalityOf(source, x.mask, x.raw, x.raster)
  BY DEF Honest
<1>2. RawIs(e, x) /\ ConfirmationIs(e, source, x, x.confirmation)
  BY HonestRaw, HonestConfirmation
<1>3. RasterOK(x.source)
  BY <1>1 DEF PictureOK, RasterOK
<1>4. MaskOK(x.mask)
  BY <1>1, MaskCompiles
<1>5. /\ 0 <= e.region.left /\ e.region.left < e.region.right /\ e.region.right <= source.w
      /\ 0 <= e.region.top /\ e.region.top < e.region.bottom /\ e.region.bottom <= source.h
      /\ e.region.left \in Int /\ e.region.right \in Int
      /\ e.region.top \in Int /\ e.region.bottom \in Int
      /\ 0 <= e.crop.left /\ e.crop.left < e.crop.right /\ e.crop.right <= e.size[1]
      /\ 0 <= e.crop.top /\ e.crop.top < e.crop.bottom /\ e.crop.bottom <= e.size[2]
      /\ e.crop.left \in Int /\ e.crop.right \in Int
      /\ e.crop.top \in Int /\ e.crop.bottom \in Int
  BY DEF EditFits, Bounds, Inside
<1>6. /\ source.w \in Nat \ {0} /\ source.h \in Nat \ {0} /\ source.w <= MaxSide
      /\ source.h <= MaxSide /\ source.w * source.h <= MaxPixels
      /\ e.size[1] \in Nat \ {0} /\ e.size[2] \in Nat \ {0}
      /\ e.size[1] <= MaxSide /\ e.size[2] <= MaxSide
  <2>1. /\ PictureOf(e).w = e.size[1] /\ PictureOf(e).h = e.size[2]
        /\ PictureOK(PictureOf(e))
    BY DEF PictureOf, Picture, EditFits
  <2> HIDE DEF PictureOf
  <2> QED
    BY <2>1 DEF PictureOK
<1> DEFINE rw == Width(e.region)
           rh == Height(e.region)
<1>7. /\ MaxSide \in Nat /\ MaxPixels \in Nat /\ MaxSide <= MaxRegion
      /\ MaxPixels <= MaxPngPixels /\ MaxRegion \in Nat /\ MaxPngPixels \in Nat
  BY BoundsAssumption DEF ManifestsAgree, MaxRegion, MaxPngPixels
<1>8. rw * rh <= MaxPngPixels /\ Inside(e.region, MaxRegion, MaxRegion)
        /\ Inside(e.crop, MaxRegion, MaxRegion)
  <2>1. rw \in Nat /\ rh \in Nat /\ rw <= source.w /\ rh <= source.h
    BY <1>5, <1>6 DEF Width, Height
  <2>2. \A a, b, c, d \in Nat : a <= c /\ b <= d => a * b <= c * d
    <3> TAKE a, b, c, d \in Nat
    <3> HAVE a <= c /\ b <= d
    <3>1. a * b <= c * b
      OBVIOUS
    <3>2. c * b <= c * d
      OBVIOUS
    <3> QED
      BY <3>1, <3>2
  <2>3. rw * rh <= source.w * source.h
    <3> HIDE DEF rw, rh
    <3> QED
      BY <1>6, <2>1, <2>2
  <2>4. rw * rh <= MaxPngPixels
    <3>1. rw * rh \in Nat /\ source.w * source.h \in Nat
      BY <1>6, <2>1
    <3> HIDE DEF rw, rh
    <3> QED
      BY <1>6, <1>7, <2>3, <3>1
  <2>5. Inside(e.region, MaxRegion, MaxRegion) /\ Inside(e.crop, MaxRegion, MaxRegion)
    BY <1>5, <1>6, <1>7 DEF Inside
  <2> QED
    BY <2>4, <2>5
<1>9. /\ x.insert.crop = e.crop /\ x.insert.w = rw /\ x.insert.h = rh
      /\ DOMAIN x.insert.px = (0..(rw - 1)) \X (0..(rh - 1))
  BY HonestInsert
<1> HIDE DEF rw, rh
<1>10. InsertOK(x.insert)
  BY <1>8, <1>9 DEF InsertOK
<1>11. ConfirmationOK(x.confirmation)
  <2>1. x.confirmation.target.bounds = e.region
    BY <1>2 DEF ConfirmationIs
  <2> QED
    BY <1>8, <2>1 DEF ConfirmationOK, rw, rh
<1>12. BundleOK(x.bundle, x.packet) /\ x.raw \in x.bundle.outputs /\ x.raw.eligible
  <2>1. /\ x.bundle.packet = x.packet /\ x.bundle.receipts = {x.raw.receipt}
        /\ x.bundle.outputs = {x.raw}
    BY <1>1
  <2>2. x.raw.intent = x.packet /\ x.raw.eligible
    BY <1>2 DEF RawIs
  <2> QED
    BY <2>1, <2>2 DEF BundleOK
<1> DEFINE replayed == VerifyStructure(x.source, x.raw.receipt, x.raw.index, x.bytes, x.raw)
<1>13. replayed = [judgment |-> x.structural, raster |-> x.raster]
  <2>1. PictureOK(PictureOf(e))
    BY DEF EditFits, PictureOf
  <2>2. VerifyStructure(source, RawOf(e, x.packet).receipt, 1, RawOf(e, x.packet).content,
                        RawOf(e, x.packet))
          = [judgment |-> StructureOf(source, RawOf(e, x.packet), RasterOf(e)),
             raster |-> RasterOf(e)]
    BY <2>1, StructureJudged
  <2>3. x.raw.index = 1
    BY <1>2 DEF RawIs
  <2> QED
    BY <1>1, <2>2, <2>3
<1>14. VerdictsReplay(x, replayed)
  <2>1. /\ ~IsFailed(replayed) /\ replayed.raster = x.raster
        /\ replayed.judgment = x.structural
    BY <1>13 DEF IsFailed
  <2>2. RawLocality(x.source, x.raster, x.mask, x.raw, replayed) = x.locality
    BY <1>1, <1>13 DEF LocalityOf
  <2> HIDE DEF replayed
  <2> QED
    BY <2>1, <2>2 DEF VerdictsReplay
<1> QED
  BY <1>3, <1>4, <1>10, <1>11, <1>12, <1>14 DEF AncestryReplays

LEMMA HonestPacket ==
    ASSUME NEW e, NEW source, NEW x, Honest(e, source, x), PictureOK(source),
           EditFits(e, source)
    PROVE  PacketBinds(x)
<1>1. /\ x.source = source /\ x.mask = MaskOf(source, e.region)
      /\ x.packet = Packet(e, source, x.mask)
  BY DEF Honest
<1>2. /\ x.packet.principal = "user" /\ x.packet.session = e.session
      /\ x.packet.source = source /\ x.packet.mask = x.mask /\ x.packet.region = e.region
  BY <1>1 DEF Packet
<1>3. ConfirmationIs(e, source, x, x.confirmation)
  BY HonestConfirmation
<1>4. /\ x.insert.confirmation = x.confirmation
      /\ x.insert.w = Width(e.region) /\ x.insert.h = Height(e.region)
  BY HonestInsert
<1>5. RectangleMask(source, e.region) = x.mask
  BY <1>1, MaskCompiles
<1> QED
  BY <1>1, <1>2, <1>3, <1>4, <1>5 DEF PacketBinds, ConfirmationIs

\* An edit put together by the code, over a source of any size within the bounds, is
\* composed: no check of what it binds or replays refuses it.
THEOREM HonestComposes ==
    ASSUME NEW e, NEW source, NEW x, Honest(e, source, x), PictureOK(source),
           EditFits(e, source), ManifestsAgree
    PROVE  ~IsFailed(Compose(x))
<1> DEFINE pic == PastedPicture(x)
           png == EncodePng(pic)
           compiled == Compile(png, png)
           output == [content |-> png, w |-> pic.w, h |-> pic.h, px |-> pic.px]
           occurrence ==
             [intent |-> x.packet, original |-> png, output |-> output,
              lineage |-> [source |-> x.source, mask |-> x.mask, raw |-> x.raw,
                           raster |-> x.raster, structural |-> x.structural,
                           locality |-> x.locality, insert |-> x.insert,
                           confirmation |-> x.insert.confirmation]]
           structural == CompositorStructure(x.source, occurrence, output)
           locality == CompositorLocality(x.source, output, x.mask, occurrence, structural)
<1>1. x.source = source /\ x.mask = MaskOf(source, e.region)
        /\ x.packet.region = e.region
        /\ x.insert = CompileInsert(x.raster, x.raw, x.structural, x.locality, x.confirmation)
  BY DEF Honest, Packet
<1>2. AncestryReplays(x) /\ PacketBinds(x) /\ ~IsFailed(x.insert)
  BY HonestAncestry, HonestPacket, HonestInsert
<1>3. PictureOK(pic) /\ ComposedPng(x) = png
  BY <1>1, PastedOK
<1>4. Compose(x) = Produce(x, png, compiled)
  <2>1. EncodePng([w |-> x.source.w, h |-> x.source.h,
                   px |-> Paste(x.source, x.insert, x.packet.region)]) = png
    BY DEF PastedPicture
  <2> HIDE DEF png, pic
  <2> QED
    BY <1>1, <1>2, <2>1 DEF Compose
<1>5. /\ pic.w = source.w /\ pic.h = source.h
      /\ pic.px = [p \in DOMAIN source.px |->
            IF In(p, e.region)
            THEN x.insert.px[<<p[1] - e.region.left, p[2] - e.region.top>>]
            ELSE source.px[p]]
  BY <1>1 DEF PastedPicture, Paste
<1> HIDE DEF pic
<1>6. compiled = [inspection |-> Inspection(png.image, pic.w, pic.h), raster |-> output]
  BY <1>3, EncodedCompiles
<1>7. /\ png.image.w = pic.w /\ png.image.h = pic.h /\ png.image.px = pic.px
      /\ EncodePng(png.image) = png
  BY DEF EncodePng
<1> HIDE DEF png, compiled
<1>8. ~IsFailed(compiled) /\ compiled.raster = output
  BY <1>6 DEF IsFailed
<1>9. /\ occurrence.original = png /\ occurrence.output = output
      /\ occurrence.lineage.source = source
  BY <1>1
<1>10. /\ output.w = source.w /\ output.h = source.h /\ output.px = pic.px
  BY <1>5
<1> HIDE DEF output, occurrence
<1>11. OccurrenceOK(occurrence, png)
  BY <1>6, <1>7, <1>9 DEF OccurrenceOK, PngOK, compiled
<1>12. structural = [verifier |-> "structure", subject |-> [occurrence |-> occurrence],
                     state |-> "pass", source |-> source, content |-> png, raster |-> output]
  BY <1>1, <1>9, <1>10, <1>11 DEF CompositorStructure
<1> HIDE DEF structural
<1>13. /\ ~IsFailed(structural) /\ structural.subject = [occurrence |-> occurrence]
       /\ structural.source = source /\ structural.raster = output
  BY <1>12 DEF IsFailed
<1>14. ChangedOutside(source, output, x.mask) = {}
  <2>1. x.mask.bits = [p \in DOMAIN source.px |-> IF In(p, e.region) THEN 1 ELSE 0]
    BY <1>1 DEF MaskOf
  <2>2. \A p \in DOMAIN x.mask.bits : x.mask.bits[p] = 0 => source.px[p] = output.px[p]
    BY <1>5, <1>10, <2>1
  <2> QED
    BY <2>2 DEF ChangedOutside
<1>15. x.mask.source = source
  BY <1>1 DEF MaskOf
<1>16. ~IsFailed(locality) /\ locality.state = "pass"
  <2>1. locality = [verifier |-> "locality", subject |-> structural.subject,
                    state |-> IF ChangedOutside(source, output, x.mask) = {}
                              THEN "pass" ELSE "fail",
                    source |-> source, mask |-> x.mask, output |-> output,
                    changed |-> Cardinality(ChangedOutside(source, output, x.mask))]
    BY <1>1, <1>13, <1>15 DEF CompositorLocality
  <2> HIDE DEF locality
  <2> QED
    BY <1>14, <2>1 DEF IsFailed
<1> HIDE DEF locality
<1> DEFINE made == [insert |-> x.insert, png |-> png, output |-> output,
                    occurrence |-> occurrence, structural |-> structural,
                    locality |-> locality]
<1>17. Produce(x, png, compiled) = made
  <2>1. compiled.raster.px = png.image.px
    BY <1>7, <1>8, <1>10
  <2>2. occurrence =
          [intent |-> x.packet, original |-> png, output |-> compiled.raster,
           lineage |-> [source |-> x.source, mask |-> x.mask, raw |-> x.raw,
                        raster |-> x.raster, structural |-> x.structural,
                        locality |-> x.locality, insert |-> x.insert,
                        confirmation |-> x.insert.confirmation]]
    BY <1>8 DEF occurrence
  <2>3. structural = CompositorStructure(x.source, occurrence, compiled.raster)
    BY <1>8 DEF structural
  <2>4. locality = CompositorLocality(x.source, compiled.raster, x.mask, occurrence, structural)
    BY <1>8 DEF locality
  <2> QED
    BY <1>8, <1>11, <1>13, <1>16, <2>1, <2>2, <2>3, <2>4 DEF Produce
<1>18. ~IsFailed(made)
  BY DEF IsFailed
<1> QED
  BY <1>4, <1>17, <1>18

\* Two edits of sources three pixels wide and two high, within the bounds, that differ in
\* nothing else when they differ in time; and which of the second one's artifacts are
\* handed over with the first one's.
CompositeInput ==
    input.kind = "composite" =>
        /\ ManifestsAgree /\ 3 <= MaxSide /\ 6 <= MaxPixels
        /\ EditFits(input.edit, Picture(3, 2, input.edit.source))
        /\ EditFits(input.other, Picture(3, 2, input.other.source))
        /\ input.taken \subseteq ToSet(Artifacts)
        /\ input.edit.at # input.other.at =>
              \A a \in Aspects \ {"at"} : input.edit[a] = input.other[a]

SourcePicture(e) == Picture(3, 2, e.source)

SourceOf(e) ==
    [content |-> EncodePng(SourcePicture(e)), w |-> 3, h |-> 2, px |-> SourcePicture(e).px]

LEMMA SourceFits ==
    ASSUME NEW e, ManifestsAgree, 3 <= MaxSide, 6 <= MaxPixels,
           EditFits(e, Picture(3, 2, e.source))
    PROVE  /\ PictureOK(SourceOf(e)) /\ EditFits(e, SourceOf(e))
           /\ Compile(EncodePng(SourcePicture(e)), EncodePng(SourcePicture(e))).raster
                = SourceOf(e)
<1> DEFINE pic == SourcePicture(e)
           source == SourceOf(e)
<1>1. /\ pic.w = 3 /\ pic.h = 2
      /\ DOMAIN pic.px = (0..(3 - 1)) \X (0..(2 - 1))
  BY DEF SourcePicture, Picture
<1>2. source.w = 3 /\ source.h = 2 /\ source.px = pic.px
  BY DEF SourceOf
<1>3. pic.px = [p \in (0..(pic.w - 1)) \X (0..(pic.h - 1)) |-> pic.px[p]]
  BY DEF SourcePicture, Picture
<1>4. EditFits(e, pic)
  BY DEF SourcePicture
<1>5. MaxSide \in Nat /\ MaxPixels \in Nat
  BY BoundsAssumption
<1> HIDE DEF pic, source
<1>6. PictureOK(pic) /\ PictureOK(source)
  BY <1>1, <1>2, <1>3, <1>5 DEF PictureOK
<1>7. EditFits(e, source)
  BY <1>1, <1>2, <1>4 DEF EditFits
<1>8. Compile(EncodePng(pic), EncodePng(pic)).raster
        = [content |-> EncodePng(pic), w |-> pic.w, h |-> pic.h, px |-> pic.px]
  <2>1. Compile(EncodePng(pic), EncodePng(pic))
          = [inspection |-> Inspection(EncodePng(pic).image, pic.w, pic.h),
             raster |-> [content |-> EncodePng(pic), w |-> pic.w, h |-> pic.h,
                         px |-> pic.px]]
    BY <1>6, EncodedCompiles
  <2> QED
    BY <2>1
<1>9. source = [content |-> EncodePng(pic), w |-> pic.w, h |-> pic.h, px |-> pic.px]
  BY <1>1 DEF source, pic, SourceOf
<1> QED
  BY <1>6, <1>7, <1>8, <1>9 DEF source, pic

LEMMA WorldIsHonest ==
    ASSUME NEW e, ManifestsAgree, 3 <= MaxSide, 6 <= MaxPixels,
           EditFits(e, Picture(3, 2, e.source))
    PROVE  Honest(e, SourceOf(e), World(e))
<1>1. /\ PictureOK(SourceOf(e)) /\ EditFits(e, SourceOf(e))
      /\ Compile(EncodePng(SourcePicture(e)), EncodePng(SourcePicture(e))).raster
           = SourceOf(e)
  BY SourceFits
<1>2. World(e) = FromSource(e, SourceOf(e), RectangleMask(SourceOf(e), e.region))
  BY <1>1 DEF World, SourcePicture
<1> QED
  BY <1>1, <1>2, MadeHonestly

LEMMA ArtifactNames ==
    ToSet(Artifacts) = {"source", "mask", "packet", "bundle", "raw", "bytes", "raster",
                        "structural", "locality", "confirmation", "insert"}
<1>1. /\ DOMAIN Artifacts = 1..11
      /\ 1..11 = {1, 2, 3, 4, 5, 6, 7, 8, 9, 10, 11}
  BY DEF Artifacts
<1>2. /\ Artifacts[1] = "source" /\ Artifacts[2] = "mask" /\ Artifacts[3] = "packet"
      /\ Artifacts[4] = "bundle" /\ Artifacts[5] = "raw" /\ Artifacts[6] = "bytes"
      /\ Artifacts[7] = "raster" /\ Artifacts[8] = "structural"
      /\ Artifacts[9] = "locality" /\ Artifacts[10] = "confirmation"
      /\ Artifacts[11] = "insert"
  BY DEF Artifacts
<1> QED
  BY <1>1, <1>2 DEF ToSet

LEMMA NothingTaken ==
    ASSUME NEW e, NEW source, NEW x, Honest(e, source, x), NEW y
    PROVE  Mixed(x, y, {}) = x
<1>1. Mixed(x, y, {}) =
        [f \in {"source", "mask", "packet", "bundle", "raw", "bytes", "raster",
                "structural", "locality", "confirmation", "insert"} |-> x[f]]
  BY ArtifactNames DEF Mixed
<1>2. x = [source |-> x.source, mask |-> x.mask, packet |-> x.packet, bundle |-> x.bundle,
            raw |-> x.raw, bytes |-> x.bytes, raster |-> x.raster,
            structural |-> x.structural, locality |-> x.locality,
            confirmation |-> x.confirmation, insert |-> x.insert]
  BY DEF Honest
<1> QED
  BY <1>1, <1>2

\* Whatever composes with the confirmation of an edit, of pictures of any size, shows the
\* crop of that edit and of no other.
THEOREM ConfirmedCropShown ==
    ASSUME NEW e, NEW source, NEW y, Honest(e, source, y), PictureOK(source),
           EditFits(e, source), ManifestsAgree,
           NEW x, x.confirmation = y.confirmation, ~IsFailed(Compose(x))
    PROVE  ShowsCrop(Compose(x).output, e, PictureOf(e), source)
<1> DEFINE c == x.confirmation
           png == EncodePng(PictureOf(e))
           raw == Compile(x.bytes, x.bytes).raster
           left(p) == NearestOffset(p[1] - e.region.left, Width(e.crop), Width(e.region))
           top(p) == NearestOffset(p[2] - e.region.top, Height(e.crop), Height(e.region))
<1>1. ConfirmationIs(e, source, y, c)
  BY HonestConfirmation
<1>2. RawIs(e, y)
  BY HonestRaw
<1>3. /\ PacketBinds(x)
      /\ x.insert = CompileInsert(x.raster, x.raw, x.structural, x.locality, c)
      /\ ~IsFailed(x.insert)
  BY ComposeSteps
<1> HIDE DEF c
<1>4. RawInputsBind(x.raster, x.raw, x.structural, x.locality, c)
  <2>1. ~IsFailed(CompileInsert(x.raster, x.raw, x.structural, x.locality, c))
    BY <1>3
  <2> QED
    BY <2>1, InsertSteps
<1>5. x.raw = y.raw
  BY <1>1, <1>4 DEF RawInputsBind, ConfirmationIs
<1>6. x.source = source /\ x.packet.region = e.region /\ c.crop = e.crop
  BY <1>1, <1>3 DEF PacketBinds, ConfirmationIs, c
<1>7. EditTyped(x)
  BY <1>6 DEF EditTyped, EditFits, Bounds, PictureOK
<1>8. /\ x.bytes = x.raw.receipt.outputs[x.raw.index].content
      /\ \A p \in DOMAIN x.source.px :
            Compose(x).output.px[p] =
              IF In(p, x.packet.region)
              THEN raw.px[<<c.crop.left + NearestOffset(p[1] - x.packet.region.left,
                                            Width(c.crop), Width(x.packet.region)),
                            c.crop.top + NearestOffset(p[2] - x.packet.region.top,
                                            Height(c.crop), Height(x.packet.region))>>]
              ELSE x.source.px[p]
  BY <1>7, ComposesConfirmedCrop DEF c
<1>9. raw.px = PictureOf(e).px
  <2>1. x.bytes = png
    <3>1. y.raw.index = 1 /\ y.raw.receipt = ReceiptOf(png)
      BY <1>2 DEF RawIs
    <3> HIDE DEF png
    <3>2. ReceiptOf(png).outputs[1].content = png
      BY DEF ReceiptOf
    <3> QED
      BY <1>5, <1>8, <3>1, <3>2
  <2>2. PictureOK(PictureOf(e))
    BY DEF EditFits, PictureOf
  <2>3. Compile(png, png)
          = [inspection |-> Inspection(png.image, PictureOf(e).w, PictureOf(e).h),
             raster |-> [content |-> png, w |-> PictureOf(e).w, h |-> PictureOf(e).h,
                         px |-> PictureOf(e).px]]
    BY <2>2, EncodedCompiles
  <2> HIDE DEF png
  <2> QED
    BY <2>1, <2>3
<1> HIDE DEF raw
<1>10. \A p \in DOMAIN source.px :
          Compose(x).output.px[p] =
            IF In(p, e.region)
            THEN PictureOf(e).px[<<e.crop.left + left(p), e.crop.top + top(p)>>]
            ELSE source.px[p]
  BY <1>6, <1>8, <1>9
<1>11. ASSUME NEW p \in DOMAIN source.px, In(p, e.region)
       PROVE  /\ left(p) = UnderCentre(p[1] - e.region.left, Width(e.crop), Width(e.region))
              /\ top(p) = UnderCentre(p[2] - e.region.top, Height(e.crop), Height(e.region))
  <2>1. p[1] \in Int /\ p[2] \in Int
    BY DEF PictureOK
  <2>2. /\ Width(e.crop) \in Nat \ {0} /\ Width(e.region) \in Nat \ {0}
        /\ Height(e.crop) \in Nat \ {0} /\ Height(e.region) \in Nat \ {0}
    BY DEF EditFits, Bounds, Inside, Width, Height
  <2>3. /\ p[1] - e.region.left \in 0..(Width(e.region) - 1)
        /\ p[2] - e.region.top \in 0..(Height(e.region) - 1)
    BY <1>11, <2>1 DEF EditFits, Bounds, In, Width, Height
  <2> QED
    BY <2>2, <2>3, NearestIsUnderCentre
<1> DEFINE i(p) == UnderCentre(p[1] - e.region.left, Width(e.crop), Width(e.region))
           j(p) == UnderCentre(p[2] - e.region.top, Height(e.crop), Height(e.region))
<1>12. \A p \in DOMAIN source.px : In(p, e.region) => left(p) = i(p) /\ top(p) = j(p)
  BY <1>11
<1> HIDE DEF left, top, i, j
<1>13. \A p \in DOMAIN source.px :
          Compose(x).output.px[p] =
            IF In(p, e.region) THEN PictureOf(e).px[<<e.crop.left + i(p), e.crop.top + j(p)>>]
            ELSE source.px[p]
  <2> TAKE p \in DOMAIN source.px
  <2>1. CASE In(p, e.region)
    BY <1>10, <1>12, <2>1
  <2>2. CASE ~In(p, e.region)
    BY <1>10, <2>2
  <2> QED
    BY <2>1, <2>2
<1> QED
  BY <1>13 DEF ShowsCrop, i, j

\* Whatever was mixed, what is composed is the edit whose confirmation was handed
\* over; and an edit the code put together is always composed.
THEOREM CompositesAreConfirmed ==
    CompositeInput => CompositeIsTheConfirmedCrop
<1> SUFFICES ASSUME CompositeInput, input.kind = "composite"
             PROVE  CompositeIsTheConfirmedCrop
  BY DEF CompositeIsTheConfirmedCrop
<1> DEFINE one == World(input.edit)
           other == World(input.other)
           x == Mixed(one, other, input.taken)
           e == Handed(input)
           pic == Picture(e.size[1], e.size[2], e.raw)
<1>1. /\ ManifestsAgree /\ 3 <= MaxSide /\ 6 <= MaxPixels
      /\ EditFits(input.edit, Picture(3, 2, input.edit.source))
      /\ EditFits(input.other, Picture(3, 2, input.other.source))
  BY DEF CompositeInput
<1>2. /\ Honest(input.edit, SourceOf(input.edit), one)
      /\ Honest(input.other, SourceOf(input.other), other)
  BY <1>1, WorldIsHonest
<1>3. /\ PictureOK(SourceOf(input.edit)) /\ EditFits(input.edit, SourceOf(input.edit))
      /\ PictureOK(SourceOf(input.other)) /\ EditFits(input.other, SourceOf(input.other))
  BY <1>1, SourceFits
<1> HIDE DEF one, other
<1>4. input.taken = {} => ~IsFailed(Compose(x))
  <2> SUFFICES ASSUME input.taken = {}
               PROVE  ~IsFailed(Compose(x))
    OBVIOUS
  <2>1. x = one
    BY <1>2, NothingTaken
  <2>2. ~IsFailed(Compose(one))
    BY <1>1, <1>2, <1>3, HonestComposes
  <2> HIDE DEF x
  <2> QED
    BY <2>1, <2>2
<1>5. ~IsFailed(Compose(x)) =>
        ShowsCrop(Compose(x).output, e, pic, Picture(3, 2, e.source))
  <2> SUFFICES ASSUME ~IsFailed(Compose(x))
               PROVE  ShowsCrop(Compose(x).output, e, pic, Picture(3, 2, e.source))
    OBVIOUS
  <2> DEFINE y == IF "confirmation" \in input.taken THEN other ELSE one
  <2>1. x.confirmation = y.confirmation
    <3>1. "confirmation" \in ToSet(Artifacts)
      BY ArtifactNames
    <3> QED
      BY <3>1 DEF Mixed
  <2>2. Honest(e, SourceOf(e), y) /\ PictureOK(SourceOf(e)) /\ EditFits(e, SourceOf(e))
    BY <1>2, <1>3 DEF Handed
  <2> HIDE DEF x, y, e
  <2>3. ShowsCrop(Compose(x).output, e, PictureOf(e), SourceOf(e))
    BY <1>1, <2>1, <2>2, ConfirmedCropShown
  <2>4. SourceOf(e).px = Picture(3, 2, e.source).px
    BY DEF SourceOf, SourcePicture
  <2> QED
    BY <2>3, <2>4 DEF ShowsCrop, PictureOf
<1> HIDE DEF x, e
<1>6. AcceptedOnlyAs(Compose(x), e)
  BY <1>4, <1>5 DEF AcceptedOnlyAs
<1> QED
  BY <1>6 DEF CompositeIsTheConfirmedCrop, x, e, one, other

LEMMA NeverAFailure ==
    ASSUME NEW x, ~IsFailed(Compose(x))
    PROVE  ~IsFailed(Compose(x).occurrence)
<1>1. \E intent, original, output, lineage :
        Compose(x).occurrence = [intent |-> intent, original |-> original,
                                 output |-> output, lineage |-> lineage]
  BY ComposedOccurrence
<1> QED
  BY <1>1 DEF IsFailed

\* An edit that repeats another at a different time makes the same artifacts up to
\* the confirmation, and with the first confirmation all of them.
LEMMA RepeatIsTheSame ==
    ASSUME NEW e, NEW f, \A a \in Aspects \ {"at"} : e[a] = f[a],
           NEW source, NEW x, Honest(e, source, x), NEW y, Honest(f, source, y)
    PROVE  /\ ResolveConfirmation(x.confirmation, y.confirmation) = x.confirmation
           /\ RepeatedWith(y, x.confirmation) = x
<1>1. /\ e.source = f.source /\ e.raw = f.raw /\ e.size = f.size /\ e.crop = f.crop
      /\ e.region = f.region /\ e.session = f.session
  BY DEF Aspects
<1>2. PictureOf(e) = PictureOf(f)
  BY <1>1 DEF PictureOf
<1>3. x.mask = y.mask /\ x.source = y.source
  BY <1>1 DEF Honest
<1>4. x.packet = y.packet
  BY <1>1, <1>3 DEF Honest, Packet
<1>5. x.raw = y.raw /\ x.raster = y.raster
  BY <1>1, <1>2, <1>4 DEF Honest, RawOf, RasterOf
<1>6. x.bytes = y.bytes /\ x.bundle = y.bundle /\ x.structural = y.structural
        /\ x.locality = y.locality
  BY <1>3, <1>4, <1>5 DEF Honest
<1> DEFINE c == x.confirmation
           d == y.confirmation
<1>7. ConfirmationIs(e, source, x, c) /\ ConfirmationIs(f, source, y, d)
  BY HonestConfirmation
<1>8. /\ x.insert = CompileInsert(x.raster, x.raw, x.structural, x.locality, c)
      /\ x = [source |-> x.source, mask |-> x.mask, packet |-> x.packet, bundle |-> x.bundle,
              raw |-> x.raw, bytes |-> x.bytes, raster |-> x.raster,
              structural |-> x.structural, locality |-> x.locality,
              confirmation |-> c, insert |-> x.insert]
      /\ y = [source |-> y.source, mask |-> y.mask, packet |-> y.packet, bundle |-> y.bundle,
              raw |-> y.raw, bytes |-> y.bytes, raster |-> y.raster,
              structural |-> y.structural, locality |-> y.locality,
              confirmation |-> d, insert |-> y.insert]
  BY DEF Honest
<1> HIDE DEF c, d
<1>9. ConfirmationKey(c) = ConfirmationKey(d)
  <2>1. /\ c.principal = d.principal /\ c.session = d.session /\ c.intent = d.intent
        /\ c.raw = d.raw /\ c.raster = d.raster /\ c.structural = d.structural
        /\ c.locality = d.locality /\ c.crop = d.crop /\ c.target = d.target
    BY <1>1, <1>3, <1>4, <1>5, <1>6, <1>7 DEF ConfirmationIs
  <2> QED
    BY <2>1 DEF ConfirmationKey, Preview
<1>10. ResolveConfirmation(c, d) = c
  BY <1>9 DEF ResolveConfirmation
<1>11. RepeatedWith(y, c) = x
  <2>1. CompileInsert(y.raster, y.raw, y.structural, y.locality, c) = x.insert
    BY <1>5, <1>6, <1>8
  <2>2. RepeatedWith(y, c) = [y EXCEPT !.confirmation = c, !.insert = x.insert]
    BY <2>1 DEF RepeatedWith
  <2>3. RepeatedWith(y, c) =
          [source |-> y.source, mask |-> y.mask, packet |-> y.packet, bundle |-> y.bundle,
           raw |-> y.raw, bytes |-> y.bytes, raster |-> y.raster,
           structural |-> y.structural, locality |-> y.locality,
           confirmation |-> c, insert |-> x.insert]
    BY <1>8, <2>2
  <2> QED
    BY <1>3, <1>4, <1>5, <1>6, <1>8, <2>3
<1> QED
  BY <1>10, <1>11 DEF c, d

\* One key has one output, for every two edits of pictures of those sizes.
THEOREM OneKeyHasOneOutput ==
    CompositeInput => OneKeyOneOutput
<1> SUFFICES ASSUME CompositeInput, input.kind = "composite"
             PROVE  OneKeyOneOutput
  BY DEF OneKeyOneOutput
<1> DEFINE e == input.edit
           f == input.other
           one == World(e)
           other == World(f)
           first == Compose(one).occurrence
           second == Compose(other).occurrence
<1>1. /\ ManifestsAgree /\ 3 <= MaxSide /\ 6 <= MaxPixels
      /\ EditFits(e, Picture(3, 2, e.source)) /\ EditFits(f, Picture(3, 2, f.source))
  BY DEF CompositeInput
<1>2. Honest(e, SourceOf(e), one) /\ Honest(f, SourceOf(f), other)
  BY <1>1, WorldIsHonest
<1>3. /\ PictureOK(SourceOf(e)) /\ EditFits(e, SourceOf(e))
      /\ PictureOK(SourceOf(f)) /\ EditFits(f, SourceOf(f))
  BY <1>1, SourceFits
<1>4. e.at # f.at => \A a \in Aspects \ {"at"} : e[a] = f[a]
  BY DEF CompositeInput
<1> HIDE DEF e, f, one, other
<1>5. ~IsFailed(Compose(one)) /\ ~IsFailed(Compose(other))
  BY <1>1, <1>2, <1>3, HonestComposes
<1>6. ~IsFailed(first) /\ ~IsFailed(second)
  BY <1>5, NeverAFailure
<1>7. /\ ResolveReplay(first, second)
           = IF ReplayKey(first) = ReplayKey(second) THEN first ELSE second
      /\ ResolveReplay(first, first) = first
  <2>1. ResolveReplay(first, first)
          = IF ReplayKey(first) = ReplayKey(first) THEN first ELSE first
    BY <1>5, OneKeyOneOccurrence
  <2> QED
    BY <1>5, <2>1, OneKeyOneOccurrence
<1>8. ~IsFailed(ResolveReplay(first, second))
  <2> HIDE DEF first, second
  <2> QED
    BY <1>6, <1>7
<1>9. ASSUME e.at # f.at
      PROVE  Compose(RepeatedWith(other,
                 ResolveConfirmation(one.confirmation, other.confirmation))).occurrence
               = first
  <2>1. \A a \in Aspects \ {"at"} : e[a] = f[a]
    BY <1>4, <1>9
  <2>2. SourceOf(f) = SourceOf(e)
    BY <2>1 DEF Aspects, SourceOf, SourcePicture
  <2>3. /\ ResolveConfirmation(one.confirmation, other.confirmation) = one.confirmation
        /\ RepeatedWith(other, one.confirmation) = one
    BY <1>2, <2>1, <2>2, RepeatIsTheSame
  <2> QED
    BY <2>3
<1> DEFINE again == Compose(RepeatedWith(other,
                        ResolveConfirmation(one.confirmation, other.confirmation))).occurrence
<1>10. e.at # f.at => ResolveReplay(first, again) = first
  <2> HIDE DEF first, again
  <2> QED
    BY <1>7, <1>9 DEF again
<1>11. Resolved(first, one, other)
  <2>1. input.edit.at # input.other.at => ResolveReplay(first, again) = first
    BY <1>10 DEF e, f
  <2> QED
    BY <1>8, <2>1 DEF Resolved
<1>12. OneOutput(one, other)
  BY <1>11 DEF OneOutput
<1> QED
  BY <1>12 DEF OneKeyOneOutput, one, other, e, f
=============================================================================
