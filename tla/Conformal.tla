------------------------------ MODULE Conformal ------------------------------
(***************************************************************************)
(* The scoring machinery of src/moodboard/conformal.py, as operators over  *)
(* an abstract bag: items are natural numbers (a reference's row index;    *)
(* the candidate is the largest), d[i][j] is the cosine distance of two    *)
(* rows in whole units, and h[i] the rank of an item's content hash in     *)
(* lexicographic order.  Means are compared through their sums, and        *)
(* quotients by cross multiplication, so every comparison the code makes   *)
(* on reals is made exactly; what a rounding of the last bit would do to   *)
(* a tie is not modelled.                                                  *)
(***************************************************************************)
EXTENDS PValues, Sequences, SequencesExt, Functions

Pairs(S) == {p \in S \X S : p[1] < p[2]}

\* The members of a set in a strict total order, a set of pairs: each stands where
\* the number of those before it says.
InOrder(S, before) ==
    [n \in 1..Cardinality(S) |->
        CHOOSE x \in S : Cardinality({y \in S : <<y, x>> \in before}) = n - 1]

Ascending(S) == InOrder(S, Pairs(S))

\* The first of a non-empty set under a strict order.
Least(S, Before(_, _)) == CHOOSE x \in S : \A y \in S \ {x} : ~Before(y, x)

\* Lexicographic order of integer sequences of one length.
LexLess(s, t) ==
    \E i \in DOMAIN s : s[i] < t[i] /\ \A j \in 1..(i - 1) : s[j] = t[j]

-----------------------------------------------------------------------------
\* The category partition: a function from a cluster's id to its members.

LinkSum(d, A, B) == MapThenSumSet(LAMBDA p : d[p[1]][p[2]], A \X B)
LinkSize(A, B) == Cardinality(A) * Cardinality(B)

MinHash(h, A) == Min({h[i] : i \in A})

\* Faulty variant: a tie falls to the clusters' ids, so to the order of the rows.
MergesBeforeById(d, h, clusters, p, q) ==
    LET A == clusters[p[1]]  B == clusters[p[2]]
        C == clusters[q[1]]  D == clusters[q[2]]
        left == LinkSum(d, A, B) * LinkSize(C, D)
        right == LinkSum(d, C, D) * LinkSize(A, B)
    IN left < right \/ (left = right /\ LexLess(p, q))

\* Average-linkage distance first, then the sorted pair of the two smallest
\* hashes, then the ids.
MergesBefore(d, h, clusters, p, q) ==
    LET A == clusters[p[1]]  B == clusters[p[2]]
        C == clusters[q[1]]  D == clusters[q[2]]
        left == LinkSum(d, A, B) * LinkSize(C, D)
        right == LinkSum(d, C, D) * LinkSize(A, B)
        Key(X, Y, r) == << Min({MinHash(h, X), MinHash(h, Y)}),
                           Max({MinHash(h, X), MinHash(h, Y)}), r[1], r[2] >>
    IN left < right \/ (left = right /\ LexLess(Key(A, B, p), Key(C, D, q)))

\* clusters[a] | clusters[b] kept under a, b deleted.
Absorb(clusters, a, b) ==
    [id \in DOMAIN clusters \ {b} |->
        IF id = a THEN clusters[a] \cup clusters[b] ELSE clusters[id]]

\* One round of the agglomeration: the nearest two clusters merge, if they are
\* within the cut.
MergeNearest(d, h, clusters, cut) ==
    LET best == Least(Pairs(DOMAIN clusters),
                      LAMBDA p, q : MergesBefore(d, h, clusters, p, q))
        A == clusters[best[1]]
        B == clusters[best[2]]
    IN IF Cardinality(DOMAIN clusters) = 1 \/ LinkSum(d, A, B) > cut * LinkSize(A, B)
         THEN clusters ELSE Absorb(clusters, best[1], best[2])

\* The loop: every round but an idle one leaves a cluster less.
Agglomerate(d, h, clusters, cut) ==
    LET after[n \in 0..Cardinality(DOMAIN clusters)] ==
          IF n = 0 THEN clusters ELSE MergeNearest(d, h, after[n - 1], cut)
    IN after[Cardinality(DOMAIN clusters)]

\* The nearest other category of an undersized one: by average distance, then
\* smallest hash, then id.
FoldTarget(d, h, clusters, victim) ==
    LET V == clusters[victim]
        Before(a, b) ==
            LET A == clusters[a]  B == clusters[b]
                left == LinkSum(d, V, A) * LinkSize(V, B)
                right == LinkSum(d, V, B) * LinkSize(V, A)
            IN left < right
               \/ (left = right /\ LexLess(<<MinHash(h, A), a>>, <<MinHash(h, B), b>>))
    IN Least(DOMAIN clusters \ {victim}, Before)

\* One round of the repair: the smallest category below the minimum is merged
\* into its nearest neighbour.
MergeSmallest(d, h, clusters, minSize) ==
    LET undersized == {id \in DOMAIN clusters : Cardinality(clusters[id]) < minSize}
        Key(id) == <<Cardinality(clusters[id]), MinHash(h, clusters[id]), id>>
        victim == Least(undersized, LAMBDA a, b : LexLess(Key(a), Key(b)))
    IN IF Cardinality(DOMAIN clusters) = 1 \/ undersized = {} THEN clusters
       ELSE Absorb(clusters, FoldTarget(d, h, clusters, victim), victim)

MergeUndersized(d, h, clusters, minSize) ==
    LET after[n \in 0..Cardinality(DOMAIN clusters)] ==
          IF n = 0 THEN clusters ELSE MergeSmallest(d, h, after[n - 1], minSize)
    IN after[Cardinality(DOMAIN clusters)]

\* Every category of the augmented bag, the candidate a full member of it.
Categories(d, bag, h, cut, minSize) ==
    MergeUndersized(d, h, Agglomerate(d, h, [i \in bag |-> {i}], cut), minSize)

\* _assign_category_ids: the categories in the order of their smallest hashes;
\* an id is a position.
AssignCategoryIds(h, clusters) ==
    LET ids == DOMAIN clusters
        order == InOrder(ids, {p \in ids \X ids :
                   LexLess(<<MinHash(h, clusters[p[1]]), p[1]>>,
                           <<MinHash(h, clusters[p[2]]), p[2]>>)})
    IN [n \in DOMAIN order |-> clusters[order[n]]]

\* The reference sets of the named categories, and the candidate's own.
PartitionBy(named, c) ==
    LET own == CHOOSE n \in DOMAIN named : c \in named[n]
    IN [category |-> own,
        members |-> named[own] \ {c},
        all |-> [n \in DOMAIN named |-> named[n] \ {c}]]

\* partition_categories
Partition(d, refs, c, h, cut, minSize) ==
    PartitionBy(AssignCategoryIds(h, Categories(d, refs \cup {c}, h, cut, minSize)), c)

-----------------------------------------------------------------------------
\* Near-duplicate groups and the effective sample size.

Root(parent, x) ==
    LET find[y \in DOMAIN parent] == IF parent[y] = y THEN y ELSE find[parent[y]]
    IN find[x]

\* Faulty variant: the nodes are linked instead of their roots.
LinkNodes(parent, a, b) == [parent EXCEPT ![Max({a, b})] = Min({a, b})]

Link(parent, a, b) ==
    LET ra == Root(parent, a)  rb == Root(parent, b)
    IN [parent EXCEPT ![Max({ra, rb})] = Min({ra, rb})]

\* duplicate_groups: union-find over the pairs within the cut, in row order.
DuplicateGroups(d, refs, cut) ==
    LET near == {p \in Pairs(refs) : d[p[1]][p[2]] <= cut}
        close == InOrder(near, {pq \in near \X near : LexLess(pq[1], pq[2])})
        after[n \in 0..Cardinality(near)] ==
          IF n = 0 THEN [i \in refs |-> i] ELSE Link(after[n - 1], close[n][1], close[n][2])
        parent == after[Cardinality(near)]
    IN {{j \in refs : Root(parent, j) = r} : r \in {Root(parent, i) : i \in refs}}

\* kish_n_eff of a set of disjoint groups, as a fraction: the squared sum of their
\* sizes over the sum of the squares.
NEff(groups) ==
    LET total == MapThenSumSet(LAMBDA g : Cardinality(g), groups)
        squares == MapThenSumSet(LAMBDA g : Cardinality(g) * Cardinality(g), groups)
    IN IF groups = {} THEN <<0, 1>> ELSE <<total * total, squares>>

-----------------------------------------------------------------------------
\* Empirical intervals (type-7 quantiles) and the leave-one-out folds.

\* den times the quantile num/den of a sorted sequence.
QuantileTimes(s, num, den) ==
    LET at == (Len(s) - 1) * num
        low == at \div den
        rest == at % den
    IN IF rest = 0 THEN s[low + 1] * den
       ELSE s[low + 1] * (den - rest) + s[low + 2] * rest

Sorted(s) == SortSeq(s, LAMBDA a, b : a < b)

\* The central level (a fraction num/den), its ends scaled by 2 * den.
EmpiricalInterval(s, level) ==
    [low |-> QuantileTimes(Sorted(s), level[2] - level[1], 2 * level[2]),
     high |-> QuantileTimes(Sorted(s), level[2] + level[1], 2 * level[2])]

\* One fold: the candidate's p-value count with one reference held out.
FoldCount(d, members, held, c, k) ==
    LET reduced == members \ {held}
    IN AtLeastAsUnusual(d, reduced, c, Smaller(k, Cardinality(reduced)))

Folds(d, members, c, k) ==
    LET held == Ascending(members)
    IN [i \in DOMAIN held |-> FoldCount(d, members, held[i], c, k)]

LooInterval(d, members, c, k, level) ==
    EmpiricalInterval(Folds(d, members, c, k), level)

\* The difference of two candidates over the same folds.
PairedInterval(d, members, a, b, k, level) ==
    LET fa == Folds(d, members, a, k)
        fb == Folds(d, members, b, k)
    IN EmpiricalInterval([i \in DOMAIN fa |-> fa[i] - fb[i]], level)
=============================================================================
