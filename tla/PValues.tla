------------------------------ MODULE PValues ------------------------------
(***************************************************************************)
(* Nonconformity and the conformal p-value of src/moodboard/conformal.py,  *)
(* over an abstract bag: items are natural numbers (a reference's row      *)
(* index; the candidate is the largest) and d[i][j] is the cosine distance *)
(* of two rows in whole units.  Means are compared through their sums, so  *)
(* every comparison the code makes on reals is made exactly; what a        *)
(* rounding of the last bit would do to a tie is not modelled.             *)
(***************************************************************************)
EXTENDS Integers, FiniteSets, FiniteSetsExt

Smaller(a, b) == IF a < b THEN a ELSE b

\* A row's k nearest other rows; equal distances keep the row order.
Nearest(d, bag, i, k) ==
    LET others == bag \ {i}
        Closer(a, b) == d[i][a] < d[i][b] \/ (d[i][a] = d[i][b] /\ a < b)
    IN {j \in others : Cardinality({o \in others : Closer(o, j)}) < k}

\* k times the mean distance of every row to its k nearest other rows.
Nonconformity(d, bag, k) ==
    [i \in bag |-> MapThenSumSet(LAMBDA j : d[i][j], Nearest(d, bag, i, k))]

\* Faulty variant: a tie is not counted.
StrictlyMoreUnusual(d, refs, c, k) ==
    LET alpha == Nonconformity(d, refs \cup {c}, k)
    IN 1 + Cardinality({r \in refs : alpha[r] > alpha[c]})

\* The numerator of the p-value over the augmented bag: one for the candidate,
\* and one for every reference at least as unusual.
AtLeastAsUnusual(d, refs, c, k) ==
    LET alpha == Nonconformity(d, refs \cup {c}, k)
    IN 1 + Cardinality({r \in refs : alpha[r] >= alpha[c]})

\* conformal_p_value: that count over n + 1, at k clamped to the references.
PCount(d, refs, c, k) == AtLeastAsUnusual(d, refs, c, Smaller(k, Cardinality(refs)))
=============================================================================
