----------------------------- MODULE Abstention -----------------------------
(***************************************************************************)
(* When the engine refuses to score a candidate (src/moodboard/abstain.py).*)
(* A partition is Conformal's record; a requested alpha is a fraction      *)
(* <<num, den>> strictly between 0 and 1; the far-outlier multiplier a     *)
(* fraction as well.                                                       *)
(***************************************************************************)
EXTENDS Conformal

\* category_n_eff: the board's near-duplicate groups cut down to the
\* candidate's own category, empty groups dropped.
CategoryNEff(members, groups) == NEff({g \cap members : g \in groups} \ {{}})

\* 1 / (n + 1) for a fractional n, as a fraction.
Floor(n) == <<n[2], n[1] + n[2]>>

AtLeast(p, q) == p[1] * q[2] >= q[1] * p[2]

\* Faulty variant: the candidate is counted as one of its own references.
CheckResolutionWithCandidate(partition, alpha, groups) ==
    LET local == Cardinality(partition.members)
        all == MapThenSumSet(LAMBDA n : Cardinality(partition.all[n]), DOMAIN partition.all)
    IN IF AtLeast(alpha, Floor(<<local + 1, 1>>)) THEN "none"
       ELSE IF local = all THEN "resolution" ELSE "multi_modality"

\* check_resolution: refuse an alpha strictly below the duplicate-aware floor
\* of the candidate's category; the reason says whether that category is the
\* whole board.
CheckResolution(partition, alpha, groups) ==
    LET local == Cardinality(partition.members)
        all == MapThenSumSet(LAMBDA n : Cardinality(partition.all[n]), DOMAIN partition.all)
        neff == CategoryNEff(partition.members, groups)
    IN IF AtLeast(alpha, Floor(neff)) THEN "none"
       ELSE IF local = all THEN "resolution" ELSE "multi_modality"

\* check_far_outlier: beyond the largest reference value by the multiplier
\* times the interquartile range (type-7 quartiles, everything scaled by 4).
CheckFarOutlier(candidate, alphas, multiplier) ==
    LET s == Sorted(alphas)
        iqr == QuantileTimes(s, 3, 4) - QuantileTimes(s, 1, 4)
    IN IF 4 * multiplier[2] * candidate > 4 * multiplier[2] * Last(s) + multiplier[1] * iqr
         THEN "far_outlier" ELSE "none"

\* evaluate_abstention: one reason at most, the resolution asked first.
EvaluateAbstention(partition, alpha, candidate, alphas, groups, multiplier) ==
    LET resolution == CheckResolution(partition, alpha, groups)
    IN IF resolution # "none" THEN resolution
       ELSE CheckFarOutlier(candidate, alphas, multiplier)
=============================================================================
