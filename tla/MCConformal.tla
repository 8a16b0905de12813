----------------------------- MODULE MCConformal -----------------------------
(***************************************************************************)
(* The p-value over a bag given as an input: a record of kind "bag" with   *)
(* the items, their distances and the number of neighbours.                *)
(***************************************************************************)
EXTENDS PValues

VARIABLE input     \* the algorithm's input, tagged with the algorithm

\* conformal_p_value is a p-value: over any bag of n + 1 exchangeable items, at
\* most t of them, taken in turn as the candidate, get a count of t or less.
\* It needs the candidate to be in the neighbour pool of every reference.
PValueIsValid ==
    input.kind = "bag" =>
        \A t \in 0..Cardinality(input.bag) :
            Cardinality({c \in input.bag :
                PCount(input.d, input.bag \ {c}, c, input.k) <= t}) <= t
=============================================================================
