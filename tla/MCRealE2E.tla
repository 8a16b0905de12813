----------------------------- MODULE MCRealE2E -----------------------------
(***************************************************************************)
(* A small instance of the paid run: one challenge, confirmed in either of *)
(* two contexts of one session, and two calls.                             *)
(***************************************************************************)
EXTENDS RealE2E, TLC

CONSTANTS s1, o1, x1, x2, q1

MCConfirmations ==
    {[context |-> x1, challenge |-> q1, session |-> s1, owner |-> o1,
      confirmed |-> 0, expires |-> 1],
     [context |-> x2, challenge |-> q1, session |-> s1, owner |-> o1,
      confirmed |-> 1, expires |-> 1]}

CallSymmetry == Permutations(Executors)
=============================================================================
