------------------------ MODULE MCOpenRouterDispatch ------------------------
(***************************************************************************)
(* Small instances of concurrent dispatch.                                 *)
(***************************************************************************)
EXTENDS OpenRouterDispatch, TLC

\* Calls and claim identifiers are interchangeable.
CallSymmetry == Permutations(Dispatchers) \cup Permutations(ClaimIds)
=============================================================================
