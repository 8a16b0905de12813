-------------------------- MODULE MCAttemptJournal --------------------------
(***************************************************************************)
(* Small instances of the attempt journal.                                 *)
(***************************************************************************)
EXTENDS AttemptJournal, TLC

\* Interchangeable identifiers: nothing orders runs, attempts or claim ids.
IdSymmetry == Permutations(Attempts) \cup Permutations(ClaimIds) \cup Permutations(Runs)
=============================================================================
