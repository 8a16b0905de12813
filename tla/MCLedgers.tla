----------------------------- MODULE MCLedgers -----------------------------
(***************************************************************************)
(* Small instances of the ledger: in one mode the file is brought to       *)
(* exist, in the other it is used.  In use there is one challenge, which    *)
(* two owners confirm in the contexts of their sessions.                    *)
(***************************************************************************)
EXTENDS ConfirmationLedger, LedgerBootstrap, TLC

CONSTANTS s1, s2, o1, o2, x1, x2, q1

MCConfirmations ==
    {[context |-> x1, challenge |-> q1, session |-> s1, owner |-> o1,
      confirmed |-> 0, expires |-> 1],
     [context |-> x2, challenge |-> q1, session |-> s2, owner |-> o2,
      confirmed |-> 1, expires |-> 2]}

VARIABLE mode    \* whether the ledger's file is brought to exist, or used

\* Calls are interchangeable.
CallSymmetry == Permutations(Recorders) \cup Permutations(Openers)

MCInit == LedgerInit /\ BootInit /\ mode \in {"bootstrap", "use"}
MCNext ==
    /\ UNCHANGED mode
    /\ \/ mode = "bootstrap" /\ BootNext /\ UNCHANGED ledgerVars
       \/ mode = "use" /\ LedgerNext /\ UNCHANGED bootVars
MCSpec == MCInit /\ [][MCNext]_<<ledgerVars, bootVars, mode>>
=============================================================================
