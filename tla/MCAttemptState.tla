--------------------------- MODULE MCAttemptState ---------------------------
(***************************************************************************)
(* Feeds the reducer every history that legally extends by one arbitrary   *)
(* event, legal or not: foreign attempts, wrong sequence numbers, changed  *)
(* handles, unauthorised cancellations, one event too many.                *)
(***************************************************************************)
EXTENDS AttemptState

CONSTANT Subject      \* the attempt whose history is reduced

VARIABLE history

\* The next event may repeat the last sequence number, be the next one, or skip.
Supplied == {e \in Events : e.sequence \in {Len(history), Len(history) + 1, MaxEvents}}

MCInit == history = <<>>

Supply ==
    /\ Len(history) <= MaxEvents
    /\ Reduce(Subject, history) # Rejected
    /\ \E e \in Supplied : history' = Append(history, e)

-----------------------------------------------------------------------------
\* The one-pass reducer accepts exactly the histories of the declarative
\* contract, and computes the same head: state, event, next sequence and the
\* provider handle remembered across events (attempt_state.py
\* reduce_attempt_events).  Its bound on the length is exact: the transitions
\* alone admit no longer history.  And a history it lets end in succeeded is one
\* of the two traces in the table of the bundle validator, written separately,
\* so a success is never reducible and yet impossible to publish for its shape.
ReducerMeetsContract ==
    /\ IF LegalHistory(Subject, history)
         THEN Reduce(Subject, history) = HeadOf(history)
         ELSE Reduce(Subject, history) = Rejected
    /\ LegalTrace(Subject, history) => Len(history) <= MaxEvents
    /\ (LegalHistory(Subject, history) /\ HeadOf(history).state = "succeeded")
         => BundleTrace(history)
=============================================================================
