---------------------------- MODULE AttemptState ----------------------------
(***************************************************************************)
(* The pure reduction of one generation attempt's event history            *)
(* (moodboard/attempt_state.py), and the trace table the relational bundle *)
(* validator keeps independently of it (moodboard/provider_artifacts.py).  *)
(*                                                                         *)
(* An event is content addressed: its identifier is a digest of all its    *)
(* fields, so an event record here is its own identifier, and two events   *)
(* are the same event exactly when the records are equal.                  *)
(***************************************************************************)
EXTENDS Naturals, Sequences

CONSTANTS
    Attempts,      \* attempt identifiers
    Times,         \* values of recorded_at, as naturals: clocks are not synchronised
    Handles,       \* provider handles a submitted / outcome_unknown event may carry
    NoHandle,      \* the null handle
    Payloads,      \* identities of provider responses (receipt and exact bytes)
    NoEvent        \* the null head_event_id

ASSUME StateAssumption ==
    /\ Times \subseteq Nat
    /\ NoHandle \notin Handles
    /\ Payloads \cap {"none"} = {}

-----------------------------------------------------------------------------
(* States and transitions.                                                 *)

States == {"prepared", "submitted", "outcome_unknown", "response_received",
           "succeeded", "failed", "cancelled"}

TerminalStates == {"succeeded", "failed", "cancelled"}

\* Faulty variant: a second outcome_unknown may follow the first.
UnknownRepeats ==
    [prepared          |-> {"failed", "cancelled", "submitted"},
     submitted         |-> {"response_received", "failed", "cancelled", "outcome_unknown"},
     outcome_unknown   |-> {"response_received", "failed", "cancelled", "outcome_unknown"},
     response_received |-> {"succeeded", "failed"},
     succeeded         |-> {},
     failed            |-> {},
     cancelled         |-> {}]

\* Faulty variant: an unknown outcome may succeed without its response.
UnknownSucceeds ==
    [prepared          |-> {"failed", "cancelled", "submitted"},
     submitted         |-> {"response_received", "failed", "cancelled", "outcome_unknown"},
     outcome_unknown   |-> {"response_received", "succeeded", "failed", "cancelled"},
     response_received |-> {"succeeded", "failed"},
     succeeded         |-> {},
     failed            |-> {},
     cancelled         |-> {}]

LegalTransitions ==
    [prepared          |-> {"failed", "cancelled", "submitted"},
     submitted         |-> {"response_received", "failed", "cancelled", "outcome_unknown"},
     outcome_unknown   |-> {"response_received", "failed", "cancelled"},
     response_received |-> {"succeeded", "failed"},
     succeeded         |-> {},
     failed            |-> {},
     cancelled         |-> {}]

\* An attempt history holds at most this many events (_MAX_EVENTS).
MaxEvents == 5

Authorities == {"local_pre_dispatch", "provider_confirmed_no_output"}

\* The failure codes the adapter writes, by what they tell apart.
FailureCodes == {"credential_unavailable", "provider_rejected", "output_invalid",
                 "output_persistence_failed"}

\* The detail a closed event schema admits for each state.  A response_received
\* event names its receipt, a succeeded event its output occurrences.
DetailOf(state) ==
    CASE state = "failed"            -> FailureCodes
      [] state = "cancelled"         -> Authorities
      [] state = "response_received" -> Payloads
      [] state = "succeeded"         -> Payloads
      [] OTHER                       -> {"none"}

HandleOf(state) ==
    IF state \in {"submitted", "outcome_unknown"} THEN Handles \cup {NoHandle}
                                                  ELSE {NoHandle}

Event(attempt, sequence, state, at, handle, detail) ==
    [attempt |-> attempt, sequence |-> sequence, state |-> state,
     at |-> at, handle |-> handle, detail |-> detail]

\* The schema lets sequence run to 2^31 - 1; one past the bound stands for the rest.
SequenceNumbers == 1..(MaxEvents + 1)

\* Every event the schema admits, whether or not it extends some history.
Events ==
    {e \in [attempt  : Attempts,
            sequence : SequenceNumbers,
            state    : States,
            at       : Times,
            handle   : Handles \cup {NoHandle},
            detail   : {"none"} \cup FailureCodes \cup Authorities \cup Payloads] :
        e.detail \in DetailOf(e.state) /\ e.handle \in HandleOf(e.state)}

-----------------------------------------------------------------------------
(* reduce_attempt_events, as the code runs it: one pass over the supplied   *)
(* order, keeping the head and the provider handle seen so far.             *)

EmptyHead == [state |-> "none", head |-> NoEvent, next |-> 1, handle |-> NoHandle]

Rejected == [state |-> "rejected", head |-> NoEvent, next |-> 0, handle |-> NoHandle]

CancellationAuthority(predecessor, e) ==
    e.state = "cancelled" =>
        e.detail = IF predecessor = "prepared" THEN "local_pre_dispatch"
                                               ELSE "provider_confirmed_no_output"

EventProviderHandle(e) ==
    IF e.state \in {"submitted", "outcome_unknown"} THEN e.handle ELSE NoHandle

\* Faulty variant: the authority of a cancellation is not checked.
AcceptsAnyAuthority(attempt, h, position, e) ==
    /\ h # Rejected
    /\ e.attempt = attempt
    /\ e.sequence = position
    /\ IF h.state = "none"
         THEN e.state = "prepared"
         ELSE /\ h.state \notin TerminalStates
              /\ e.state \in LegalTransitions[h.state]
    /\ \/ NoHandle \in {EventProviderHandle(e), h.handle}
       \/ EventProviderHandle(e) = h.handle

Accepts(attempt, h, position, e) ==
    /\ h # Rejected
    /\ e.attempt = attempt
    /\ e.sequence = position
    /\ IF h.state = "none"
         THEN e.state = "prepared"
         ELSE /\ h.state \notin TerminalStates
              /\ e.state \in LegalTransitions[h.state]
              /\ CancellationAuthority(h.state, e)
    /\ \/ NoHandle \in {EventProviderHandle(e), h.handle}
       \/ EventProviderHandle(e) = h.handle

Reduce(attempt, history) ==
    LET pass[n \in 0..Len(history)] ==
          IF n = 0 THEN EmptyHead
          ELSE LET h == pass[n - 1]
                   e == history[n]
               IN  IF ~Accepts(attempt, h, n, e) THEN Rejected
                   ELSE [state  |-> e.state,
                         head   |-> e,
                         next   |-> n + 1,
                         handle |-> IF EventProviderHandle(e) = NoHandle
                                      THEN h.handle ELSE EventProviderHandle(e)]
    IN  IF Len(history) > MaxEvents THEN Rejected ELSE pass[Len(history)]

-----------------------------------------------------------------------------
(* The same contract stated over positions instead of as a pass.  The       *)
(* journal is modelled with these two, which a proof can use directly.      *)

HandlesSeen(history) ==
    {EventProviderHandle(history[i]) : i \in 1..Len(history)} \ {NoHandle}

LegalTrace(attempt, history) ==
    /\ \A i \in 1..Len(history) : /\ history[i].attempt = attempt
                                  /\ history[i].sequence = i
    /\ history # <<>> => history[1].state = "prepared"
    /\ \A i \in 2..Len(history) :
          /\ history[i].state \in LegalTransitions[history[i - 1].state]
          /\ CancellationAuthority(history[i - 1].state, history[i])
    /\ \A h1, h2 \in HandlesSeen(history) : h1 = h2

LegalHistory(attempt, history) ==
    /\ Len(history) <= MaxEvents
    /\ LegalTrace(attempt, history)

HeadOf(history) ==
    IF history = <<>> THEN EmptyHead
    ELSE [state  |-> history[Len(history)].state,
          head   |-> history[Len(history)],
          next   |-> Len(history) + 1,
          handle |-> IF HandlesSeen(history) = {} THEN NoHandle
                     ELSE CHOOSE h \in HandlesSeen(history) : TRUE]

-----------------------------------------------------------------------------
(* The trace table of provider_artifacts._validate_event_bindings, kept    *)
(* there independently of the reducer.                                      *)

BundleTrace(history) ==
    /\ history # <<>>
    /\ [i \in 1..Len(history) |-> history[i].sequence] = [i \in 1..Len(history) |-> i]
    /\ LET last == history[Len(history)].state
       IN  /\ last \in {"succeeded", "failed"}
           /\ [i \in 1..Len(history) |-> history[i].state] \in
                 {<<"prepared", "submitted", "response_received", last>>,
                  <<"prepared", "submitted", "outcome_unknown",
                    "response_received", last>>}
=============================================================================
