--------------------------- MODULE AttemptJournal ---------------------------
(***************************************************************************)
(* The durable attempt journal (moodboard/attempt_journal.py): append-only *)
(* SQLite tables that any number of processes open.  Every write operation *)
(* is one BEGIN IMMEDIATE transaction, so here it is one step over the     *)
(* tables.  What a caller read earlier, outside that transaction, is only  *)
(* the compare-and-append token it presents (and, for a success, the       *)
(* snapshot it decoded): any head the attempt ever had may be presented,   *)
(* however old.  An operation whose verdict is not "created" leaves the    *)
(* tables alone.  A COMMIT can become durable without its acknowledgement  *)
(* reaching the caller, which matters for the claim: only an acknowledged  *)
(* new claim tells its caller to send.                                     *)
(***************************************************************************)
EXTENDS AttemptState, FiniteSets

CONSTANTS
    Runs,              \* generation-run identifiers
    Intents,           \* what a run and its attempts must agree on (packet, provider, model)
    Capabilities,      \* capability snapshots
    NonIdempotent,     \* those that declare no safe retransmission
    ClaimIds,          \* dispatch claim identifiers, with the wire body they bind
    Admissible,        \* responses whose media and provenance can be admitted
    NoRow              \* an absent row

ASSUME JournalAssumption ==
    /\ NonIdempotent \subseteq Capabilities
    /\ Admissible \subseteq Payloads

VARIABLES
    runs,          \* generation_runs: the intent a run is registered with
    attempts,      \* generation_attempts: the descriptor of a registered attempt
    events,        \* attempt_events, in sequence order
    claims,        \* non_idempotent_dispatch_claims
    responses,     \* provider_responses with their provider_response_outputs
    successes,     \* provider_successes with their provider_output_occurrences
    authorized     \* how many callers received send_authorized = True

tables == <<runs, attempts, events, claims, responses, successes>>
journalVars == <<runs, attempts, events, claims, responses, successes, authorized>>

-----------------------------------------------------------------------------
(* Rows, tokens and the verification every operation runs first.            *)

Descriptors == [run : Runs, intent : Intents, capability : Capabilities]

Token == [head : Events \cup {NoEvent}, next : 1..(MaxEvents + 1)]

TokenOf(history) == [head |-> HeadOf(history).head, next |-> HeadOf(history).next]

Claims == [id : ClaimIds, attempt : Attempts, capability : Capabilities,
           head : Events \cup {NoEvent}, next : 1..(MaxEvents + 1), at : Times]

Receipts == [attempt : Attempts, payload : Payloads, at : Times,
             handle : Handles \cup {NoHandle}]

Packages == [attempt : Attempts, packet : Intents, payload : Payloads]

ASSUME RowAssumption ==
    /\ NoRow \notin Intents
    /\ NoRow \notin Descriptors
    /\ NoRow \notin Claims
    /\ NoRow \notin Receipts
    /\ NoRow \notin Packages

\* The events the journal derives itself; callers never supply these.
SubmittedEvent(claim) ==
    Event(claim.attempt, claim.next, "submitted", claim.at, NoHandle, "none")

\* Faulty variant: the receipt's provider handle is copied into the event, a
\* field the closed event schema does not have for this state.
ResponseEventWithHandle(receipt, sequence) ==
    Event(receipt.attempt, sequence, "response_received", receipt.at, receipt.handle,
          receipt.payload)

ResponseEvent(receipt, sequence) ==
    Event(receipt.attempt, sequence, "response_received", receipt.at, NoHandle,
          receipt.payload)

SucceededEvent(a, sequence, at, payload) ==
    Event(a, sequence, "succeeded", at, NoHandle, payload)

InState(history, state) == {i \in 1..Len(history) : history[i].state = state}

Prefix(history, n) == SubSeq(history, 1, n)

\* _provider_receipt_binding, against the history the receipt would extend.
ReceiptBinds(a, receipt, history) ==
    /\ receipt.attempt = a
    /\ history # <<>> => receipt.at >= HeadOf(history).head.at
    /\ HeadOf(history).handle \in {NoHandle, receipt.handle}

\* Faulty variant: media admission does not look at the recorded times.
CandidatesIgnoringClock(a, history, receipt, packet, at) ==
    /\ receipt.payload \in Admissible
    /\ packet = attempts[a].intent
    /\ BundleTrace(Append(history,
                          SucceededEvent(a, Len(history) + 1, at, receipt.payload)))

\* build_provider_success_candidates: what the media and relational gates
\* demand of the history, the response and the caller's packet.
Candidates(a, history, receipt, packet, at) ==
    /\ receipt.payload \in Admissible
    /\ packet = attempts[a].intent
    /\ \A i \in 2..Len(history) : history[i - 1].at <= history[i].at
    /\ at >= history[Len(history)].at
    /\ BundleTrace(Append(history,
                          SucceededEvent(a, Len(history) + 1, at, receipt.payload)))

\* _verify_claim_for_attempt
ClaimVerifies(a) ==
    LET submitted == InState(events[a], "submitted")
    IN  IF claims[a] = NoRow THEN submitted = {}
        ELSE \E i \in submitted :
                /\ submitted = {i}
                /\ events[a][i] = SubmittedEvent(claims[a])
                /\ i > 1
                /\ events[a][i - 1].state = "prepared"
                /\ events[a][i - 1] = claims[a].head
                /\ claims[a].next = i
                /\ claims[a].capability = attempts[a].capability
                /\ claims[a].capability \in NonIdempotent

\* _verify_provider_response_for_attempt and _load_provider_response
ResponseVerifies(a) ==
    LET received == InState(events[a], "response_received")
    IN  IF responses[a] = NoRow THEN received = {}
        ELSE \E i \in received :
                /\ received = {i}
                /\ events[a][i] = ResponseEvent(responses[a], i)
                /\ ReceiptBinds(a, responses[a], Prefix(events[a], i - 1))

\* _verify_provider_success_for_attempt, _load_provider_success and the
\* rederivation of _deep_verify_provider_success
SuccessVerifies(a) ==
    LET succeeded == InState(events[a], "succeeded")
    IN  IF successes[a] = NoRow THEN succeeded = {}
        ELSE \E i \in succeeded :
                /\ succeeded = {i}
                /\ responses[a] # NoRow
                /\ claims[a] # NoRow
                /\ successes[a].payload = responses[a].payload
                /\ events[a][i] =
                      SucceededEvent(a, i, events[a][i].at, successes[a].payload)
                /\ Candidates(a, Prefix(events[a], i - 1), responses[a],
                              successes[a].packet, events[a][i].at)

\* _load_bound_attempt, _reduce_stored and the three verifications above:
\* when one fails the operation raises JournalCorruptionError.
Verifies(a) ==
    /\ attempts[a].intent = runs[attempts[a].run]
    /\ LegalHistory(a, events[a])
    /\ ClaimVerifies(a)
    /\ ResponseVerifies(a)
    /\ SuccessVerifies(a)

\* _check_head
CheckHead(a, token) == token = TokenOf(events[a])

\* What every read operation demands (read_state, read_events, read_attempt,
\* read_provider_response, read_provider_success, verify_integrity).
Readable(a) == attempts[a] # NoRow /\ Verifies(a)

-----------------------------------------------------------------------------
(* Registration.                                                            *)

JournalInit ==
    /\ runs = [r \in Runs |-> NoRow]
    /\ attempts = [a \in Attempts |-> NoRow]
    /\ events = [a \in Attempts |-> <<>>]
    /\ claims = [a \in Attempts |-> NoRow]
    /\ responses = [a \in Attempts |-> NoRow]
    /\ successes = [a \in Attempts |-> NoRow]
    /\ authorized = [a \in Attempts |-> 0]

\* register_run: a registered run replays when its bytes agree, else conflicts.
RegisterRun(r, intent) ==
    /\ runs[r] = NoRow
    /\ runs' = [runs EXCEPT ![r] = intent]
    /\ UNCHANGED <<attempts, events, claims, responses, successes, authorized>>

\* Faulty variant: a second attempt may take the run's ordinal.
RegisterSibling(a, d) ==
    /\ runs[d.run] = d.intent
    /\ attempts[a] = NoRow
    /\ attempts' = [attempts EXCEPT ![a] = d]
    /\ UNCHANGED <<runs, events, claims, responses, successes, authorized>>

\* register_attempt: only ordinal one, bound to its registered run, and one
\* attempt per (run, ordinal).
RegisterAttempt(a, d) ==
    /\ runs[d.run] = d.intent
    /\ attempts[a] = NoRow
    /\ \A b \in Attempts : attempts[b] # NoRow => attempts[b].run # d.run
    /\ attempts' = [attempts EXCEPT ![a] = d]
    /\ UNCHANGED <<runs, events, claims, responses, successes, authorized>>

-----------------------------------------------------------------------------
(* append_event                                                             *)

\* States only the claim, response and success transactions may write.
Reserved == {"submitted", "response_received", "succeeded"}

\* The slot already holds exactly this event: success without a write, whatever
\* the token, so a lost acknowledgement can be repaired.
AppendReplays(a, e) ==
    /\ Readable(a)
    /\ e.state \notin Reserved
    /\ e.sequence \in 1..Len(events[a])
    /\ events[a][e.sequence] = e

\* Faulty variant: the new history is not reduced before the insert.
AppendUnreduced(a, e, token) ==
    /\ e.state \notin Reserved
    /\ e.sequence = Len(events[a]) + 1
    /\ CheckHead(a, token)
    /\ Readable(a)

AppendCreates(a, e, token) ==
    /\ e.state \notin Reserved
    /\ e.sequence \notin 1..Len(events[a])
    /\ CheckHead(a, token)
    /\ LegalHistory(a, Append(events[a], e))
    /\ Readable(a)

\* Faulty variant: an occupied slot is replaced (INSERT OR REPLACE).
OverwriteEvent(a, e, token) ==
    LET n == e.sequence
        rest == SubSeq(events[a], n + 1, Len(events[a]))
        replaced == Append(Prefix(events[a], n - 1), e) \o rest
    IN  /\ e.state \notin Reserved
        /\ n <= Len(events[a]) + 1
        /\ LegalHistory(a, replaced)
        /\ Readable(a)
        /\ events' = [events EXCEPT ![a] = replaced]
        /\ UNCHANGED <<runs, attempts, claims, responses, successes, authorized>>

AppendEvent(a, e, token) ==
    /\ AppendCreates(a, e, token)
    /\ events' = [events EXCEPT ![a] = Append(@, e)]
    /\ UNCHANGED <<runs, attempts, claims, responses, successes, authorized>>

-----------------------------------------------------------------------------
(* claim_non_idempotent_dispatch                                            *)

CapabilityBinds(claim) ==
    /\ claim.capability = attempts[claim.attempt].capability
    /\ claim.capability \in NonIdempotent

ClaimReplays(claim) ==
    /\ claims[claim.attempt] = claim
    /\ Readable(claim.attempt)
    /\ CapabilityBinds(claim)

ClaimCreates(claim) ==
    /\ claims[claim.attempt] = NoRow
    /\ Readable(claim.attempt)
    /\ CapabilityBinds(claim)
    /\ CheckHead(claim.attempt, [head |-> claim.head, next |-> claim.next])
    /\ HeadOf(events[claim.attempt]).state = "prepared"
    /\ LegalHistory(claim.attempt,
                    Append(events[claim.attempt], SubmittedEvent(claim)))
    /\ \A b \in Attempts : claims[b] # NoRow => claims[b].id # claim.id

\* The claim row and the submitted event commit together.  Only the caller
\* whose COMMIT is acknowledged is told to send.
ClaimDispatch(claim, acknowledged) ==
    /\ ClaimCreates(claim)
    /\ events' = [events EXCEPT ![claim.attempt] = Append(@, SubmittedEvent(claim))]
    /\ claims' = [claims EXCEPT ![claim.attempt] = claim]
    /\ authorized' = IF acknowledged
                       THEN [authorized EXCEPT ![claim.attempt] = @ + 1]
                       ELSE authorized
    /\ UNCHANGED <<runs, attempts, responses, successes>>

\* Faulty variant: an identical claim found in place is taken for one's own.
ReplayAuthorizes(claim) ==
    /\ ClaimReplays(claim)
    /\ authorized' = [authorized EXCEPT ![claim.attempt] = @ + 1]
    /\ UNCHANGED tables

\* An exact replay returns the stored claim with send_authorized = False.
ReplayClaim(claim) ==
    /\ ClaimReplays(claim)
    /\ UNCHANGED journalVars

-----------------------------------------------------------------------------
(* publish_provider_response                                                *)

ResponseReplays(receipt) ==
    /\ Readable(receipt.attempt)
    /\ responses[receipt.attempt] = receipt

\* Faulty variant: evidence is accepted whatever the stored history says.
ResponseUnbound(receipt, token) ==
    /\ Readable(receipt.attempt)
    /\ responses[receipt.attempt] = NoRow
    /\ CheckHead(receipt.attempt, token)
    /\ HeadOf(events[receipt.attempt]).state \in {"submitted", "outcome_unknown"}

ResponseCreates(receipt, token) ==
    LET a == receipt.attempt
    IN  /\ responses[a] = NoRow
        /\ ReceiptBinds(a, receipt, events[a])
        /\ CheckHead(a, token)
        /\ HeadOf(events[a]).state \in {"submitted", "outcome_unknown"}
        /\ LegalHistory(a, Append(events[a], ResponseEvent(receipt, token.next)))
        /\ Readable(a)

\* Receipt, exact bytes and response_received commit together.
PublishResponse(receipt, token) ==
    /\ ResponseCreates(receipt, token)
    /\ events' = [events EXCEPT ![receipt.attempt] =
                      Append(@, ResponseEvent(receipt, token.next))]
    /\ responses' = [responses EXCEPT ![receipt.attempt] = receipt]
    /\ UNCHANGED <<runs, attempts, claims, successes, authorized>>

-----------------------------------------------------------------------------
(* publish_provider_success: read a snapshot, release it, decode the media,  *)
(* then reopen a write transaction and compare everything again.            *)

SuccessReplays(a, packet) ==
    /\ Readable(a)
    /\ successes[a] # NoRow
    /\ successes[a].packet = packet

\* The snapshot `seen` was read when it was the whole history, and everything
\* up to and including media admission passed on it.
SnapshotAdmits(a, seen, packet, at) ==
    /\ claims[a] # NoRow
    /\ InState(seen, "response_received") # {}
    /\ HeadOf(seen).state = "response_received"
    /\ Candidates(a, seen, responses[a], packet, at)

SuccessCreates(a, seen, packet, at, token) ==
    /\ events[a] = seen
    /\ successes[a] = NoRow
    /\ SnapshotAdmits(a, seen, packet, at)
    /\ Readable(a)
    /\ CheckHead(a, token)
    /\ HeadOf(events[a]).state = "response_received"
    /\ token.next = Len(seen) + 1
    /\ LegalHistory(a, Append(events[a],
                              SucceededEvent(a, token.next, at, responses[a].payload)))

\* Occurrences, success row and succeeded commit together.
PublishSuccess(a, seen, packet, at, token) ==
    /\ SuccessCreates(a, seen, packet, at, token)
    /\ events' = [events EXCEPT ![a] =
                      Append(@, SucceededEvent(a, token.next, at, responses[a].payload))]
    /\ successes' = [successes EXCEPT ![a] =
                      [attempt |-> a, packet |-> packet, payload |-> responses[a].payload]]
    /\ UNCHANGED <<runs, attempts, claims, responses, authorized>>

-----------------------------------------------------------------------------
(* Any caller, any token it may ever have read.                             *)

Prefixes(a) == {Prefix(events[a], n) : n \in 0..Len(events[a])}

Tokens(a) == {TokenOf(h) : h \in Prefixes(a)}

Register ==
    \/ \E r \in Runs, intent \in Intents : RegisterRun(r, intent)
    \/ \E a \in Attempts, d \in Descriptors : RegisterAttempt(a, d)

AppendAny ==
    \E a \in Attempts, state \in States, n \in SequenceNumbers, at \in Times :
      \E handle \in HandleOf(state), detail \in DetailOf(state), token \in Tokens(a) :
        AppendEvent(a, Event(a, n, state, at, handle, detail), token)

ClaimAny ==
    \E a \in Attempts, id \in ClaimIds, c \in Capabilities, at \in Times :
      \E token \in Tokens(a) :
        LET claim == [id |-> id, attempt |-> a, capability |-> c,
                      head |-> token.head, next |-> token.next, at |-> at]
        IN  \/ \E acknowledged \in BOOLEAN : ClaimDispatch(claim, acknowledged)
            \/ ReplayClaim(claim)

PublishResponseAny ==
    \E receipt \in Receipts : \E token \in Tokens(receipt.attempt) :
        PublishResponse(receipt, token)

PublishSuccessAny ==
    \E a \in Attempts, packet \in Intents, at \in Times :
      \E seen \in Prefixes(a), token \in Tokens(a) :
        PublishSuccess(a, seen, packet, at, token)

JournalNext ==
    \/ Register
    \/ AppendAny
    \/ ClaimAny
    \/ PublishResponseAny
    \/ PublishSuccessAny

JournalSpec == JournalInit /\ [][JournalNext]_journalVars

-----------------------------------------------------------------------------
(* Properties.                                                              *)

TypeOK ==
    /\ runs \in [Runs -> Intents \cup {NoRow}]
    /\ attempts \in [Attempts -> Descriptors \cup {NoRow}]
    /\ events \in [Attempts -> Seq(Events)]
    /\ claims \in [Attempts -> Claims \cup {NoRow}]
    /\ responses \in [Attempts -> Receipts \cup {NoRow}]
    /\ successes \in [Attempts -> Packages \cup {NoRow}]
    /\ authorized \in [Attempts -> Nat]

\* The journal never declares itself corrupt: after any interleaving of
\* transactions with any stale tokens, the verification that opens every later
\* operation passes for every registered attempt, so JournalCorruptionError
\* can only come from outside the journal.
JournalSound == \A a \in Attempts : attempts[a] # NoRow => Verifies(a)

\* At most one caller is ever told to send an attempt, and only with the claim
\* and the submitted event already durable.
OneAuthorization ==
    \A a \in Attempts :
        /\ authorized[a] <= 1
        /\ authorized[a] = 1 => claims[a] # NoRow /\ InState(events[a], "submitted") # {}

\* Two attempts of one run are never both sent: the run's single ordinal is
\* what keeps a second registration from buying a second send.
RunSentOnce ==
    \A a, b \in Attempts :
        (authorized[a] > 0 /\ authorized[b] > 0 /\ attempts[a].run = attempts[b].run)
            => a = b

\* The timestamps of a succeeded history never run backwards, although neither
\* append_event nor the claim compares them: a history with a regressing clock
\* must be unable to succeed.
SuccessInOrder ==
    \A a \in Attempts :
        successes[a] # NoRow =>
            \A i, j \in 1..Len(events[a]) : i < j => events[a][i].at <= events[a][j].at

\* Rows are immutable and histories only grow: no operation rewrites or drops
\* what an earlier caller was told.
RowKept(old, new) == \A k \in DOMAIN old : old[k] # NoRow => new[k] = old[k]

AppendOnly ==
    [][ /\ RowKept(runs, runs')
        /\ RowKept(attempts, attempts')
        /\ RowKept(claims, claims')
        /\ RowKept(responses, responses')
        /\ RowKept(successes, successes')
        /\ \A a \in Attempts :
              /\ Len(events'[a]) >= Len(events[a])
              /\ Prefix(events'[a], Len(events[a])) = events[a] ]_tables

\* Once a claim is durable nobody is authorized again, not even after the
\* winner's acknowledgement was lost and it asks with the very same claim.
NoReauthorization ==
    [][\A a \in Attempts : claims[a] # NoRow => authorized'[a] = authorized[a]]_journalVars

\* The journal implements the abstract lifecycle, with the head state of a
\* registered attempt as its phase.
Phase(a) == IF attempts[a] = NoRow THEN "unregistered" ELSE HeadOf(events[a]).state

Lifecycle == INSTANCE AttemptLifecycle
    WITH phase <- [a \in Attempts |-> Phase(a)], grants <- authorized

ImplementsLifecycle == Lifecycle!LifecycleSpec
=============================================================================
