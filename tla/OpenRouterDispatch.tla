------------------------- MODULE OpenRouterDispatch -------------------------
(***************************************************************************)
(* dispatch_openrouter_attempt (moodboard/openrouter.py): any number of    *)
(* concurrent calls, in any processes, over one attempt journal.  A call   *)
(* runs as a sequence of journal transactions and one transport call, so a *)
(* step here ends at each point where another process can interleave.      *)
(*                                                                         *)
(* What can go wrong: a transaction can fail, or can become durable while  *)
(* its acknowledgement is lost (both raise the same AttemptJournalError);  *)
(* a read can fail; the caller's clock can step back; the process can be   *)
(* killed at any point.  At most MaxFaults transactions or reads fail.     *)
(***************************************************************************)
EXTENDS AttemptJournal

CONSTANTS
    Dispatchers,       \* calls of dispatch_openrouter_attempt
    MaxFaults,         \* bound: how many journal calls fail or lose their answer
    MonotoneClock,     \* TRUE: the recorded_at callable never steps back
    Crashes            \* TRUE: a call may be killed between any two steps

ASSUME DispatchAssumption ==
    /\ MaxFaults \in Nat
    /\ MonotoneClock \in BOOLEAN
    /\ Crashes \in BOOLEAN

VARIABLES
    pc,        \* where each call is; a final value is what its caller observed
    call,      \* its arguments: attempt, claim identifier, claimed_at
    seen,      \* the AttemptState it last took from the journal
    product,   \* the event or receipt it is about to make durable
    sent,      \* how many POSTs it made
    faults     \* journal calls that failed so far

callVars == <<pc, call, seen, product, sent, faults>>
dispatchVars == <<journalVars, callVars>>

Calls == [attempt : Attempts, id : ClaimIds, at : Times]

\* What the caller gets back: a result kind, an exception, or nothing at all.
Reports == {"not_sent", "failed", "outcome_unknown", "response_received",
            "raised", "crashed"}

\* The states after the claim was acknowledged to this very call.
Authorized == {"send", "transport", "record", "publish", "publish_reread",
               "republish", "republish_reread"}

PCs == {"idle", "credential", "preflight", "preflight_reread", "claim", "replayed",
        "claim_reread"} \cup Authorized \cup Reports

-----------------------------------------------------------------------------

Att(d) == call[d].attempt

Current(d) == HeadOf(events[Att(d)])

\* read_state: the head state, unless the stored history does not verify.
StateRead(d) == IF Readable(Att(d)) THEN Current(d).state ELSE "unreadable"

SeenToken(d) == [head |-> seen[d].head, next |-> seen[d].next]

ClaimOf(d) ==
    [id |-> call[d].id, attempt |-> Att(d), capability |-> attempts[Att(d)].capability,
     head |-> seen[d].head, next |-> seen[d].next, at |-> call[d].at]

Goto(d, p) == pc' = [pc EXCEPT ![d] = p]

\* A journal call that raises, whether or not its COMMIT became durable.
Fault == faults < MaxFaults /\ faults' = faults + 1

DispatchInit ==
    /\ JournalInit
    /\ pc = [d \in Dispatchers |-> "idle"]
    /\ call = [d \in Dispatchers |-> NoRow]
    /\ seen = [d \in Dispatchers |-> EmptyHead]
    /\ product = [d \in Dispatchers |-> NoRow]
    /\ sent = [d \in Dispatchers |-> 0]
    /\ faults = 0

\* read_attempt and read_state at entry, then the claimed_at check and, for a
\* recorded_at given as a string, the check that it is not behind claimed_at.
\* From here on such a string is a clock that always gives the same answer.
Start(d, arguments) ==
    LET state == HeadOf(events[arguments.attempt])
    IN  /\ pc[d] = "idle"
        /\ call' = [call EXCEPT ![d] = arguments]
        /\ \/ /\ Readable(arguments.attempt)
              /\ state.state = "prepared" => arguments.at >= state.head.at
              /\ seen' = [seen EXCEPT ![d] = state]
              /\ Goto(d, IF state.state = "prepared" THEN "credential" ELSE "not_sent")
           \/ /\ Readable(arguments.attempt) =>
                    /\ state.state = "prepared"
                    /\ \/ arguments.at < state.head.at
                       \/ \E at \in Times : at < arguments.at
              /\ Goto(d, "raised")
              /\ UNCHANGED seen
        /\ UNCHANGED <<journalVars, product, sent, faults>>

\* Resolve the credential and rescan the prepared request.  A failure samples
\* the clock against the prepared head and builds failed(preflight).
ResolveCredential(d) ==
    /\ pc[d] = "credential"
    /\ \/ Goto(d, "claim") /\ UNCHANGED product
       \/ \E at \in Times :
            /\ MonotoneClock => at >= seen[d].head.at
            /\ IF at < seen[d].head.at
                 THEN Goto(d, "raised") /\ UNCHANGED product
                 ELSE /\ product' = [product EXCEPT ![d] =
                            Event(Att(d), seen[d].next, "failed", at, NoHandle,
                                  "credential_unavailable")]
                      /\ Goto(d, "preflight")
    /\ UNCHANGED <<journalVars, call, seen, sent, faults>>

-----------------------------------------------------------------------------
(* append_event as a call makes it: acknowledged, lost, replayed or refused. *)

AppendAs(d, onError) ==
    \/ /\ AppendEvent(Att(d), product[d], SeenToken(d))
       /\ \/ Goto(d, product[d].state) /\ UNCHANGED faults
          \/ Goto(d, onError) /\ Fault
    \/ /\ IF AppendReplays(Att(d), product[d])
            THEN Goto(d, product[d].state)
            ELSE ~AppendCreates(Att(d), product[d], SeenToken(d)) /\ Goto(d, onError)
       /\ UNCHANGED <<journalVars, faults>>
    \/ Goto(d, onError) /\ Fault /\ UNCHANGED journalVars

PreflightAppend(d) ==
    /\ pc[d] = "preflight"
    /\ AppendAs(d, "preflight_reread")
    /\ UNCHANGED <<call, seen, product, sent>>

\* Faulty variant: every refused claim is reported as somebody else's send.
RereadUnchecked(d) ==
    /\ pc[d] \in {"preflight_reread", "claim_reread"}
    /\ Goto(d, "not_sent")
    /\ UNCHANGED <<journalVars, call, seen, product, sent, faults>>

\* After an exception: report not_sent when the attempt has left prepared,
\* raise when it has not.
RereadAfterError(d) ==
    /\ pc[d] \in {"preflight_reread", "claim_reread"}
    /\ \/ /\ Goto(d, IF StateRead(d) \in {"prepared", "unreadable"} THEN "raised"
                                                                   ELSE "not_sent")
          /\ UNCHANGED faults
       \/ Goto(d, "raised") /\ Fault
    /\ UNCHANGED <<journalVars, call, seen, product, sent>>

-----------------------------------------------------------------------------
(* The claim, and the one POST.                                             *)

\* Faulty variant: a claim whose COMMIT raised is taken for granted.
ClaimPresumed(d) ==
    /\ pc[d] = "claim"
    /\ \/ /\ ClaimDispatch(ClaimOf(d), TRUE)
          /\ seen' = [seen EXCEPT ![d] = HeadOf(events'[Att(d)])]
          /\ Goto(d, "send") /\ UNCHANGED faults
       \/ /\ ~ClaimCreates(ClaimOf(d))
          /\ Goto(d, IF ClaimReplays(ClaimOf(d)) THEN "replayed" ELSE "claim_reread")
          /\ UNCHANGED <<journalVars, seen, faults>>
       \/ Goto(d, "send") /\ Fault /\ UNCHANGED <<journalVars, seen>>
    /\ UNCHANGED <<call, product, sent>>

Claim(d) ==
    /\ pc[d] = "claim"
    /\ \/ /\ ClaimDispatch(ClaimOf(d), TRUE)
          /\ seen' = [seen EXCEPT ![d] = HeadOf(events'[Att(d)])]
          /\ Goto(d, "send") /\ UNCHANGED faults
       \/ /\ ClaimDispatch(ClaimOf(d), FALSE)
          /\ Goto(d, "claim_reread") /\ Fault /\ UNCHANGED seen
       \/ /\ ~ClaimCreates(ClaimOf(d))
          /\ Goto(d, IF ClaimReplays(ClaimOf(d)) THEN "replayed" ELSE "claim_reread")
          /\ UNCHANGED <<journalVars, seen, faults>>
       \/ Goto(d, "claim_reread") /\ Fault /\ UNCHANGED <<journalVars, seen>>
    /\ UNCHANGED <<call, product, sent>>

\* Faulty variant: an exact replay of the claim sends as well.
SendsAgain(d) ==
    /\ pc[d] = "replayed"
    /\ Goto(d, "send")
    /\ seen' = [seen EXCEPT ![d] = Current(d)]
    /\ UNCHANGED <<journalVars, call, product, sent, faults>>

\* _not_sent
NotSent(d) ==
    /\ pc[d] = "replayed"
    /\ \/ Goto(d, "not_sent") /\ UNCHANGED faults
       \/ Goto(d, "raised") /\ Fault
    /\ UNCHANGED <<journalVars, call, seen, product, sent>>

\* The body leaves the process.
Send(d) ==
    /\ pc[d] = "send"
    /\ sent' = [sent EXCEPT ![d] = @ + 1]
    /\ Goto(d, "transport")
    /\ UNCHANGED <<journalVars, call, seen, product, faults>>

\* Faulty variant: a rejection is recorded as a provider-confirmed cancellation.
RejectionCancels(d, outcome, at) ==
    IF outcome = "rejected"
      THEN Event(Att(d), seen[d].next, "cancelled", at, NoHandle,
                 "provider_confirmed_no_output")
      ELSE Event(Att(d), seen[d].next, "outcome_unknown", at, NoHandle, "none")

\* The event a transport outcome other than a decodable 200 is recorded as.
OutcomeEvent(d, outcome, at) ==
    CASE outcome = "exception" ->
           Event(Att(d), seen[d].next, "outcome_unknown", at, NoHandle, "none")
      [] outcome = "rejected" ->
           Event(Att(d), seen[d].next, "failed", at, NoHandle, "provider_rejected")
      [] outcome = "undecodable" ->
           Event(Att(d), seen[d].next, "failed", at, NoHandle, "output_invalid")

\* Faulty variant: an exception of the transport propagates unrecorded.
ExceptionPropagates(d) ==
    /\ pc[d] = "transport"
    /\ \E at \in Times, outcome \in {"exception", "rejected", "undecodable"} :
         /\ at >= seen[d].head.at
         /\ IF outcome = "exception"
              THEN Goto(d, "raised") /\ UNCHANGED product
              ELSE /\ product' = [product EXCEPT ![d] = OutcomeEvent(d, outcome, at)]
                   /\ Goto(d, "record")
    /\ UNCHANGED <<journalVars, call, seen, sent, faults>>

\* The transport raises or returns something else than a complete response, a
\* non-200, a 200 the decoder refuses, or a 200 it decodes.  Every path samples
\* the clock first; a sample behind the submitted head raises there.
TransportReturns(d) ==
    /\ pc[d] = "transport"
    /\ \E at \in Times, outcome \in {"exception", "rejected", "undecodable", "decoded"} :
         /\ MonotoneClock => at >= seen[d].head.at
         /\ \/ /\ at < seen[d].head.at
               /\ Goto(d, "raised") /\ UNCHANGED product
            \/ /\ at >= seen[d].head.at
               /\ outcome # "decoded"
               /\ product' = [product EXCEPT ![d] = OutcomeEvent(d, outcome, at)]
               /\ Goto(d, "record")
            \/ /\ at >= seen[d].head.at
               /\ outcome = "decoded"
               /\ \E payload \in Payloads :
                    product' = [product EXCEPT ![d] =
                        [attempt |-> Att(d), payload |-> payload, at |-> at,
                         handle |-> NoHandle]]
               /\ Goto(d, "publish")
    /\ UNCHANGED <<journalVars, call, seen, sent, faults>>

\* _terminal_result and _append_result_event
Record(d) ==
    /\ pc[d] = "record"
    /\ AppendAs(d, "raised")
    /\ UNCHANGED <<call, seen, product, sent>>

-----------------------------------------------------------------------------
(* Publishing the decoded response, and recovering from a lost answer.      *)

\* publish_provider_response with the token of `seen`.
PublishAs(d, onError) ==
    \/ /\ PublishResponse(product[d], SeenToken(d))
       /\ \/ Goto(d, "response_received") /\ UNCHANGED faults
          \/ Goto(d, onError) /\ Fault
    \/ /\ IF ResponseReplays(product[d])
            THEN Goto(d, "response_received")
            ELSE ~ResponseCreates(product[d], SeenToken(d)) /\ Goto(d, onError)
       /\ UNCHANGED <<journalVars, faults>>
    \/ Goto(d, onError) /\ Fault /\ UNCHANGED journalVars

Publish(d) ==
    /\ pc[d] = "publish"
    /\ PublishAs(d, "publish_reread")
    /\ UNCHANGED <<call, seen, product, sent>>

\* recover_exact_publication, on a state that is response_received.
Recovered(d) == IF responses[Att(d)] = product[d] THEN "response_received" ELSE "raised"

PersistenceFailed(d) ==
    Event(Att(d), seen[d].next, "failed", product[d].at, NoHandle,
          "output_persistence_failed")

\* Faulty variant: a failed publication is recorded without reading again,
\* with whatever head is current.
GivesUpBlindly(d) ==
    /\ pc[d] = "publish_reread"
    /\ seen' = [seen EXCEPT ![d] = Current(d)]
    /\ product' = [product EXCEPT ![d] =
          Event(Att(d), Current(d).next, "failed", product[d].at, NoHandle,
                "output_persistence_failed")]
    /\ Goto(d, "record")
    /\ UNCHANGED <<journalVars, call, sent, faults>>

\* Faulty variant: an attempt still submitted is left as it is.
LeavesInFlight(d) ==
    /\ pc[d] = "publish_reread"
    /\ \/ /\ Current(d).state = "response_received"
          /\ Goto(d, Recovered(d))
          /\ UNCHANGED seen
       \/ /\ Current(d).state = "outcome_unknown"
          /\ seen' = [seen EXCEPT ![d] = Current(d)]
          /\ Goto(d, "republish")
       \/ /\ Current(d).state \in TerminalStates \cup {"submitted"}
          /\ Goto(d, "raised")
          /\ UNCHANGED seen
    /\ UNCHANGED <<journalVars, call, product, sent, faults>>

PublishReread(d) ==
    /\ pc[d] = "publish_reread"
    /\ \/ /\ StateRead(d) = "response_received"
          /\ Goto(d, Recovered(d))
          /\ UNCHANGED <<seen, product, faults>>
       \/ /\ StateRead(d) = "outcome_unknown"
          /\ seen' = [seen EXCEPT ![d] = Current(d)]
          /\ Goto(d, "republish")
          /\ UNCHANGED <<product, faults>>
       \/ /\ StateRead(d) = "submitted"
          /\ product' = [product EXCEPT ![d] = PersistenceFailed(d)]
          /\ Goto(d, "record")
          /\ UNCHANGED <<seen, faults>>
       \/ /\ StateRead(d) \notin {"response_received", "outcome_unknown", "submitted"}
          /\ Goto(d, "raised")
          /\ UNCHANGED <<seen, product, faults>>
       \/ /\ Goto(d, "raised") /\ Fault
          /\ UNCHANGED <<seen, product>>
    /\ UNCHANGED <<journalVars, call, sent>>

Republish(d) ==
    /\ pc[d] = "republish"
    /\ PublishAs(d, "republish_reread")
    /\ UNCHANGED <<call, seen, product, sent>>

RepublishReread(d) ==
    /\ pc[d] = "republish_reread"
    /\ \/ /\ Goto(d, IF StateRead(d) = "response_received" THEN Recovered(d) ELSE "raised")
          /\ UNCHANGED faults
       \/ Goto(d, "raised") /\ Fault
    /\ UNCHANGED <<journalVars, call, seen, product, sent>>

\* The process is killed; what is durable stays.
Crash(d) ==
    /\ Crashes
    /\ pc[d] \notin Reports \cup {"idle"}
    /\ Goto(d, "crashed")
    /\ UNCHANGED <<journalVars, call, seen, product, sent, faults>>

-----------------------------------------------------------------------------
(* Everybody else who writes this journal: the preparation of the attempt,   *)
(* an operator's reconciliation of an attempt that is in flight or not yet   *)
(* sent, and the finalizer that turns a durable response into a success.     *)

OperatorEvents(a) ==
    LET next == HeadOf(events[a]).next
    IN  {Event(a, next, "prepared", at, NoHandle, "none") : at \in Times}
        \cup {Event(a, next, "outcome_unknown", at, h, "none") :
                 at \in Times, h \in Handles \cup {NoHandle}}
        \cup {Event(a, next, "cancelled", at, NoHandle, authority) :
                 at \in Times, authority \in Authorities}
        \cup {Event(a, next, "failed", at, NoHandle, "provider_rejected") : at \in Times}

Others ==
    /\ \/ Register
       \/ \E a \in Attempts : \E e \in OperatorEvents(a) :
             AppendEvent(a, e, TokenOf(events[a]))
       \/ \E a \in Attempts, packet \in Intents, at \in Times :
             PublishSuccess(a, events[a], packet, at, TokenOf(events[a]))
    /\ UNCHANGED callVars

Run(d) ==
    \/ ResolveCredential(d) \/ PreflightAppend(d) \/ RereadAfterError(d)
    \/ Claim(d) \/ NotSent(d) \/ Send(d) \/ TransportReturns(d) \/ Record(d)
    \/ Publish(d) \/ PublishReread(d) \/ Republish(d) \/ RepublishReread(d)

DispatchNext ==
    \/ \E d \in Dispatchers :
          \/ \E arguments \in Calls : Start(d, arguments)
          \/ Run(d)
          \/ Crash(d)
    \/ Others

DispatchSpec == DispatchInit /\ [][DispatchNext]_dispatchVars

\* A call that was not killed keeps running: it is straight-line code over
\* bounded waits (the busy timeout of SQLite, the transport's own timeout).
FairDispatchSpec == DispatchSpec /\ \A d \in Dispatchers : WF_dispatchVars(Run(d))

-----------------------------------------------------------------------------
(* Properties.                                                              *)

DispatchTypeOK ==
    /\ pc \in [Dispatchers -> PCs]
    /\ call \in [Dispatchers -> Calls \cup {NoRow}]
    /\ product \in [Dispatchers -> Events \cup Receipts \cup {NoRow}]
    /\ sent \in [Dispatchers -> Nat]
    /\ faults \in 0..MaxFaults

\* The attempt buys at most one POST: across concurrent calls, replays of the
\* same claim, crashes and lost acknowledgements, no two POSTs of one attempt
\* ever leave, from one call or from two.
AtMostOnePost ==
    /\ \A d \in Dispatchers : sent[d] <= 1
    /\ \A d1, d2 \in Dispatchers :
          (sent[d1] > 0 /\ sent[d2] > 0 /\ Att(d1) = Att(d2)) => d1 = d2

\* Whoever sends, or has sent, does so under its own durable claim: the claim
\* row carries its identifier and the history its submitted event.
SendsUnderOwnClaim ==
    \A d \in Dispatchers :
        (pc[d] \in Authorized \/ sent[d] > 0) =>
            /\ claims[Att(d)] # NoRow
            /\ claims[Att(d)].id = call[d].id
            /\ InState(events[Att(d)], "submitted") # {}

\* The failure recorded of a response that was decoded but not stored.
Lost(event) == event.state = "failed" /\ event.detail = "output_persistence_failed"

\* What a call reports is what the journal holds: a recorded boundary is in the
\* history, a received response is durable and is the one this call decoded,
\* and "not sent" was said neither by a call that sent nor, unless it was made
\* before the attempt was even prepared, about one that can still be sent.  And
\* output_persistence_failed is never recorded for a response that is durable:
\* the reread and the compare-and-append of the submitted head keep a lost COMMIT
\* acknowledgement from closing an attempt whose answer is stored.
ReportsAreTrue ==
    /\ \A d \in Dispatchers :
          /\ pc[d] = "response_received" => responses[Att(d)] = product[d]
          /\ pc[d] \in {"failed", "outcome_unknown"} =>
                \E i \in 1..Len(events[Att(d)]) : events[Att(d)][i] = product[d]
          /\ pc[d] = "not_sent" => sent[d] = 0
          /\ (pc[d] = "not_sent" /\ seen[d].state # "none") =>
                Current(d).state \notin {"none", "prepared"}
    /\ \A a \in Attempts :
          (\E i \in 1..Len(events[a]) : Lost(events[a][i])) => responses[a] = NoRow

\* A decoded response does not leave its attempt in flight: after at most one
\* failed journal call, the attempt leaves submitted, with the response durable
\* or with its loss recorded (or closed by somebody else).
DecodedResponseSettles ==
    \A d \in Dispatchers :
        (pc[d] = "publish") ~> (sent[d] > 0 /\ Current(d).state # "submitted")

\* With a monotone clock, and unless a journal call failed, every POST settles:
\* the attempt leaves submitted, whatever the transport does.
EveryPostSettles ==
    \A d \in Dispatchers :
        (sent[d] > 0) ~> (sent[d] > 0 /\ (Current(d).state # "submitted" \/ faults > 0))

\* INTERFACES.md, adapter section: an exception after authorization without a
\* complete HTTP response becomes outcome_unknown.  Stated of every call that
\* sent and has ended, without any failed journal call or crash: its attempt is
\* not left submitted.
BoundaryIsRecorded ==
    \A d \in Dispatchers :
        (pc[d] \in Reports \ {"crashed"} /\ sent[d] > 0 /\ faults = 0)
            => Current(d).state # "submitted"
=============================================================================
