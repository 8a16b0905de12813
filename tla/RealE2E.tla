------------------------------ MODULE RealE2E ------------------------------
(***************************************************************************)
(* The two-phase paid run (eval/openrouter_real_e2e.py): one prepared      *)
(* challenge, any number of execute calls with a confirmation of it, over  *)
(* the confirmation ledger, the challenge directory and the attempt        *)
(* journal, and the credential-free finalizer.  A step ends at every       *)
(* durable write; between two steps another process may act, and the call  *)
(* may raise or be killed: either way it never acts again and undoes       *)
(* nothing.  What the directory's other writers do to published evidence   *)
(* is ArtifactPublication; what a dispatch does inside is                  *)
(* OpenRouterDispatch.                                                     *)
(***************************************************************************)
EXTENDS ConfirmationLedger, Sequences

CONSTANTS
    Executors,      \* calls of execute_openrouter_real_e2e
    Challenge,      \* the challenge in the directory
    Absent,         \* a file that does not exist
    Torn            \* a file created and not completely written

VARIABLES
    prepared,       \* how many of PrepareOrder's files exist
    marker,         \* consumed.json
    plan,           \* plan.json
    snapshot,       \* confirmation-context.snapshot.json
    journal,        \* state of the attempt in attempts.sqlite3
    result,         \* result.json
    pc,             \* where each call is
    call,           \* the confirmation it was given
    last,           \* the last clock value it accepted
    claimedAt,      \* the value it consumed the confirmation at
    sent            \* POSTs each call made

directory == <<prepared, marker, plan, snapshot, result>>
calls == <<pc, call, last, claimedAt, sent>>
e2eVars == <<ledgerVars, directory, journal, calls>>

\* The artifacts, then the summary, then the challenge that names them all.
PrepareOrder == <<"discovery", "source", "authority", "mask", "overlay",
                  "compact-summary", "challenge">>

Own == {c \in Confirmations : c.challenge = Challenge}

Recorded == {"registered", "prepared", "submitted", "response_received",
             "outcome_unknown", "failed", "succeeded"}

\* A missing and a torn file differ from each other and from everything a
\* complete file holds.
ASSUME E2EAssumption ==
    /\ Absent # Torn
    /\ {Absent, Torn} \cap Confirmations = {}
    /\ {Absent, Torn} \cap [confirmation : Confirmations, at : Times] = {}
    /\ Absent \notin Recorded
    /\ Absent \notin [count : {0, 1}, head : Recorded]

PCs == {"idle", "context", "inspected", "consume", "authorized", "marker", "plan",
        "snapshot", "credential", "token", "register", "prepare", "claim", "dispatch",
        "post", "posted", "succeed", "report", "ended"}

Heads == Recorded \cup {Absent}

\* Every POST of every call, by the call and its number in it.
TotalSent == Cardinality(UNION {{e} \X (1 .. sent[e]) : e \in Executors})

E2EInit ==
    /\ LedgerInit
    /\ prepared = 0
    /\ marker = Absent /\ plan = Absent /\ snapshot = Absent /\ result = Absent
    /\ journal = Absent
    /\ pc = [e \in Executors |-> "idle"]
    /\ call = [e \in Executors |-> NoRow]
    /\ last = [e \in Executors |-> 0]
    /\ claimedAt = [e \in Executors |-> NoRow]
    /\ sent = [e \in Executors |-> 0]

Goto(e, l) == pc' = [pc EXCEPT ![e] = l]

-----------------------------------------------------------------------------
\* prepare_openrouter_real_e2e: a new directory, written in order.
Prepare ==
    /\ prepared < Len(PrepareOrder)
    /\ prepared' = prepared + 1
    /\ UNCHANGED <<ledgerVars, marker, plan, snapshot, result, journal, calls>>

ChallengeReady == prepared = Len(PrepareOrder)

\* Studio's side of the ledger, concurrently; a context names its challenge.
Studio ==
    /\ ChallengeReady
    /\ \/ \E s \in Sessions, e \in Epochs :
             \/ \E window \in Windows : RecordAuthority(s, e, window)
             \/ \E at \in Times : RevokeSession(s, e, at)
       \/ \E c \in Confirmations, e \in Epochs : RecordConfirmation(c, e)
    /\ UNCHANGED <<directory, journal, calls>>

\* A call raises or is killed.
Stop(e) ==
    /\ pc[e] \notin {"idle", "ended"}
    /\ Goto(e, "ended")
    /\ UNCHANGED <<ledgerVars, directory, journal, call, last, claimedAt, sent>>

\* _challenge_snapshot and _confirmation_snapshot: an unconsumed directory and
\* a context inside its window.
ReadContext(e, c, now) ==
    /\ pc[e] = "idle" /\ ChallengeReady
    /\ marker = Absent
    /\ c.confirmed <= now /\ now <= c.expires
    /\ call' = [call EXCEPT ![e] = c]
    /\ last' = [last EXCEPT ![e] = now]
    /\ Goto(e, "context")
    /\ UNCHANGED <<ledgerVars, directory, journal, claimedAt, sent>>

\* inspect_confirmation at the same instant.
Inspect(e) ==
    /\ pc[e] = "context"
    /\ \E g \in grants :
          g.confirmation = call[e] /\ GrantVerifies(g) /\ Available(g, last[e])
    /\ ~Consumed(call[e])
    /\ Goto(e, "inspected")
    /\ UNCHANGED <<ledgerVars, directory, journal, call, last, claimedAt, sent>>

\* checked_clock and the expiry check after it; a clock that went back, or a
\* challenge that expired, raises (Stop).
Sample(e, from, to, now) ==
    /\ pc[e] = from
    /\ last[e] <= now /\ now <= call[e].expires
    /\ last' = [last EXCEPT ![e] = now]
    /\ Goto(e, to)
    /\ UNCHANGED <<ledgerVars, directory, journal, call, sent>>

\* The five samples of a call, and the one the consumption is dated with.
Clock(e, now) ==
    \/ /\ Sample(e, "inspected", "consume", now)
       /\ claimedAt' = [claimedAt EXCEPT ![e] = now]
    \/ /\ \/ Sample(e, "authorized", "marker", now)
          \/ Sample(e, "credential", "token", now)
          \/ Sample(e, "token", "register", now)
          \/ Sample(e, "claim", "dispatch", now)
       /\ UNCHANGED claimedAt

\* Faulty variant: a replayed consumption counts as this call's own.
ConsumeOrReplay(e) ==
    /\ pc[e] = "consume"
    /\ \/ Consume(call[e], claimedAt[e], TRUE)
       \/ ReplayConsumption(call[e])
    /\ Goto(e, "authorized")
    /\ UNCHANGED <<directory, journal, call, last, claimedAt, sent>>

\* consume_confirmation: only a row created by this call, and acknowledged to
\* it, lets it go on.
ConsumeOwn(e) ==
    /\ pc[e] = "consume"
    /\ \E acknowledged \in BOOLEAN :
          /\ Consume(call[e], claimedAt[e], acknowledged)
          /\ Goto(e, IF acknowledged THEN "authorized" ELSE "ended")
    /\ UNCHANGED <<directory, journal, call, last, claimedAt, sent>>

\* _claim_challenge_consumption: created exclusively, then written; a kill in
\* between leaves it torn.
ClaimMarker(e) ==
    /\ pc[e] = "marker" /\ marker = Absent
    /\ \/ marker' = [confirmation |-> call[e], at |-> claimedAt[e]] /\ Goto(e, "plan")
       \/ marker' = Torn /\ Goto(e, "ended")
    /\ UNCHANGED <<ledgerVars, prepared, plan, snapshot, result, journal,
                   call, last, claimedAt, sent>>

\* Faulty variant: the context is not frozen before the credential is loaded.
WritePlanOnly(e) ==
    /\ pc[e] = "plan" /\ plan = Absent
    /\ plan' = call[e] /\ Goto(e, "credential")
    /\ UNCHANGED <<ledgerVars, prepared, marker, snapshot, result, journal,
                   call, last, claimedAt, sent>>

WritePlan(e) ==
    /\ pc[e] = "plan" /\ plan = Absent
    /\ \/ plan' = call[e] /\ Goto(e, "snapshot")
       \/ plan' = Torn /\ Goto(e, "ended")
    /\ UNCHANGED <<ledgerVars, prepared, marker, snapshot, result, journal,
                   call, last, claimedAt, sent>>

WriteSnapshot(e) ==
    /\ pc[e] = "snapshot" /\ snapshot = Absent
    /\ \/ snapshot' = call[e] /\ Goto(e, "credential")
       \/ snapshot' = Torn /\ Goto(e, "ended")
    /\ UNCHANGED <<ledgerVars, prepared, marker, plan, result, journal,
                   call, last, claimedAt, sent>>

-----------------------------------------------------------------------------
\* _execute_with_token, below the credential.

Journal(e, from, heads, to, head) ==
    /\ pc[e] = from /\ journal \in heads
    /\ journal' = head /\ Goto(e, to)
    /\ UNCHANGED <<ledgerVars, directory, call, last, claimedAt, sent>>

\* register_run and register_attempt, then the prepared event.  Only the call
\* that created the marker gets here, so it finds an empty journal.
Register(e) == Journal(e, "register", {Absent}, "prepare", "registered")

AppendPrepared(e) == Journal(e, "prepare", {"registered"}, "claim", "prepared")

\* dispatch_openrouter_attempt up to its claim: a preflight failure closes the
\* attempt, and a claim whose acknowledgement is lost leaves it submitted and is
\* not sent.  Either way the call goes on to a partial result of no POST.
ClaimDispatch(e) ==
    \/ Journal(e, "dispatch", {"prepared"}, "post", "submitted")
    \/ Journal(e, "dispatch", {"prepared"}, "report", "submitted")
    \/ Journal(e, "dispatch", {"prepared"}, "report", "failed")

\* Faulty variant: the transport tries again.
PostRetried(e) ==
    /\ pc[e] \in {"post", "posted"} /\ sent[e] < 2
    /\ sent' = [sent EXCEPT ![e] = @ + 1]
    /\ Goto(e, "posted")
    /\ UNCHANGED <<ledgerVars, directory, journal, call, last, claimedAt>>

\* one_shot_transport
Post(e) ==
    /\ pc[e] = "post" /\ sent[e] = 0
    /\ sent' = [sent EXCEPT ![e] = 1]
    /\ Goto(e, "posted")
    /\ UNCHANGED <<ledgerVars, directory, journal, call, last, claimedAt>>

\* What a dispatch records of its POST, or fails to.
Record(e) ==
    \/ Journal(e, "posted", {"submitted"}, "succeed", "response_received")
    \/ \E head \in {"failed", "outcome_unknown"} :
          Journal(e, "posted", {"submitted"}, "report", head)

\* publish_provider_success, unless the media are not admissible.
Succeed(e) ==
    \/ Journal(e, "succeed", {"response_received"}, "report", "succeeded")
    \/ Journal(e, "succeed", {"response_received"}, "report", "response_received")

\* The result with the call's own count; a partial one unless the response is
\* durable.
WriteResult(e) ==
    /\ pc[e] = "report" /\ result = Absent
    /\ result' = [count |-> sent[e], head |-> journal]
    /\ Goto(e, "ended")
    /\ UNCHANGED <<ledgerVars, prepared, marker, plan, snapshot, journal,
                   call, last, claimedAt, sent>>

-----------------------------------------------------------------------------
\* The finalizer.

\* _historical_confirmation_snapshot and _consumption_snapshot: the frozen
\* context lies in the challenge's window and the consumption in the context's.
Frozen(c, at) ==
    /\ c \in Own /\ c.confirmed <= c.expires
    /\ c.confirmed <= at /\ at <= c.expires

\* _rebuild_finalization_inputs: the plan is exactly the one the frozen context
\* and artifacts give.
Rebuilds ==
    /\ ChallengeReady
    /\ snapshot \notin {Absent, Torn}
    /\ marker \notin {Absent, Torn}
    /\ marker.confirmation = snapshot
    /\ Frozen(snapshot, marker.at)
    /\ plan = snapshot

\* Faulty variant: a submitted attempt is as good as an answered one.
AcceptsSubmitted == Rebuilds /\ journal \in {"submitted", "response_received", "succeeded"}

\* _finalize_openrouter_real_e2e_local_scope goes on.
FinalizerAccepts == Rebuilds /\ journal \in {"response_received", "succeeded"}

\* One finalizer from beginning to end; its result claims one POST.
Finalize ==
    /\ FinalizerAccepts
    /\ journal' \in {journal, "succeeded"}
    /\ result' = IF result = Absent THEN [count |-> 1, head |-> journal'] ELSE result
    /\ UNCHANGED <<ledgerVars, prepared, marker, plan, snapshot, calls>>

E2ENext ==
    \/ Prepare \/ Studio \/ Finalize
    \/ \E e \in Executors :
          \/ Stop(e)
          \/ \E now \in Times : Clock(e, now) \/ \E c \in Own : ReadContext(e, c, now)
          \/ Inspect(e) \/ ConsumeOwn(e) \/ ClaimMarker(e) \/ WritePlan(e)
          \/ WriteSnapshot(e) \/ Register(e) \/ AppendPrepared(e) \/ ClaimDispatch(e)
          \/ Post(e) \/ Record(e) \/ Succeed(e) \/ WriteResult(e)

E2ESpec == E2EInit /\ [][E2ENext]_e2eVars

-----------------------------------------------------------------------------
(* Properties.                                                              *)

\* A call that holds permission, or has used it, is the one whose consumption
\* of its own confirmation the ledger acknowledged, at the instant the marker
\* names; so no crash, retry or second call ever sends on somebody else's
\* consumption, and no other call is past the ledger.
PaidByOwnConsumption ==
    \A e \in Executors :
        (sent[e] > 0 \/ pc[e] \in {"authorized", "marker", "plan", "post"}) =>
            /\ permits[call[e]] = 1
            /\ [confirmation |-> call[e], at |-> claimedAt[e]] \in consumptions
            /\ sent[e] > 0 => marker = [confirmation |-> call[e], at |-> claimedAt[e]]
            /\ \A f \in Executors \ {e} :
                  /\ sent[f] = 0
                  /\ pc[f] \in {"idle", "context", "inspected", "consume", "ended"}

\* A paid response can always be finalized from the directory alone: whenever
\* the journal holds one, everything the finalizer rebuilds its inputs from is
\* on disk, complete and consistent, whoever was killed wherever.
PaidIsRecoverable ==
    journal \in {"response_received", "succeeded"} => FinalizerAccepts

\* generation_post_count is the number of POSTs made, in the executor's results
\* and in the finalizer's, which is the constant one and derived from no
\* counter; and what no POST was made for never gets a result that claims one.
CountsAreTrue ==
    /\ result # Absent => result.count = TotalSent
    /\ FinalizerAccepts => TotalSent = 1

Paid == INSTANCE PaidChallenge WITH
    stage <- IF journal \in {"response_received", "succeeded"} THEN "answered"
             ELSE IF TotalSent > 0 THEN "sent"
             ELSE IF \E c \in Own : Consumed(c) THEN "spent" ELSE "offered",
    posts <- TotalSent

\* A confirmed challenge is spent once and pays for at most one POST, through
\* every interleaving of calls, crashes, rotations and revocations.
ImplementsPaidChallenge == Paid!PaidSpec
=============================================================================
