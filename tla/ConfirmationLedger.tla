------------------------- MODULE ConfirmationLedger -------------------------
(***************************************************************************)
(* The append-only ledger of paid-call confirmations                       *)
(* (moodboard/studio_confirmation_ledger.py).  Every write is one BEGIN    *)
(* IMMEDIATE transaction, so one step here.  All timestamps come from the  *)
(* caller, are compared with stored ones only, and need not follow the     *)
(* order of the steps.  Only an acknowledged new consumption row permits a *)
(* generation POST.                                                        *)
(***************************************************************************)
EXTENDS Naturals, FiniteSets

CONSTANTS
    Sessions,          \* studio sessions
    Epochs,            \* authority epochs
    Owners,            \* who a session acts for: principal and creative session
    Times,             \* timestamps
    Confirmations,     \* canonical (context, challenge) pairs a caller may present
    NoRow              \* an absent row

\* Contexts and challenges are content addressed, and _canonical_grant admits
\* only pairs confirmed before their challenge expires.
ASSUME LedgerAssumption ==
    /\ Epochs \subseteq Nat
    /\ Times \subseteq Nat
    /\ \A c \in Confirmations :
          /\ c.session \in Sessions
          /\ c.owner \in Owners
          /\ {c.confirmed, c.expires} \subseteq Times
          /\ c.confirmed <= c.expires
    /\ \A b, c \in Confirmations : b.context = c.context => b = c
    /\ NoRow \notin Times

VARIABLES
    authorities,       \* session_authorities, by session and epoch
    revocations,       \* session_revocations, by session and epoch
    grants,            \* confirmation_grants
    consumptions,      \* confirmation_consumptions
    permits            \* how often a confirmation permitted a POST

ledgerTables == <<authorities, revocations, grants, consumptions>>
ledgerVars == <<authorities, revocations, grants, consumptions, permits>>

-----------------------------------------------------------------------------

Windows == {w \in [owner : Owners, from : Times, until : Times] : w.from < w.until}

Earlier(s, t) == IF s <= t THEN s ELSE t

EpochsOf(s) == {e \in Epochs : authorities[s][e] # NoRow}

\* _current_authority: the highest epoch of the session.
IsCurrent(s, e) == e \in EpochsOf(s) /\ \A f \in EpochsOf(s) : f <= e

\* Faulty variant: the grant's own epoch is looked up instead of the current one.
ActiveWhenGranted(s, e, owner) ==
    /\ e \in EpochsOf(s)
    /\ authorities[s][e].owner = owner
    /\ revocations[s][e] = NoRow

\* The authority checks shared by registration and consumption.
Active(s, e, owner) ==
    /\ IsCurrent(s, e)
    /\ authorities[s][e].owner = owner
    /\ revocations[s][e] = NoRow

LedgerInit ==
    /\ authorities = [s \in Sessions |-> [e \in Epochs |-> NoRow]]
    /\ revocations = [s \in Sessions |-> [e \in Epochs |-> NoRow]]
    /\ grants = {}
    /\ consumptions = {}
    /\ permits = [c \in Confirmations |-> 0]

\* Faulty variant: a later epoch may hand the session to another owner.
AuthorityForAnyone(s, e, window) ==
    /\ authorities[s][e] = NoRow
    /\ \A f \in EpochsOf(s) : f < e
    /\ authorities' = [authorities EXCEPT ![s][e] = window]
    /\ UNCHANGED <<revocations, grants, consumptions, permits>>

\* record_session_authority: epochs rise, the owner never changes.
RecordAuthority(s, e, window) ==
    /\ authorities[s][e] = NoRow
    /\ \A f \in EpochsOf(s) : f < e /\ authorities[s][f].owner = window.owner
    /\ authorities' = [authorities EXCEPT ![s][e] = window]
    /\ UNCHANGED <<revocations, grants, consumptions, permits>>

\* revoke_session: any epoch of the session, current or superseded.
RevokeSession(s, e, at) ==
    /\ e \in EpochsOf(s)
    /\ authorities[s][e].from <= at
    /\ at <= authorities[s][e].until
    /\ revocations[s][e] = NoRow
    /\ revocations' = [revocations EXCEPT ![s][e] = at]
    /\ UNCHANGED <<authorities, grants, consumptions, permits>>

\* Faulty variant: the grant expires with its challenge, whatever the session.
ChallengeExpiry(c, e) == c.expires

\* A grant expires with its challenge or with its session, whichever is first.
GrantExpiry(c, e) == Earlier(c.expires, authorities[c.session][e].until)

\* Faulty variant: the challenge may be granted to a second context.
ConfirmAnyContext(c, e) ==
    /\ Active(c.session, e, c.owner)
    /\ authorities[c.session][e].from <= c.confirmed
    /\ c.confirmed <= GrantExpiry(c, e)
    /\ \A g \in grants : g.confirmation.context # c.context
    /\ grants' = grants \cup
          {[confirmation |-> c, epoch |-> e, expires |-> GrantExpiry(c, e)]}
    /\ UNCHANGED <<authorities, revocations, consumptions, permits>>

\* record_explicit_confirmation: one grant per context and per challenge.
RecordConfirmation(c, e) ==
    /\ Active(c.session, e, c.owner)
    /\ authorities[c.session][e].from <= c.confirmed
    /\ c.confirmed <= GrantExpiry(c, e)
    /\ \A g \in grants : /\ g.confirmation.context # c.context
                         /\ g.confirmation.challenge # c.challenge
    /\ grants' = grants \cup
          {[confirmation |-> c, epoch |-> e, expires |-> GrantExpiry(c, e)]}
    /\ UNCHANGED <<authorities, revocations, consumptions, permits>>

\* _load_matching_grant and _validate_grant_row
GrantVerifies(g) ==
    /\ g.epoch \in EpochsOf(g.confirmation.session)
    /\ g.expires = GrantExpiry(g.confirmation, g.epoch)

Consumed(c) == \E k \in consumptions : k.confirmation = c

\* _validate_available
Available(g, at) ==
    /\ Active(g.confirmation.session, g.epoch, g.confirmation.owner)
    /\ g.confirmation.confirmed <= at
    /\ at <= g.expires

\* consume_confirmation, with the COMMIT durable; only an acknowledged one
\* authorizes the POST.
Consume(c, at, acknowledged) ==
    /\ \E g \in grants :
          g.confirmation = c /\ GrantVerifies(g) /\ Available(g, at)
    /\ ~Consumed(c)
    /\ consumptions' = consumptions \cup {[confirmation |-> c, at |-> at]}
    /\ permits' = IF acknowledged THEN [permits EXCEPT ![c] = @ + 1] ELSE permits
    /\ UNCHANGED <<authorities, revocations, grants>>

\* A grant already consumed answers without permission.
ReplayConsumption(c) ==
    /\ Consumed(c)
    /\ UNCHANGED ledgerVars

LedgerNext ==
    \/ \E s \in Sessions, e \in Epochs :
          \/ \E window \in Windows : RecordAuthority(s, e, window)
          \/ \E at \in Times : RevokeSession(s, e, at)
    \/ \E c \in Confirmations :
          \/ \E e \in Epochs : RecordConfirmation(c, e)
          \/ \E at \in Times, acknowledged \in BOOLEAN : Consume(c, at, acknowledged)
          \/ ReplayConsumption(c)

LedgerSpec == LedgerInit /\ [][LedgerNext]_ledgerVars

-----------------------------------------------------------------------------
(* Properties.                                                              *)

\* A challenge, which binds one wire body, permits at most one POST, however
\* many contexts confirm it and however often a consumption is retried.
OnePermitPerChallenge ==
    \A b, c \in Confirmations :
        /\ permits[c] <= 1
        /\ (permits[b] > 0 /\ permits[c] > 0 /\ b.challenge = c.challenge) => b = c

\* verify_integrity never finds fault with what the operations wrote: epochs of
\* one session share an owner, every revocation lies in its epoch's window,
\* every grant verifies, every consumption has its grant and its time in it.
\* And it is dated inside the authority it was granted under and before its
\* challenge expires, although neither is looked up again by time when the grant
\* is consumed.
LedgerVerifies ==
    /\ \A s \in Sessions : \A e, f \in EpochsOf(s) :
          authorities[s][e].owner = authorities[s][f].owner
    /\ \A s \in Sessions, e \in Epochs : revocations[s][e] # NoRow =>
          /\ e \in EpochsOf(s)
          /\ authorities[s][e].from <= revocations[s][e]
          /\ revocations[s][e] <= authorities[s][e].until
    /\ \A g \in grants : GrantVerifies(g)
    /\ \A k \in consumptions : \E g \in grants :
          /\ g.confirmation = k.confirmation
          /\ k.confirmation.confirmed <= k.at
          /\ k.at <= g.expires
          /\ k.at <= k.confirmation.expires
          /\ authorities[k.confirmation.session][g.epoch].from <= k.at
          /\ k.at <= authorities[k.confirmation.session][g.epoch].until

\* A grant whose session was revoked, or rotated to a later epoch, permits
\* nothing any more: no order of rotation, revocation and consumption revives it.
WithdrawnStaysWithdrawn ==
    [][\A g \in grants :
          LET s == g.confirmation.session
          IN  (revocations[s][g.epoch] # NoRow \/ \E f \in EpochsOf(s) : f > g.epoch)
                  => permits'[g.confirmation] = permits[g.confirmation]]_ledgerVars
=============================================================================
