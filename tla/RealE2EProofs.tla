---------------------------- MODULE RealE2EProofs ----------------------------
(***************************************************************************)
(* What holds of the confirmation ledger for every number of sessions,     *)
(* epochs, confirmations and clock values, and of the paid run over it for *)
(* every number of calls and contexts.                                     *)
(*                                                                         *)
(* In the ledger the permits are bounded through the rows: a permit is     *)
(* only given in the step that adds the confirmation's consumption row, a  *)
(* consumption row needs a grant, and two grants of one challenge are the  *)
(* same grant.  The first part cites no assumption of the run.             *)
(*                                                                         *)
(* The argument about the run has one hinge: the ledger lets one           *)
(* confirmation of the challenge be consumed, ever, and only the call that *)
(* was told so goes on.  So there is at most one paying call, whatever it  *)
(* leaves behind is its own, and each file it needed is on disk before it  *)
(* takes the next step.                                                    *)
(***************************************************************************)
EXTENDS RealE2E, FiniteSetTheorems, TLAPS

-----------------------------------------------------------------------------
(* The confirmation ledger.                                                 *)

LedgerTypeOK ==
    /\ authorities \in [Sessions -> [Epochs -> Windows \cup {NoRow}]]
    /\ revocations \in [Sessions -> [Epochs -> Times \cup {NoRow}]]
    /\ grants \subseteq [confirmation : Confirmations, epoch : Epochs, expires : Times]
    /\ consumptions \subseteq [confirmation : Confirmations, at : Times]
    /\ permits \in [Confirmations -> Nat]

\* Grants are unique by context and by challenge, consumptions by confirmation,
\* and a permit never comes without its consumption row.
PermitInv ==
    /\ \A g, h \in grants :
          g.confirmation.challenge = h.confirmation.challenge => g = h
    /\ \A k \in consumptions : \E g \in grants : g.confirmation = k.confirmation
    /\ \A c \in Confirmations :
          /\ permits[c] <= 1
          /\ permits[c] > 0 => Consumed(c)

LEMMA GrantExpiryTyped ==
    ASSUME LedgerTypeOK, NEW c \in Confirmations, NEW e \in Epochs,
           authorities[c.session][e] # NoRow
    PROVE  GrantExpiry(c, e) \in Times
  BY LedgerAssumption DEF LedgerTypeOK, GrantExpiry, Earlier, Windows

LEMMA LedgerStepTypeOK ==
    ASSUME LedgerTypeOK, [LedgerNext]_ledgerVars
    PROVE  LedgerTypeOK'
<1> USE DEF LedgerTypeOK
<1>1. CASE \E s \in Sessions, e \in Epochs, window \in Windows : RecordAuthority(s, e, window)
  BY <1>1 DEF RecordAuthority
<1>2. CASE \E s \in Sessions, e \in Epochs, at \in Times : RevokeSession(s, e, at)
  BY <1>2 DEF RevokeSession
<1>3. ASSUME NEW c \in Confirmations, NEW e \in Epochs, RecordConfirmation(c, e)
      PROVE  LedgerTypeOK'
  <2>1. GrantExpiry(c, e) \in Times
    BY <1>3, GrantExpiryTyped, LedgerAssumption
       DEF RecordConfirmation, Active, IsCurrent, EpochsOf
  <2> QED
    BY <1>3, <2>1 DEF RecordConfirmation
<1>4. ASSUME NEW c \in Confirmations, NEW at \in Times, NEW acknowledged \in BOOLEAN,
             Consume(c, at, acknowledged)
      PROVE  LedgerTypeOK'
  BY <1>4 DEF Consume
<1>5. ASSUME NEW c \in Confirmations, ReplayConsumption(c)
      PROVE  LedgerTypeOK'
  BY <1>5 DEF ReplayConsumption, ledgerVars
<1>6. CASE UNCHANGED ledgerVars
  BY <1>6 DEF ledgerVars
<1> QED
  BY <1>1, <1>2, <1>3, <1>4, <1>5, <1>6 DEF LedgerNext

LEMMA LedgerTypeInvariant == LedgerSpec => []LedgerTypeOK
<1>1. LedgerInit => LedgerTypeOK
  BY DEF LedgerInit, LedgerTypeOK
<1>2. LedgerTypeOK /\ [LedgerNext]_ledgerVars => LedgerTypeOK'
  BY LedgerStepTypeOK
<1> QED
  BY <1>1, <1>2, PTL DEF LedgerSpec

-----------------------------------------------------------------------------
(* One permit per challenge.                                                *)

LEMMA LedgerStepPermit ==
    ASSUME LedgerTypeOK, PermitInv, [LedgerNext]_ledgerVars
    PROVE  PermitInv'
<1> USE DEF PermitInv, LedgerTypeOK, Consumed
<1>1. CASE UNCHANGED <<grants, consumptions, permits>>
  BY <1>1
<1>2. ASSUME NEW c \in Confirmations, NEW e \in Epochs, RecordConfirmation(c, e)
      PROVE  PermitInv'
  <2>1. \A g, h \in grants' :
           g.confirmation.challenge = h.confirmation.challenge => g = h
    BY <1>2 DEF RecordConfirmation
  <2>2. grants \subseteq grants' /\ UNCHANGED <<consumptions, permits>>
    BY <1>2 DEF RecordConfirmation
  <2> QED
    BY <2>1, <2>2
<1>3. ASSUME NEW c \in Confirmations, NEW at \in Times, NEW acknowledged \in BOOLEAN,
             Consume(c, at, acknowledged)
      PROVE  PermitInv'
  <2>1. permits[c] = 0
    BY <1>3 DEF Consume
  <2>2. /\ UNCHANGED grants
        /\ consumptions' = consumptions \cup {[confirmation |-> c, at |-> at]}
        /\ \E g \in grants : g.confirmation = c
    BY <1>3 DEF Consume
  <2>3. \A b \in Confirmations : permits'[b] = permits[b] \/ (b = c /\ permits'[b] = 1)
    BY <1>3, <2>1 DEF Consume
  <2>4. PICK k : k \in consumptions' /\ k.confirmation = c
    <3> WITNESS [confirmation |-> c, at |-> at]
    <3> QED
      BY <2>2
  <2> QED
    BY <2>2, <2>3, <2>4
<1> QED
  BY <1>1, <1>2, <1>3
     DEF LedgerNext, RecordAuthority, RevokeSession, ReplayConsumption, ledgerVars

LEMMA PermitInvariant == LedgerSpec => []PermitInv
<1>1. LedgerInit => PermitInv
  BY DEF LedgerInit, PermitInv
<1>2. LedgerTypeOK /\ PermitInv /\ [LedgerNext]_ledgerVars => PermitInv'
  BY LedgerStepPermit
<1> QED
  BY <1>1, <1>2, LedgerTypeInvariant, PTL DEF LedgerSpec

\* A challenge permits at most one POST, however many contexts confirm it, in
\* however many sessions, and whichever COMMIT answers are lost.
THEOREM PermittedOnce == LedgerSpec => []OnePermitPerChallenge
<1>1. LedgerTypeOK /\ PermitInv => OnePermitPerChallenge
  <2> SUFFICES ASSUME LedgerTypeOK, PermitInv, NEW b \in Confirmations,
                      NEW c \in Confirmations, permits[b] > 0, permits[c] > 0,
                      b.challenge = c.challenge
               PROVE  b = c
    BY DEF PermitInv, OnePermitPerChallenge
  <2>1. /\ \E k \in consumptions : k.confirmation = b
        /\ \E k \in consumptions : k.confirmation = c
    BY DEF PermitInv, Consumed
  <2>2. PICK g \in grants, h \in grants : g.confirmation = b /\ h.confirmation = c
    BY <2>1 DEF PermitInv
  <2> QED
    BY <2>2 DEF PermitInv
<1> QED
  BY <1>1, LedgerTypeInvariant, PermitInvariant, PTL

-----------------------------------------------------------------------------
(* The rows agree with each other.                                          *)

\* What verify_integrity looks at, and that no grant is dated before its epoch.
RowsInv ==
    /\ LedgerVerifies
    /\ \A g \in grants :
          authorities[g.confirmation.session][g.epoch].from <= g.confirmation.confirmed

\* An authority row is only added where there was none, so what earlier rows
\* refer to is untouched.
LEMMA AuthorityRows ==
    ASSUME LedgerTypeOK, RowsInv, NEW s \in Sessions, NEW e \in Epochs,
           NEW window \in Windows, RecordAuthority(s, e, window)
    PROVE  RowsInv'
<1>1. \A t \in Sessions, f \in Epochs :
         authorities[t][f] # NoRow => authorities'[t][f] = authorities[t][f]
  BY DEF RecordAuthority, LedgerTypeOK
<1>2. UNCHANGED <<revocations, grants, consumptions>>
  BY DEF RecordAuthority
<1>3. \A t \in Sessions : EpochsOf(t) \subseteq EpochsOf(t)'
  BY <1>1 DEF EpochsOf
<1>4. \A t \in Sessions : \A f, g \in EpochsOf(t)' :
         authorities'[t][f].owner = authorities'[t][g].owner
  BY DEF RecordAuthority, LedgerTypeOK, RowsInv, LedgerVerifies, EpochsOf
<1>5. \A g \in grants : /\ g.confirmation.session \in Sessions /\ g.epoch \in Epochs
                        /\ authorities[g.confirmation.session][g.epoch] # NoRow
  BY LedgerAssumption DEF LedgerTypeOK, RowsInv, LedgerVerifies, GrantVerifies, EpochsOf
<1>6. \A g \in grants : authorities'[g.confirmation.session][g.epoch]
                           = authorities[g.confirmation.session][g.epoch]
  BY <1>1, <1>5
<1>7. \A g \in grants : GrantVerifies(g)'
  BY <1>3, <1>5, <1>6 DEF RowsInv, LedgerVerifies, GrantVerifies, GrantExpiry
<1>8. \A t \in Sessions, f \in Epochs : revocations'[t][f] # NoRow =>
         /\ f \in EpochsOf(t)'
         /\ authorities'[t][f].from <= revocations'[t][f]
         /\ revocations'[t][f] <= authorities'[t][f].until
  BY <1>1, <1>2, <1>3 DEF RowsInv, LedgerVerifies, EpochsOf
<1>9. \A k \in consumptions' : \E g \in grants' :
         /\ g.confirmation = k.confirmation
         /\ k.confirmation.confirmed <= k.at
         /\ k.at <= g.expires
         /\ k.at <= k.confirmation.expires
         /\ authorities'[k.confirmation.session][g.epoch].from <= k.at
         /\ k.at <= authorities'[k.confirmation.session][g.epoch].until
  BY <1>2, <1>6 DEF RowsInv, LedgerVerifies
<1> QED
  BY <1>2, <1>4, <1>6, <1>7, <1>8, <1>9 DEF RowsInv, LedgerVerifies

LEMMA RevocationRows ==
    ASSUME LedgerTypeOK, RowsInv, NEW s \in Sessions, NEW e \in Epochs,
           NEW at \in Times, RevokeSession(s, e, at)
    PROVE  RowsInv'
<1>1. UNCHANGED <<authorities, grants, consumptions>>
  BY DEF RevokeSession
<1>2. \A t \in Sessions : EpochsOf(t)' = EpochsOf(t)
  BY <1>1 DEF EpochsOf
<1>3. \A t \in Sessions, f \in Epochs : revocations'[t][f] # NoRow =>
         /\ f \in EpochsOf(t)
         /\ authorities[t][f].from <= revocations'[t][f]
         /\ revocations'[t][f] <= authorities[t][f].until
  BY DEF RevokeSession, LedgerTypeOK, RowsInv, LedgerVerifies
<1>4. \A g \in grants : GrantVerifies(g)' <=> GrantVerifies(g)
  BY <1>1 DEF GrantVerifies, GrantExpiry, EpochsOf
<1> QED
  BY <1>1, <1>2, <1>3, <1>4 DEF RowsInv, LedgerVerifies

LEMMA GrantRows ==
    ASSUME LedgerTypeOK, RowsInv, NEW c \in Confirmations, NEW e \in Epochs,
           RecordConfirmation(c, e)
    PROVE  RowsInv'
<1> DEFINE new == [confirmation |-> c, epoch |-> e, expires |-> GrantExpiry(c, e)]
<1>1. UNCHANGED <<authorities, revocations, consumptions>> /\ grants' = grants \cup {new}
  BY DEF RecordConfirmation
<1>2. \A t \in Sessions : EpochsOf(t)' = EpochsOf(t)
  BY <1>1 DEF EpochsOf
<1>3. \A g \in grants' : GrantVerifies(g)' <=> GrantVerifies(g)
  BY <1>1 DEF GrantVerifies, GrantExpiry, EpochsOf
<1>4. GrantVerifies(new)
  BY DEF RecordConfirmation, GrantVerifies, Active, IsCurrent
<1>5. authorities[c.session][e].from <= c.confirmed
  BY DEF RecordConfirmation
<1>6. grants \subseteq grants'
  BY <1>1
<1> HIDE DEF new
<1>7. new.confirmation = c /\ new.epoch = e
  BY DEF new
<1>8. \A g \in grants' : GrantVerifies(g)'
  BY <1>1, <1>3, <1>4 DEF RowsInv, LedgerVerifies
<1>9. \A g \in grants' :
         authorities'[g.confirmation.session][g.epoch].from <= g.confirmation.confirmed
  BY <1>1, <1>5, <1>7 DEF RowsInv
<1> QED
  BY <1>1, <1>2, <1>6, <1>8, <1>9 DEF RowsInv, LedgerVerifies

\* The new row's grant is the one the guard found; its date lies between the
\* confirmation and the earlier of the two expiries.
LEMMA ConsumptionRows ==
    ASSUME LedgerTypeOK, RowsInv, NEW c \in Confirmations, NEW at \in Times,
           NEW acknowledged \in BOOLEAN, Consume(c, at, acknowledged)
    PROVE  RowsInv'
<1>1. PICK g \in grants : g.confirmation = c /\ GrantVerifies(g) /\ Available(g, at)
  BY DEF Consume
<1>2. /\ UNCHANGED <<authorities, revocations, grants>>
      /\ consumptions' = consumptions \cup {[confirmation |-> c, at |-> at]}
  BY DEF Consume
<1>3. \A t \in Sessions : EpochsOf(t)' = EpochsOf(t)
  BY <1>2 DEF EpochsOf
<1>4. \A h \in grants : GrantVerifies(h)' <=> GrantVerifies(h)
  BY <1>2 DEF GrantVerifies, GrantExpiry, EpochsOf
<1> DEFINE window == authorities[c.session][g.epoch]
<1>5. window \in Windows /\ window.from \in Nat /\ window.until \in Nat
  <2>1. c.session \in Sessions /\ g.epoch \in Epochs
    BY LedgerAssumption DEF LedgerTypeOK
  <2>2. authorities[c.session][g.epoch] # NoRow
    BY <1>1 DEF GrantVerifies, EpochsOf
  <2>3. window \in Windows
    BY <2>1, <2>2 DEF LedgerTypeOK
  <2> HIDE DEF window
  <2> QED
    BY <2>3, LedgerAssumption DEF Windows
<1>6. at \in Nat /\ c.confirmed \in Nat /\ c.expires \in Nat
  BY LedgerAssumption
<1>7. /\ c.confirmed <= at /\ at <= g.expires
      /\ g.expires = Earlier(c.expires, window.until)
      /\ window.from <= c.confirmed
  BY <1>1 DEF Available, GrantVerifies, GrantExpiry, RowsInv
<1>8. at <= c.expires /\ at <= window.until /\ window.from <= at
  BY <1>5, <1>6, <1>7 DEF Earlier
<1>9. ASSUME NEW k \in consumptions'
      PROVE  \E h \in grants :
                /\ h.confirmation = k.confirmation
                /\ k.confirmation.confirmed <= k.at
                /\ k.at <= h.expires
                /\ k.at <= k.confirmation.expires
                /\ authorities[k.confirmation.session][h.epoch].from <= k.at
                /\ k.at <= authorities[k.confirmation.session][h.epoch].until
  <2>1. CASE k \in consumptions
    BY <2>1 DEF RowsInv, LedgerVerifies
  <2>2. CASE k = [confirmation |-> c, at |-> at]
    <3>1. k.confirmation = c /\ k.at = at
      BY <2>2
    <3> QED
      BY <1>1, <1>7, <1>8, <3>1
  <2> QED
    BY <1>2, <2>1, <2>2
<1> QED
  BY <1>2, <1>3, <1>4, <1>9 DEF RowsInv, LedgerVerifies

LEMMA LedgerStepRows ==
    ASSUME LedgerTypeOK, RowsInv, [LedgerNext]_ledgerVars
    PROVE  RowsInv'
<1>1. CASE UNCHANGED ledgerVars
  BY <1>1 DEF ledgerVars, RowsInv, LedgerVerifies, GrantVerifies, GrantExpiry, EpochsOf
<1> QED
  BY <1>1, AuthorityRows, RevocationRows, GrantRows, ConsumptionRows
     DEF LedgerNext, ReplayConsumption

LEMMA RowsInvariant == LedgerSpec => []RowsInv
<1>1. LedgerInit => RowsInv
  BY DEF LedgerInit, RowsInv, LedgerVerifies, EpochsOf
<1>2. LedgerTypeOK /\ RowsInv /\ [LedgerNext]_ledgerVars => RowsInv'
  BY LedgerStepRows
<1> QED
  BY <1>1, <1>2, LedgerTypeInvariant, PTL DEF LedgerSpec

\* verify_integrity finds no fault with what the operations wrote, and every
\* consumption is dated inside the authority it was granted under.
THEOREM IntegrityHolds == LedgerSpec => []LedgerVerifies
<1>1. RowsInv => LedgerVerifies
  BY DEF RowsInv
<1> QED
  BY <1>1, RowsInvariant, PTL

-----------------------------------------------------------------------------
(* Nothing revives a grant whose authority was revoked or superseded.       *)

THEOREM WithdrawalIsFinal == LedgerSpec => WithdrawnStaysWithdrawn
<1> DEFINE Keeps ==
      \A g \in grants :
          LET s == g.confirmation.session
          IN  (revocations[s][g.epoch] # NoRow \/ \E f \in EpochsOf(s) : f > g.epoch)
                  => permits'[g.confirmation] = permits[g.confirmation]
<1>1. ASSUME LedgerTypeOK, PermitInv, LedgerNext PROVE Keeps
  <2> SUFFICES ASSUME NEW g \in grants,
                      \/ revocations[g.confirmation.session][g.epoch] # NoRow
                      \/ \E f \in EpochsOf(g.confirmation.session) : f > g.epoch
               PROVE  permits'[g.confirmation] = permits[g.confirmation]
    OBVIOUS
  <2>1. ASSUME NEW at \in Times, NEW acknowledged \in BOOLEAN,
               Consume(g.confirmation, at, acknowledged)
        PROVE  FALSE
    <3>1. PICK h \in grants : h.confirmation = g.confirmation /\ Available(h, at)
      BY <2>1 DEF Consume
    <3>2. h = g
      BY <3>1, <1>1 DEF PermitInv
    <3>3. /\ revocations[g.confirmation.session][g.epoch] = NoRow
          /\ \A f \in EpochsOf(g.confirmation.session) : f <= g.epoch
      BY <3>1, <3>2 DEF Available, Active, IsCurrent
    <3>4. g.epoch \in Nat /\ EpochsOf(g.confirmation.session) \subseteq Nat
      BY <1>1, LedgerAssumption DEF LedgerTypeOK, EpochsOf
    <3> QED
      BY <3>3, <3>4
  <2>2. ASSUME NEW c \in Confirmations, c # g.confirmation, NEW at \in Times,
               NEW acknowledged \in BOOLEAN, Consume(c, at, acknowledged)
        PROVE  permits'[g.confirmation] = permits[g.confirmation]
    BY <1>1, <2>2 DEF Consume, LedgerTypeOK
  <2> QED
    BY <1>1, <2>1, <2>2
       DEF LedgerNext, RecordAuthority, RevokeSession, RecordConfirmation,
           ReplayConsumption, ledgerVars
<1>2. LedgerTypeOK /\ PermitInv /\ [LedgerNext]_ledgerVars => [Keeps]_ledgerVars
  BY <1>1
<1> QED
  BY <1>2, LedgerTypeInvariant, PermitInvariant, PTL DEF LedgerSpec, WithdrawnStaysWithdrawn

-----------------------------------------------------------------------------
(* The run.                                                                 *)

Receipts == [confirmation : Own, at : Times]

Results == [count : {0, 1}, head : Recorded]

RunTypeOK ==
    /\ prepared \in 0 .. Len(PrepareOrder)
    /\ marker \in Receipts \cup {Absent, Torn}
    /\ plan \in Own \cup {Absent, Torn}
    /\ snapshot \in Own \cup {Absent, Torn}
    /\ journal \in Heads
    /\ result \in Results \cup {Absent}
    /\ pc \in [Executors -> PCs]
    /\ call \in [Executors -> Own \cup {NoRow}]
    /\ last \in [Executors -> Nat]
    /\ claimedAt \in [Executors -> Times \cup {NoRow}]
    /\ sent \in [Executors -> {0, 1}]

\* Where a call that consumed its confirmation can be before it stops.
Unmarked == {"authorized", "marker"}
Early == Unmarked \cup {"plan", "snapshot", "credential", "token", "register"}
Sending == {"prepare", "claim", "dispatch", "post", "posted"}
Answering == {"succeed", "report"}
PaidPCs == Early \cup Sending \cup Answering

Answered == {"response_received", "succeeded"}

Paying(e) == pc[e] \in PaidPCs \/ sent[e] > 0

Receipt(e) == [confirmation |-> call[e], at |-> claimedAt[e]]

\* A call that read a context was given one of a complete challenge, and knows
\* when it consumes it.
CallInv ==
    \A e \in Executors :
        /\ pc[e] # "idle" => call[e] \in Own /\ ChallengeReady
        /\ pc[e] \in PaidPCs \cup {"consume"} => claimedAt[e] \in Times
        /\ sent[e] > 0 => pc[e] \in {"posted", "ended"} \cup Answering
        /\ pc[e] \in {"posted", "succeed"} => sent[e] = 1

\* There is one paying call at most, and the ledger has its receipt.
OwnerInv ==
    \A e \in Executors : Paying(e) =>
        /\ permits[call[e]] = 1
        /\ Receipt(e) \in consumptions
        /\ \A f \in Executors \ {e} : ~Paying(f)

\* An unspent challenge has left nothing behind.
SpentInv ==
    \/ \E c \in Own : Consumed(c)
    \/ /\ marker = Absent /\ plan = Absent /\ snapshot = Absent
       /\ journal = Absent /\ result = Absent
       /\ \A e \in Executors : ~Paying(e)

\* Each file is complete, and the paying call's, before its next step.
FilesInv ==
    /\ \A e \in Executors :
          /\ pc[e] \in PaidPCs \ Unmarked \/ sent[e] > 0 => marker = Receipt(e)
          /\ pc[e] \in PaidPCs \ (Unmarked \cup {"plan"}) => plan = call[e]
          /\ pc[e] \in PaidPCs \ (Unmarked \cup {"plan", "snapshot"}) => snapshot = call[e]
    /\ journal # Absent => Rebuilds

\* The journal is where the paying call left it.
HeadInv ==
    /\ \A e \in Executors :
          /\ pc[e] \in Early => journal = Absent
          /\ pc[e] = "prepare" => journal = "registered"
          /\ pc[e] \in {"claim", "dispatch"} => journal = "prepared"
          /\ pc[e] \in {"post", "posted"} => journal = "submitted"
          /\ pc[e] = "succeed" => journal \in Answered
          /\ pc[e] = "report" =>
                journal \in Answered \cup {"submitted", "failed", "outcome_unknown"}
    /\ journal \in Answered => \E e \in Executors : sent[e] = 1

\* A result is only written when no POST can follow, and counts those made.
ResultInv ==
    result # Absent =>
        /\ \A e \in Executors : pc[e] \notin Early \cup Sending
        /\ result.count = IF \E e \in Executors : sent[e] = 1 THEN 1 ELSE 0

RunInv == RunTypeOK /\ CallInv /\ OwnerInv /\ SpentInv /\ FilesInv /\ HeadInv /\ ResultInv

E2EInv == LedgerTypeOK /\ PermitInv /\ RowsInv /\ RunInv

USE DEF PaidPCs, Unmarked, Early, Sending, Answering, Answered

-----------------------------------------------------------------------------
(* The run takes no step of the ledger that the ledger does not have.       *)

LEMMA StepOfLedger ==
    ASSUME RunTypeOK, CallInv, [E2ENext]_e2eVars
    PROVE  [LedgerNext]_ledgerVars
<1>1. CASE Studio
  BY <1>1 DEF Studio, LedgerNext
<1>2. ASSUME NEW e \in Executors, ConsumeOwn(e)
      PROVE  LedgerNext
  <2>1. call[e] \in Confirmations /\ claimedAt[e] \in Times
    BY <1>2 DEF ConsumeOwn, CallInv, Own
  <2> QED
    BY <1>2, <2>1 DEF ConsumeOwn, LedgerNext
<1>3. CASE UNCHANGED e2eVars
  BY <1>3 DEF e2eVars
<1> QED
  BY <1>1, <1>2, <1>3
     DEF E2ENext, Prepare, Finalize, Stop, Clock, Sample, ReadContext, Inspect, ClaimMarker,
         WritePlan, WriteSnapshot, Register, AppendPrepared, ClaimDispatch, Post, Record,
         Succeed, Journal, WriteResult

-----------------------------------------------------------------------------
(* Every step keeps the invariant of the run: one lemma per action.         *)

LEMMA PrepareStep ==
    ASSUME LedgerTypeOK, PermitInv, RowsInv, RunInv, Prepare
    PROVE  RunInv'
<1> USE DEF RunInv, RunTypeOK, Prepare, ledgerVars, calls
<1>1. RunTypeOK'
  BY DEF PCs
<1>2. CallInv'
  BY DEF CallInv, ChallengeReady
<1>3. OwnerInv'
  BY DEF OwnerInv, Paying, Receipt
<1>4. SpentInv'
  BY DEF SpentInv, Consumed, Paying
<1>5. FilesInv'
  BY DEF FilesInv, Receipt, Rebuilds, Frozen, ChallengeReady
<1>6. HeadInv'
  BY DEF HeadInv
<1>7. ResultInv'
  BY DEF ResultInv
<1> QED
  BY <1>1, <1>2, <1>3, <1>4, <1>5, <1>6, <1>7

LEMMA StudioStep ==
    ASSUME LedgerTypeOK, PermitInv, RowsInv, RunInv, Studio
    PROVE  RunInv'
<1> USE DEF RunInv, RunTypeOK, Studio, directory, calls, RecordAuthority, RevokeSession,
    RecordConfirmation
<1>1. RunTypeOK'
  BY DEF PCs
<1>2. CallInv'
  BY DEF CallInv, ChallengeReady
<1>3. OwnerInv'
  BY DEF OwnerInv, Paying, Receipt
<1>4. SpentInv'
  BY DEF SpentInv, Consumed, Paying
<1>5. FilesInv'
  BY DEF FilesInv, Receipt, Rebuilds, Frozen, ChallengeReady
<1>6. HeadInv'
  BY DEF HeadInv
<1>7. ResultInv'
  BY DEF ResultInv
<1> QED
  BY <1>1, <1>2, <1>3, <1>4, <1>5, <1>6, <1>7

LEMMA StopStep ==
    ASSUME LedgerTypeOK, PermitInv, RowsInv, RunInv, NEW e \in Executors, Stop(e)
    PROVE  RunInv'
<1> USE DEF RunInv, RunTypeOK, Stop, ledgerVars, directory, Goto
<1>1. RunTypeOK'
  BY DEF PCs
<1>2. CallInv'
  BY DEF CallInv, ChallengeReady
<1>3. OwnerInv'
  BY DEF OwnerInv, Paying, Receipt
<1>4. SpentInv'
  BY DEF SpentInv, Consumed, Paying
<1>5. FilesInv'
  BY DEF FilesInv, Receipt, Rebuilds, Frozen, ChallengeReady
<1>6. HeadInv'
  BY DEF HeadInv
<1>7. ResultInv'
  BY DEF ResultInv
<1> QED
  BY <1>1, <1>2, <1>3, <1>4, <1>5, <1>6, <1>7

LEMMA ReadContextStep ==
    ASSUME LedgerTypeOK, PermitInv, RowsInv, RunInv, NEW e \in Executors,
           NEW c \in Own, NEW now \in Times, ReadContext(e, c, now)
    PROVE  RunInv'
<1> USE DEF RunInv, RunTypeOK, ReadContext, ledgerVars, directory, Goto
<1>1. RunTypeOK'
  BY LedgerAssumption DEF PCs
<1>2. CallInv'
  BY DEF CallInv, ChallengeReady
<1>3. OwnerInv'
  BY DEF OwnerInv, Paying, Receipt, CallInv
<1>4. SpentInv'
  BY DEF SpentInv, Consumed, Paying
<1>5. FilesInv'
  BY DEF FilesInv, Receipt, Rebuilds, Frozen, ChallengeReady, CallInv
<1>6. HeadInv'
  BY DEF HeadInv
<1>7. ResultInv'
  BY DEF ResultInv
<1> QED
  BY <1>1, <1>2, <1>3, <1>4, <1>5, <1>6, <1>7

LEMMA InspectStep ==
    ASSUME LedgerTypeOK, PermitInv, RowsInv, RunInv, NEW e \in Executors, Inspect(e)
    PROVE  RunInv'
<1> USE DEF RunInv, RunTypeOK, Inspect, ledgerVars, directory, Goto
<1>1. RunTypeOK'
  BY DEF PCs
<1>2. CallInv'
  BY DEF CallInv, ChallengeReady
<1>3. OwnerInv'
  BY DEF OwnerInv, Paying, Receipt
<1>4. SpentInv'
  BY DEF SpentInv, Consumed, Paying
<1>5. FilesInv'
  BY DEF FilesInv, Receipt, Rebuilds, Frozen, ChallengeReady
<1>6. HeadInv'
  BY DEF HeadInv
<1>7. ResultInv'
  BY DEF ResultInv
<1> QED
  BY <1>1, <1>2, <1>3, <1>4, <1>5, <1>6, <1>7

LEMMA ClockStep ==
    ASSUME LedgerTypeOK, PermitInv, RowsInv, RunInv, NEW e \in Executors,
           NEW now \in Times, Clock(e, now)
    PROVE  RunInv'
<1> USE DEF RunInv, RunTypeOK, Clock, Sample, ledgerVars, directory, Goto
<1>1. RunTypeOK'
  BY ZenonT(60), LedgerAssumption DEF PCs
<1>2. CallInv'
  BY DEF CallInv, ChallengeReady
<1>3. OwnerInv'
  BY DEF OwnerInv, Paying, Receipt, CallInv
<1>4. SpentInv'
  BY DEF SpentInv, Consumed, Paying
<1>5. FilesInv'
  BY DEF FilesInv, Receipt, Rebuilds, Frozen, ChallengeReady, CallInv
<1>6. HeadInv'
  BY DEF HeadInv
<1>7. ResultInv'
  BY DEF ResultInv
<1> QED
  BY <1>1, <1>2, <1>3, <1>4, <1>5, <1>6, <1>7

\* The hinge: two grants of one challenge are one grant, so a consumption of
\* this challenge finds none before it.
LEMMA FirstOfChallenge ==
    ASSUME PermitInv, NEW c \in Own, NEW at, NEW acknowledged, Consume(c, at, acknowledged)
    PROVE  \A b \in Own : ~Consumed(b)
<1> SUFFICES ASSUME NEW b \in Own, Consumed(b)
             PROVE  FALSE
  OBVIOUS
<1>1. PICK g \in grants : g.confirmation = b
  BY DEF Consumed, PermitInv
<1>2. PICK h \in grants : h.confirmation = c
  BY DEF Consume
<1>3. g = h
  BY <1>1, <1>2 DEF PermitInv, Own
<1> QED
  BY <1>1, <1>2, <1>3 DEF Consume

LEMMA ConsumeStep ==
    ASSUME LedgerTypeOK, PermitInv, RowsInv, RunInv, NEW e \in Executors, ConsumeOwn(e)
    PROVE  RunInv'
<1> USE DEF RunInv, RunTypeOK, directory
<1> DEFINE c == call[e]
<1>a. PICK acknowledged \in BOOLEAN :
         /\ Consume(c, claimedAt[e], acknowledged)
         /\ Goto(e, IF acknowledged THEN "authorized" ELSE "ended")
  BY DEF ConsumeOwn
<1>b. c \in Own /\ c \in Confirmations
  BY DEF ConsumeOwn, CallInv, Own
<1>c. \A b \in Own : ~Consumed(b)
  BY <1>a, <1>b, FirstOfChallenge
<1>d. /\ marker = Absent /\ plan = Absent /\ snapshot = Absent
      /\ journal = Absent /\ result = Absent
      /\ \A f \in Executors : ~Paying(f)
  BY <1>c DEF SpentInv
<1>e. /\ Receipt(e) \in consumptions'
      /\ acknowledged => permits'[c] = 1
  <2>1. permits[c] = 0
    BY <1>b, <1>c DEF PermitInv, LedgerTypeOK
  <2> QED
    BY <1>a, <1>b, <2>1 DEF Consume, Receipt, LedgerTypeOK
<1>f. \A f \in Executors : sent[f] = 0
  BY <1>d DEF Paying
<1>g. /\ pc[e] = "consume"
      /\ pc' = [pc EXCEPT ![e] = IF acknowledged THEN "authorized" ELSE "ended"]
      /\ UNCHANGED <<directory, journal, call, last, claimedAt, sent>>
  BY <1>a DEF ConsumeOwn, Goto
<1>1. RunTypeOK'
  BY <1>g DEF PCs
<1>2. CallInv'
  BY <1>b, <1>f, <1>g DEF CallInv, ChallengeReady
<1>3. OwnerInv'
  BY <1>d, <1>e, <1>f, <1>g DEF OwnerInv, Paying, Receipt
<1>4. SpentInv'
  <2>1. Receipt(e).confirmation = c
    BY DEF Receipt
  <2>2. \E k \in consumptions' : k.confirmation = c
    BY <1>e, <2>1
  <2> QED
    BY <1>b, <2>2 DEF SpentInv, Consumed
<1>5. FilesInv'
  BY <1>d, <1>f, <1>g DEF FilesInv, Receipt, Rebuilds, Frozen, ChallengeReady
<1>6. HeadInv'
  BY <1>d, <1>f, <1>g, E2EAssumption DEF HeadInv, Recorded
<1>7. ResultInv'
  BY <1>d, <1>g DEF ResultInv
<1> QED
  BY <1>1, <1>2, <1>3, <1>4, <1>5, <1>6, <1>7

LEMMA MarkerStep ==
    ASSUME LedgerTypeOK, PermitInv, RowsInv, RunInv, NEW e \in Executors, ClaimMarker(e)
    PROVE  RunInv'
<1> USE DEF RunInv, RunTypeOK, ClaimMarker, ledgerVars, Goto
<1>1. RunTypeOK'
  BY DEF PCs, CallInv, Receipts
<1>2. CallInv'
  BY DEF CallInv, ChallengeReady
<1>3. OwnerInv'
  BY DEF OwnerInv, Paying, Receipt
<1>4. SpentInv'
  BY DEF SpentInv, Consumed, Paying
<1>5. FilesInv'
  BY DEF FilesInv, Receipt, Rebuilds, Frozen, ChallengeReady, OwnerInv, Paying, HeadInv, CallInv
<1>6. HeadInv'
  BY DEF HeadInv
<1>7. ResultInv'
  BY DEF ResultInv
<1> QED
  BY <1>1, <1>2, <1>3, <1>4, <1>5, <1>6, <1>7

LEMMA PlanStep ==
    ASSUME LedgerTypeOK, PermitInv, RowsInv, RunInv, NEW e \in Executors, WritePlan(e)
    PROVE  RunInv'
<1> USE DEF RunInv, RunTypeOK, WritePlan, ledgerVars, Goto
<1>1. RunTypeOK'
  BY DEF PCs, CallInv
<1>2. CallInv'
  BY DEF CallInv, ChallengeReady
<1>3. OwnerInv'
  BY DEF OwnerInv, Paying, Receipt
<1>4. SpentInv'
  BY DEF SpentInv, Consumed, Paying
<1>5. FilesInv'
  BY E2EAssumption DEF FilesInv, Receipt, Rebuilds, Frozen, ChallengeReady, OwnerInv, Paying,
     HeadInv
<1>6. HeadInv'
  BY DEF HeadInv
<1>7. ResultInv'
  BY DEF ResultInv
<1> QED
  BY <1>1, <1>2, <1>3, <1>4, <1>5, <1>6, <1>7

LEMMA SnapshotStep ==
    ASSUME LedgerTypeOK, PermitInv, RowsInv, RunInv, NEW e \in Executors, WriteSnapshot(e)
    PROVE  RunInv'
<1> USE DEF RunInv, RunTypeOK, WriteSnapshot, ledgerVars, Goto
<1>1. RunTypeOK'
  BY DEF PCs, CallInv
<1>2. CallInv'
  BY DEF CallInv, ChallengeReady
<1>3. OwnerInv'
  BY DEF OwnerInv, Paying, Receipt
<1>4. SpentInv'
  BY DEF SpentInv, Consumed, Paying
<1>5. FilesInv'
  BY E2EAssumption DEF FilesInv, Receipt, Rebuilds, Frozen, ChallengeReady, OwnerInv, Paying,
     HeadInv
<1>6. HeadInv'
  BY DEF HeadInv
<1>7. ResultInv'
  BY DEF ResultInv
<1> QED
  BY <1>1, <1>2, <1>3, <1>4, <1>5, <1>6, <1>7

LEMMA RegisterStep ==
    ASSUME LedgerTypeOK, PermitInv, RowsInv, RunInv, NEW e \in Executors, Register(e)
    PROVE  RunInv'
<1> USE DEF RunInv, RunTypeOK, Register, Journal, ledgerVars, directory, Goto
<1>1. RunTypeOK'
  BY DEF PCs, Heads, Recorded
<1>2. CallInv'
  BY DEF CallInv, ChallengeReady
<1>3. OwnerInv'
  BY DEF OwnerInv, Paying, Receipt
<1>4. SpentInv'
  BY DEF SpentInv, Consumed, Paying
<1>5. FilesInv'
  <2>1. marker = Receipt(e) /\ plan = call[e] /\ snapshot = call[e]
    BY DEF FilesInv
  <2>2. call[e] \in Own /\ Receipt(e) \in consumptions /\ ChallengeReady
    BY DEF CallInv, OwnerInv, Paying
  <2>3. Receipt(e) \in [confirmation : Confirmations, at : Times]
    BY <2>2 DEF LedgerTypeOK
  <2>4. marker \notin {Absent, Torn} /\ snapshot \notin {Absent, Torn}
    BY <2>1, <2>2, <2>3, E2EAssumption DEF Own
  <2>5. /\ call[e].confirmed <= Receipt(e).at /\ Receipt(e).at <= call[e].expires
    <3>1. Receipt(e).confirmation = call[e]
      BY DEF Receipt
    <3> QED
      BY <2>2, <3>1 DEF RowsInv, LedgerVerifies
  <2>6. call[e].confirmed <= call[e].expires
    BY <2>2, LedgerAssumption DEF Own
  <2>7. Rebuilds
    BY <2>1, <2>2, <2>4, <2>5, <2>6 DEF Rebuilds, Frozen, Receipt
  <2> QED
    BY <2>7 DEF FilesInv, Receipt, Rebuilds, Frozen, ChallengeReady
<1>6. HeadInv'
  BY E2EAssumption DEF HeadInv, OwnerInv, Paying, Recorded
<1>7. ResultInv'
  BY DEF ResultInv
<1> QED
  BY <1>1, <1>2, <1>3, <1>4, <1>5, <1>6, <1>7

LEMMA PrepareEventStep ==
    ASSUME LedgerTypeOK, PermitInv, RowsInv, RunInv, NEW e \in Executors, AppendPrepared(e)
    PROVE  RunInv'
<1> USE DEF RunInv, RunTypeOK, AppendPrepared, Journal, ledgerVars, directory, Goto
<1>1. RunTypeOK'
  BY DEF PCs, Heads, Recorded
<1>2. CallInv'
  BY DEF CallInv, ChallengeReady
<1>3. OwnerInv'
  BY DEF OwnerInv, Paying, Receipt
<1>4. SpentInv'
  BY DEF SpentInv, Consumed, Paying
<1>5. FilesInv'
  BY E2EAssumption DEF FilesInv, Receipt, Rebuilds, Frozen, ChallengeReady, Recorded
<1>6. HeadInv'
  BY E2EAssumption DEF HeadInv, OwnerInv, Paying, Recorded
<1>7. ResultInv'
  BY DEF ResultInv
<1> QED
  BY <1>1, <1>2, <1>3, <1>4, <1>5, <1>6, <1>7

LEMMA DispatchStep ==
    ASSUME LedgerTypeOK, PermitInv, RowsInv, RunInv, NEW e \in Executors, ClaimDispatch(e)
    PROVE  RunInv'
<1> USE DEF RunInv, RunTypeOK, ClaimDispatch, Journal, ledgerVars, directory, Goto
<1>1. RunTypeOK'
  BY DEF PCs, Heads, Recorded
<1>2. CallInv'
  BY DEF CallInv, ChallengeReady
<1>3. OwnerInv'
  BY DEF OwnerInv, Paying, Receipt
<1>4. SpentInv'
  BY DEF SpentInv, Consumed, Paying
<1>5. FilesInv'
  BY E2EAssumption DEF FilesInv, Receipt, Rebuilds, Frozen, ChallengeReady, Recorded
<1>6. HeadInv'
  BY E2EAssumption DEF HeadInv, OwnerInv, Paying, Recorded
<1>7. ResultInv'
  BY DEF ResultInv
<1> QED
  BY <1>1, <1>2, <1>3, <1>4, <1>5, <1>6, <1>7

LEMMA PostStep ==
    ASSUME LedgerTypeOK, PermitInv, RowsInv, RunInv, NEW e \in Executors, Post(e)
    PROVE  RunInv'
<1> USE DEF RunInv, RunTypeOK, Post, ledgerVars, directory, Goto
<1>1. RunTypeOK'
  BY DEF PCs
<1>2. CallInv'
  BY DEF CallInv, ChallengeReady
<1>3. OwnerInv'
  BY DEF OwnerInv, Paying, Receipt
<1>4. SpentInv'
  BY DEF SpentInv, Consumed, Paying
<1>5. FilesInv'
  BY DEF FilesInv, Receipt, Rebuilds, Frozen, ChallengeReady, CallInv
<1>6. HeadInv'
  BY DEF HeadInv
<1>7. ResultInv'
  BY DEF ResultInv
<1> QED
  BY <1>1, <1>2, <1>3, <1>4, <1>5, <1>6, <1>7

LEMMA RecordStep ==
    ASSUME LedgerTypeOK, PermitInv, RowsInv, RunInv, NEW e \in Executors, Record(e)
    PROVE  RunInv'
<1> USE DEF RunInv, RunTypeOK, Record, Journal, ledgerVars, directory, Goto
<1>1. RunTypeOK'
  BY DEF PCs, Heads, Recorded
<1>2. CallInv'
  BY DEF CallInv, ChallengeReady
<1>3. OwnerInv'
  BY DEF OwnerInv, Paying, Receipt
<1>4. SpentInv'
  BY DEF SpentInv, Consumed, Paying
<1>5. FilesInv'
  BY E2EAssumption DEF FilesInv, Receipt, Rebuilds, Frozen, ChallengeReady, Recorded
<1>6. HeadInv'
  BY E2EAssumption DEF HeadInv, OwnerInv, Paying, CallInv, Recorded
<1>7. ResultInv'
  BY DEF ResultInv
<1> QED
  BY <1>1, <1>2, <1>3, <1>4, <1>5, <1>6, <1>7

LEMMA SucceedStep ==
    ASSUME LedgerTypeOK, PermitInv, RowsInv, RunInv, NEW e \in Executors, Succeed(e)
    PROVE  RunInv'
<1> USE DEF RunInv, RunTypeOK, Succeed, Journal, ledgerVars, directory, Goto
<1>1. RunTypeOK'
  BY DEF PCs, Heads, Recorded
<1>2. CallInv'
  BY DEF CallInv, ChallengeReady
<1>3. OwnerInv'
  BY DEF OwnerInv, Paying, Receipt
<1>4. SpentInv'
  BY DEF SpentInv, Consumed, Paying
<1>5. FilesInv'
  BY SMTT(30), E2EAssumption DEF FilesInv, Receipt, Rebuilds, Frozen, ChallengeReady, Recorded
<1>6. HeadInv'
  BY SMTT(30), E2EAssumption DEF HeadInv, OwnerInv, Paying, Recorded
<1>7. ResultInv'
  BY DEF ResultInv
<1> QED
  BY <1>1, <1>2, <1>3, <1>4, <1>5, <1>6, <1>7

LEMMA ResultStep ==
    ASSUME LedgerTypeOK, PermitInv, RowsInv, RunInv, NEW e \in Executors, WriteResult(e)
    PROVE  RunInv'
<1> USE DEF RunInv, RunTypeOK, WriteResult, ledgerVars, Goto
<1>1. RunTypeOK'
  BY DEF PCs, HeadInv, Results, Heads, Recorded
<1>2. CallInv'
  BY DEF CallInv, ChallengeReady
<1>3. OwnerInv'
  BY DEF OwnerInv, Paying, Receipt
<1>4. SpentInv'
  BY DEF SpentInv, Consumed, Paying
<1>5. FilesInv'
  BY DEF FilesInv, Receipt, Rebuilds, Frozen, ChallengeReady
<1>6. HeadInv'
  BY DEF HeadInv
<1>7. ResultInv'
  <2>1. \A f \in Executors \ {e} : sent[f] = 0 /\ pc[f] \notin PaidPCs
    BY DEF OwnerInv, Paying
  <2>2. sent[e] = IF \E f \in Executors : sent[f] = 1 THEN 1 ELSE 0
    BY <2>1
  <2>3. result'.count = sent[e] /\ UNCHANGED sent /\ pc' = [pc EXCEPT ![e] = "ended"]
    OBVIOUS
  <2> QED
    BY <2>1, <2>2, <2>3 DEF ResultInv
<1> QED
  BY <1>1, <1>2, <1>3, <1>4, <1>5, <1>6, <1>7

LEMMA FinalizeStep ==
    ASSUME LedgerTypeOK, PermitInv, RowsInv, RunInv, Finalize
    PROVE  RunInv'
<1> USE DEF RunInv, RunTypeOK, Finalize, FinalizerAccepts, ledgerVars, calls
<1>1. RunTypeOK'
  BY DEF PCs, Results, Heads, Recorded
<1>2. CallInv'
  BY DEF CallInv, ChallengeReady
<1>3. OwnerInv'
  BY DEF OwnerInv, Paying, Receipt
<1>4. SpentInv'
  BY E2EAssumption DEF SpentInv, Consumed, Paying, Rebuilds, Recorded
<1>5. FilesInv'
  BY DEF FilesInv, Receipt, Rebuilds, Frozen, ChallengeReady
<1>6. HeadInv'
  BY E2EAssumption DEF HeadInv, Recorded
<1>7. ResultInv'
  BY E2EAssumption DEF ResultInv, HeadInv, Recorded
<1> QED
  BY <1>1, <1>2, <1>3, <1>4, <1>5, <1>6, <1>7

-----------------------------------------------------------------------------

LEMMA E2EInvariant == E2ESpec => []E2EInv
<1>1. E2EInit => E2EInv
  <2>1. SUFFICES ASSUME E2EInit PROVE E2EInv
    OBVIOUS
  <2>2. LedgerTypeOK /\ PermitInv /\ RowsInv
    BY <2>1 DEF E2EInit, LedgerInit, LedgerTypeOK, PermitInv, RowsInv, LedgerVerifies, EpochsOf
  <2>3. RunTypeOK
    BY <2>1 DEF E2EInit, RunTypeOK, PCs, Heads, PrepareOrder
  <2>4. CallInv /\ OwnerInv /\ SpentInv /\ FilesInv /\ HeadInv /\ ResultInv
    BY <2>1, E2EAssumption
       DEF E2EInit, CallInv, OwnerInv, SpentInv, FilesInv, HeadInv, ResultInv, Paying, Recorded
  <2> QED
    BY <2>2, <2>3, <2>4 DEF E2EInv, RunInv
<1>2. E2EInv /\ [E2ENext]_e2eVars => E2EInv'
  <2>1. SUFFICES ASSUME E2EInv, [E2ENext]_e2eVars PROVE E2EInv'
    OBVIOUS
  <2>2. LedgerTypeOK /\ PermitInv /\ RowsInv /\ RunInv
    BY <2>1 DEF E2EInv
  <2>3. [LedgerNext]_ledgerVars
    BY <2>1, <2>2, StepOfLedger DEF RunInv
  <2>4. LedgerTypeOK' /\ PermitInv' /\ RowsInv'
    BY <2>2, <2>3, LedgerStepTypeOK, LedgerStepPermit, LedgerStepRows
  <2>5. CASE E2ENext
    <3>1. RunInv'
      BY <2>2, <2>5, PrepareStep, StudioStep, StopStep, ReadContextStep, InspectStep,
         ClockStep, ConsumeStep, MarkerStep, PlanStep, SnapshotStep, RegisterStep,
         PrepareEventStep, DispatchStep, PostStep, RecordStep, SucceedStep, ResultStep,
         FinalizeStep
         DEF E2ENext
    <3> QED
      BY <2>4, <3>1 DEF E2EInv
  <2>6. CASE UNCHANGED e2eVars
    <3>1. RunInv'
      BY <2>2, <2>6
         DEF RunInv, RunTypeOK, CallInv, OwnerInv, SpentInv, FilesInv, HeadInv, ResultInv,
             Paying, Receipt, Rebuilds, Frozen, ChallengeReady, Consumed,
             e2eVars, ledgerVars, directory, calls
    <3> QED
      BY <2>4, <3>1 DEF E2EInv
  <2> QED
    BY <2>1, <2>5, <2>6
<1> QED
  BY <1>1, <1>2, PTL DEF E2ESpec

\* The calls use the ledger only as Studio's other callers may, so all that
\* is proved of it above holds under them.
THEOREM RunUsesLedger == E2ESpec => LedgerSpec
<1>1. E2EInit => LedgerInit
  BY DEF E2EInit
<1>2. E2EInv /\ [E2ENext]_e2eVars => [LedgerNext]_ledgerVars
  BY StepOfLedger DEF E2EInv, RunInv
<1> QED
  BY <1>1, <1>2, E2EInvariant, PTL DEF E2ESpec, LedgerSpec

-----------------------------------------------------------------------------
(* What it says of the three properties.                                    *)

\* No call, however many race or are killed, sends on anything but its own
\* acknowledged consumption, and while one pays no other is past the ledger.
THEOREM OwnConsumptionPays == E2ESpec => []PaidByOwnConsumption
<1>1. ASSUME E2EInv PROVE PaidByOwnConsumption
  <2>1. RunTypeOK /\ CallInv /\ OwnerInv /\ FilesInv
    BY <1>1 DEF E2EInv, RunInv
  <2>2. SUFFICES ASSUME NEW e \in Executors,
                        sent[e] > 0 \/ pc[e] \in {"authorized", "marker", "plan", "post"}
                 PROVE  /\ permits[call[e]] = 1
                        /\ Receipt(e) \in consumptions
                        /\ sent[e] > 0 => marker = Receipt(e)
                        /\ \A f \in Executors \ {e} :
                              /\ sent[f] = 0
                              /\ pc[f] \in {"idle", "context", "inspected", "consume", "ended"}
    BY DEF PaidByOwnConsumption, Receipt
  <2>3. Paying(e)
    BY <2>2 DEF Paying
  <2>4. \A f \in Executors \ {e} : sent[f] = 0 /\ pc[f] \in PCs \ PaidPCs
    BY <2>1, <2>3 DEF OwnerInv, Paying, RunTypeOK
  <2> QED
    BY <2>1, <2>3, <2>4 DEF OwnerInv, FilesInv, PCs
<1> QED
  BY <1>1, E2EInvariant, PTL

\* A response in the journal can be finalized from the directory alone,
\* whoever was killed wherever.
THEOREM ResponseIsRecoverable == E2ESpec => []PaidIsRecoverable
<1>1. E2EInv => PaidIsRecoverable
  BY E2EAssumption DEF E2EInv, RunInv, FilesInv, PaidIsRecoverable, FinalizerAccepts, Recorded
<1> QED
  BY <1>1, E2EInvariant, PTL

\* POSTs of a run in which call e made n[e] of them.
Posts(n) == UNION {{e} \X (1 .. n[e]) : e \in Executors}

LEMMA CountOfNone ==
    ASSUME NEW n, \A e \in Executors : n[e] = 0
    PROVE  Cardinality(Posts(n)) = 0
<1>1. Posts(n) = {}
  BY DEF Posts
<1> QED
  BY <1>1, FS_EmptySet

LEMMA CountOfOne ==
    ASSUME NEW n, NEW e \in Executors, n[e] = 1, \A f \in Executors \ {e} : n[f] = 0
    PROVE  Cardinality(Posts(n)) = 1
<1>1. 1 .. 1 = {1} /\ 1 .. 0 = {}
  OBVIOUS
<1>2. \A f \in Executors : {f} \X (1 .. n[f]) = IF f = e THEN {<<e, 1>>} ELSE {}
  BY <1>1
<1>3. Posts(n) = {<<e, 1>>}
  BY <1>2 DEF Posts
<1> QED
  BY <1>3, FS_Singleton

LEMMA CountOfRun ==
    ASSUME E2EInv
    PROVE  TotalSent = IF \E e \in Executors : sent[e] = 1 THEN 1 ELSE 0
<1>1. TotalSent = Cardinality(Posts(sent))
  BY DEF TotalSent, Posts
<1>2. \A e \in Executors : sent[e] \in {0, 1}
  BY DEF E2EInv, RunInv, RunTypeOK
<1>3. ASSUME NEW e \in Executors, sent[e] = 1
      PROVE  \A f \in Executors \ {e} : sent[f] = 0
  BY <1>2, <1>3 DEF E2EInv, RunInv, OwnerInv, Paying
<1> QED
  BY <1>1, <1>2, <1>3, CountOfNone, CountOfOne

\* Whatever result is published claims as many POSTs as were made, also the
\* finalizer's, which counts none.
THEOREM CountsOfPosts == E2ESpec => []CountsAreTrue
<1>1. ASSUME E2EInv PROVE CountsAreTrue
  <2>1. HeadInv /\ ResultInv
    BY <1>1 DEF E2EInv, RunInv
  <2> QED
    BY <1>1, <2>1, CountOfRun DEF HeadInv, ResultInv, CountsAreTrue, FinalizerAccepts
<1> QED
  BY <1>1, E2EInvariant, PTL

-----------------------------------------------------------------------------
(* The run is a PaidChallenge.                                              *)

Made == \E e \in Executors : sent[e] = 1

Spent == \E c \in Own : Consumed(c)

\* All steps but the three below leave the promise alone.
LEMMA NothingPromised ==
    ASSUME UNCHANGED <<sent, consumptions>>,
           journal \in Answered <=> journal' \in Answered
    PROVE  UNCHANGED Paid!paidVars
<1>1. TotalSent' = TotalSent
  BY DEF TotalSent
<1>2. \A c \in Own : Consumed(c)' <=> Consumed(c)
  BY DEF Consumed
<1> QED
  BY <1>1, <1>2 DEF Paid!paidVars

LEMMA ConsumptionSpends ==
    ASSUME E2EInv, NEW e \in Executors, ConsumeOwn(e)
    PROVE  Paid!Spend
<1>1. call[e] \in Own
  BY DEF E2EInv, RunInv, CallInv, ConsumeOwn
<1>2. PICK acknowledged \in BOOLEAN : Consume(call[e], claimedAt[e], acknowledged)
  BY DEF ConsumeOwn
<1>3. ~Spent
  BY <1>1, <1>2, FirstOfChallenge DEF E2EInv, Spent
<1>4. journal = Absent /\ ~Made
  BY <1>3 DEF E2EInv, RunInv, SpentInv, Spent, Paying, Made
<1>5. TotalSent = 0
  BY <1>4, CountOfRun DEF Made
<1>6. journal' = journal /\ TotalSent' = TotalSent
  BY DEF ConsumeOwn, TotalSent
<1>7. Spent'
  <2> DEFINE row == [confirmation |-> call[e], at |-> claimedAt[e]]
  <2>1. row \in consumptions'
    BY <1>2 DEF Consume
  <2>2. row.confirmation = call[e]
    OBVIOUS
  <2> HIDE DEF row
  <2> QED
    BY <1>1, <2>1, <2>2 DEF Spent, Consumed
<1> QED
  BY <1>3, <1>4, <1>5, <1>6, <1>7, E2EAssumption DEF Paid!Spend, Spent, Recorded

LEMMA PostSends ==
    ASSUME E2EInv, NEW e \in Executors, Post(e)
    PROVE  Paid!SendOnce
<1>1. journal = "submitted" /\ UNCHANGED <<journal, consumptions>>
  BY DEF E2EInv, RunInv, HeadInv, Post, ledgerVars
<1>2. Spent
  BY <1>1, E2EAssumption DEF E2EInv, RunInv, SpentInv, Spent, Recorded
<1>3. ~Made
  BY DEF E2EInv, RunInv, OwnerInv, Paying, Post, Made
<1>4. TotalSent = 0
  BY <1>3, CountOfRun DEF Made
<1>5. TotalSent' = 1
  <2>1. sent'[e] = 1 /\ \A f \in Executors \ {e} : sent'[f] = 0
    BY <1>3 DEF E2EInv, RunInv, RunTypeOK, Post, Made
  <2> QED
    BY <2>1, CountOfOne DEF TotalSent, Posts
<1> QED
  BY <1>1, <1>2, <1>4, <1>5 DEF Paid!SendOnce, Spent, Consumed

LEMMA RecordKeeps ==
    ASSUME E2EInv, NEW e \in Executors,
           Journal(e, "posted", {"submitted"}, "succeed", "response_received")
    PROVE  Paid!Keep
<1>1. /\ journal = "submitted" /\ journal' = "response_received"
      /\ UNCHANGED sent /\ pc[e] = "posted"
  BY DEF Journal
<1>2. Made
  BY <1>1 DEF E2EInv, RunInv, CallInv, Made
<1>3. TotalSent = 1 /\ TotalSent' = TotalSent
  BY <1>1, <1>2, CountOfRun DEF Made, TotalSent
<1> QED
  BY <1>1, <1>3 DEF Paid!Keep

\* A challenge is spent by its first consumption, sends by its one POST and is
\* answered by its record; every other step of every call stutters.
THEOREM RunImplementsPaidChallenge == E2ESpec => ImplementsPaidChallenge
<1>1. E2EInit => Paid!PaidInit
  <2> SUFFICES ASSUME E2EInit PROVE Paid!PaidInit
    OBVIOUS
  <2>1. \A e \in Executors : sent[e] = 0
    BY DEF E2EInit
  <2>2. TotalSent = 0
    BY <2>1, CountOfNone DEF TotalSent, Posts
  <2> QED
    BY <2>2, E2EAssumption DEF E2EInit, LedgerInit, Consumed, Paid!PaidInit, Recorded
<1>2. E2EInv /\ [E2ENext]_e2eVars
         => [Paid!Spend \/ Paid!SendOnce \/ Paid!Keep]_(Paid!paidVars)
  <2> SUFFICES ASSUME E2EInv, [E2ENext]_e2eVars
               PROVE  \/ Paid!Spend \/ Paid!SendOnce \/ Paid!Keep
                      \/ UNCHANGED Paid!paidVars
    OBVIOUS
  <2>1. CASE UNCHANGED e2eVars
    BY <2>1, NothingPromised DEF e2eVars, ledgerVars, calls
  <2>2. CASE Prepare \/ Studio
    BY <2>2, NothingPromised
       DEF Prepare, Studio, RecordAuthority, RevokeSession, RecordConfirmation, ledgerVars, calls
  <2>3. CASE Finalize
    BY <2>3, NothingPromised DEF Finalize, FinalizerAccepts, ledgerVars, calls
  <2>4. ASSUME NEW e \in Executors,
               \/ Stop(e) \/ Inspect(e) \/ ClaimMarker(e) \/ WritePlan(e)
               \/ WriteSnapshot(e) \/ WriteResult(e)
               \/ \E now \in Times : Clock(e, now) \/ \E c \in Own : ReadContext(e, c, now)
        PROVE  UNCHANGED Paid!paidVars
    BY <2>4, NothingPromised
       DEF Stop, Inspect, ClaimMarker, WritePlan, WriteSnapshot, WriteResult, Clock, Sample,
           ReadContext, ledgerVars
  <2>5. ASSUME NEW e \in Executors,
               Register(e) \/ AppendPrepared(e) \/ ClaimDispatch(e) \/ Succeed(e)
        PROVE  UNCHANGED Paid!paidVars
    BY <2>5, NothingPromised, E2EAssumption
       DEF Register, AppendPrepared, ClaimDispatch, Succeed, Journal, ledgerVars, Recorded
  <2>6. ASSUME NEW e \in Executors, Record(e)
        PROVE  Paid!Keep \/ UNCHANGED Paid!paidVars
    <3>1. CASE Journal(e, "posted", {"submitted"}, "succeed", "response_received")
      BY <3>1, RecordKeeps
    <3>2. CASE \E head \in {"failed", "outcome_unknown"} :
                  Journal(e, "posted", {"submitted"}, "report", head)
      BY <3>2, NothingPromised DEF Journal, ledgerVars
    <3> QED
      BY <2>6, <3>1, <3>2 DEF Record
  <2> QED
    BY <2>1, <2>2, <2>3, <2>4, <2>5, <2>6, ConsumptionSpends, PostSends DEF E2ENext
<1> QED
  BY <1>1, <1>2, E2EInvariant, PTL DEF E2ESpec, ImplementsPaidChallenge, Paid!PaidSpec
=============================================================================
