---------------------- MODULE OpenRouterDispatchProofs ----------------------
(***************************************************************************)
(* What holds of concurrent dispatch for every number of calls, attempts,  *)
(* failed journal calls and crashes.  First, a call only ever changes the  *)
(* journal by a journal operation, so dispatch implements the journal and  *)
(* inherits what was proved of it.  Second, no attempt is sent twice: each *)
(* call that is, or was, entitled to send holds the attempt's claim row,   *)
(* and a call becomes entitled only in the step that creates the row.      *)
(***************************************************************************)
EXTENDS OpenRouterDispatch, AttemptJournalProofs

-----------------------------------------------------------------------------
(* Every write of a call is a step of the journal.                          *)

LEMMA NextTyped ==
    ASSUME NEW h \in Seq(Events)
    PROVE  HeadOf(h).next = Len(h) + 1
<1>1. CASE h = <<>>
  BY <1>1 DEF HeadOf, EmptyHead
<1>2. CASE h # <<>>
  BY <1>2 DEF HeadOf
<1> QED
  BY <1>1, <1>2

\* The sequence number after a history that verifies fits the schema.
LEMMA ReadableNext ==
    ASSUME TypeOK, NEW a \in Attempts, Readable(a)
    PROVE  HeadOf(events[a]).next \in SequenceNumbers
<1>1. events[a] \in Seq(Events) /\ Len(events[a]) <= MaxEvents
  BY DEF TypeOK, Readable, Verifies, LegalHistory
<1> QED
  BY <1>1, NextTyped DEF SequenceNumbers, MaxEvents

LEMMA CurrentToken ==
    ASSUME TypeOK, NEW a \in Attempts
    PROVE  TokenOf(events[a]) \in Tokens(a)
<1>1. events[a] \in Seq(Events) /\ Len(events[a]) \in Nat
  BY DEF TypeOK
<1>2. SubSeq(events[a], 1, Len(events[a])) = events[a]
  BY <1>1
<1>3. Len(events[a]) \in 0..Len(events[a])
  BY <1>1
<1> QED
  BY <1>2, <1>3 DEF Tokens, Prefixes, Prefix

LEMMA AppendIsStep ==
    ASSUME TypeOK, NEW a \in Attempts, NEW e \in Events, NEW token,
           AppendEvent(a, e, token)
    PROVE  AppendAny
<1>1. /\ e.state \in States /\ e.sequence \in SequenceNumbers /\ e.at \in Times
      /\ e.handle \in HandleOf(e.state) /\ e.detail \in DetailOf(e.state)
      /\ e = [attempt |-> e.attempt, sequence |-> e.sequence, state |-> e.state,
              at |-> e.at, handle |-> e.handle, detail |-> e.detail]
  BY DEF Events
<1>2. events[a] \in Seq(Events)
  BY DEF TypeOK
<1>3. /\ LegalHistory(a, Append(events[a], e))
      /\ token = TokenOf(events[a])
  BY DEF AppendEvent, AppendCreates, CheckHead
<1>4. e.attempt = a
  BY <1>2, <1>3, LegalAppend
<1>5. e = Event(a, e.sequence, e.state, e.at, e.handle, e.detail)
  BY <1>1, <1>4 DEF Event
<1>6. token \in Tokens(a)
  BY <1>3, CurrentToken
<1> QED
  BY <1>1, <1>5, <1>6 DEF AppendAny

LEMMA ResponseIsStep ==
    ASSUME TypeOK, NEW receipt \in Receipts, NEW token, PublishResponse(receipt, token)
    PROVE  PublishResponseAny
<1>1. receipt.attempt \in Attempts
  BY DEF Receipts
<1>2. token = TokenOf(events[receipt.attempt])
  BY DEF PublishResponse, ResponseCreates, CheckHead
<1> QED
  BY <1>1, <1>2, CurrentToken DEF PublishResponseAny

-----------------------------------------------------------------------------
(* The local state of a call.                                               *)

Working == {"credential", "preflight", "preflight_reread", "claim", "replayed",
            "claim_reread"} \cup Authorized

Publishing == {"publish", "publish_reread", "republish", "republish_reread"}

\* Nothing was sent before the transport step.
Unsent == {"idle", "credential", "preflight", "preflight_reread", "claim", "replayed",
           "claim_reread", "send"}

LocalInv(d) ==
    /\ pc[d] \in PCs
    /\ sent[d] \in Nat
    /\ sent[d] <= 1
    /\ pc[d] \in Unsent => sent[d] = 0
    /\ pc[d] # "idle" => call[d] \in Calls
    /\ pc[d] \in Working => seen[d].next \in SequenceNumbers
    /\ pc[d] \in {"preflight", "record"} =>
          /\ product[d] \in Events
          /\ product[d].state \in {"failed", "outcome_unknown"}
    /\ pc[d] \in Publishing => product[d] \in Receipts

Domains ==
    /\ DOMAIN pc = Dispatchers
    /\ DOMAIN call = Dispatchers
    /\ DOMAIN seen = Dispatchers
    /\ DOMAIN product = Dispatchers
    /\ DOMAIN sent = Dispatchers

CallsInv == Domains /\ \A d \in Dispatchers : LocalInv(d)

\* A step of d changes no other call's state.
Only(d) ==
    /\ Domains'
    /\ \A b \in Dispatchers \ {d} :
          /\ pc'[b] = pc[b] /\ call'[b] = call[b] /\ seen'[b] = seen[b]
          /\ product'[b] = product[b] /\ sent'[b] = sent[b]

LEMMA OnlyOne ==
    ASSUME CallsInv, NEW d \in Dispatchers, Only(d), LocalInv(d)'
    PROVE  CallsInv'
<1>1. ASSUME NEW b \in Dispatchers, b # d
      PROVE  LocalInv(b)'
  BY <1>1 DEF Only, CallsInv, LocalInv
<1> QED
  BY <1>1 DEF CallsInv, Only

LEMMA StartLocal ==
    ASSUME TypeOK, CallsInv, NEW d \in Dispatchers, NEW arguments \in Calls,
           Start(d, arguments)
    PROVE  CallsInv'
<1>1. Only(d)
  BY DEF Start, Goto, Only, CallsInv, Domains
<1>2. arguments.attempt \in Attempts
  BY DEF Calls
<1>3. /\ call'[d] = arguments /\ sent'[d] = sent[d] /\ sent[d] = 0
  BY DEF Start, CallsInv, Domains, LocalInv, Unsent
<1>4. ASSUME Readable(arguments.attempt), pc'[d] # "raised" PROVE LocalInv(d)'
  <2>1. seen'[d].next \in SequenceNumbers
    BY <1>2, <1>4, ReadableNext DEF Start, Goto, CallsInv, Domains
  <2>2. pc'[d] \in {"not_sent", "credential"}
    BY <1>4 DEF Start, Goto, CallsInv, Domains
  <2> QED
    BY <1>3, <2>1, <2>2 DEF LocalInv, PCs, Reports, Publishing
<1>5. ASSUME pc'[d] = "raised" PROVE LocalInv(d)'
  BY <1>3, <1>5 DEF LocalInv, PCs, Reports, Publishing, Working, Authorized
<1>6. Readable(arguments.attempt) \/ pc'[d] = "raised"
  BY DEF Start, Goto, CallsInv, Domains
<1> QED
  BY <1>1, <1>4, <1>5, <1>6, OnlyOne

\* A call claims with its own arguments, the stored capability and the token of
\* the head it saw.
LEMMA ClaimOfTyped ==
    ASSUME TypeOK, CallsInv, NEW d \in Dispatchers, pc[d] = "claim",
           ClaimCreates(ClaimOf(d))
    PROVE  \E a \in Attempts, id \in ClaimIds, c \in Capabilities, at \in Times : \E token :
              /\ a = Att(d)
              /\ id = call[d].id
              /\ token = SeenToken(d)
              /\ token = TokenOf(events[a])
              /\ ClaimOf(d) = [id |-> id, attempt |-> a, capability |-> c,
                               head |-> token.head, next |-> token.next, at |-> at]
<1>1. call[d] \in Calls
  BY DEF CallsInv, LocalInv
<1>2. /\ Att(d) \in Attempts /\ call[d].id \in ClaimIds /\ call[d].at \in Times
      /\ ClaimOf(d).attempt = Att(d)
  BY <1>1 DEF Calls, Att, ClaimOf
<1>3. attempts[Att(d)] \in Descriptors
  BY <1>2 DEF ClaimCreates, Readable, TypeOK
<1>4. attempts[Att(d)].capability \in Capabilities
  BY <1>3 DEF Descriptors
<1>5. [head |-> seen[d].head, next |-> seen[d].next] = TokenOf(events[Att(d)])
  BY <1>2 DEF ClaimCreates, CheckHead, ClaimOf
<1> QED
  BY <1>2, <1>4, <1>5 DEF SeenToken, ClaimOf

LEMMA ClaimIsStep ==
    ASSUME TypeOK, CallsInv, NEW d \in Dispatchers, pc[d] = "claim",
           NEW acknowledged \in BOOLEAN, ClaimDispatch(ClaimOf(d), acknowledged)
    PROVE  ClaimAny
<1>1. ClaimCreates(ClaimOf(d))
  BY DEF ClaimDispatch
<1>2. PICK a \in Attempts, id \in ClaimIds, c \in Capabilities, at \in Times : \E token :
        /\ token = TokenOf(events[a])
        /\ ClaimOf(d) = [id |-> id, attempt |-> a, capability |-> c,
                         head |-> token.head, next |-> token.next, at |-> at]
  BY <1>1, ClaimOfTyped
<1>3. TokenOf(events[a]) \in Tokens(a)
  BY CurrentToken
<1> QED
  BY <1>2, <1>3 DEF ClaimAny

LEMMA CredentialLocal ==
    ASSUME TypeOK, CallsInv, NEW d \in Dispatchers, ResolveCredential(d)
    PROVE  CallsInv'
<1>1. Only(d)
  BY DEF ResolveCredential, Goto, Only, CallsInv, Domains
<1>2. /\ call[d] \in Calls /\ Att(d) \in Attempts
      /\ seen[d].next \in SequenceNumbers /\ sent[d] = 0
      /\ call'[d] = call[d] /\ seen'[d] = seen[d] /\ sent'[d] = sent[d]
  BY DEF ResolveCredential, CallsInv, LocalInv, Working, Unsent, Calls, Att
<1>3. ASSUME pc'[d] \in {"claim", "raised"}
      PROVE  LocalInv(d)'
  BY <1>2, <1>3 DEF LocalInv, PCs, Reports, Publishing
<1>4. ASSUME NEW at \in Times, pc'[d] = "preflight",
             product'[d] = Event(Att(d), seen[d].next, "failed", at, NoHandle,
                                 "credential_unavailable")
      PROVE  LocalInv(d)'
  <2>1. product'[d] \in Events /\ product'[d].state = "failed"
    BY <1>2, <1>4 DEF Event, Events, States, DetailOf, FailureCodes, HandleOf
  <2> QED
    BY <1>2, <1>4, <2>1 DEF LocalInv, PCs, Publishing
<1>5. \/ pc'[d] \in {"claim", "raised"}
      \/ /\ pc'[d] = "preflight"
         /\ \E at \in Times :
               product'[d] = Event(Att(d), seen[d].next, "failed", at, NoHandle,
                                   "credential_unavailable")
  BY DEF ResolveCredential, Goto, CallsInv, Domains
<1> QED
  BY <1>1, <1>3, <1>4, <1>5, OnlyOne

\* Steps that leave the call with what it had, at a control point that asks no
\* more of it, keep the local invariant.
LEMMA MoveLocal ==
    ASSUME CallsInv, NEW d \in Dispatchers, NEW p \in PCs, Goto(d, p),
           UNCHANGED <<call, seen, product, sent>>, pc[d] # "idle",
           p \in Unsent => pc[d] \in Unsent /\ p # "idle",
           p \in Working => pc[d] \in Working,
           p \in {"preflight", "record"} => pc[d] \in {"preflight", "record"},
           p \in Publishing => pc[d] \in Publishing
    PROVE  CallsInv'
<1>1. Only(d)
  BY DEF Goto, Only, CallsInv, Domains
<1>2. pc'[d] = p
  BY DEF Goto, CallsInv, Domains
<1>3. LocalInv(d)'
  BY <1>2 DEF CallsInv, LocalInv
<1> QED
  BY <1>1, <1>3, OnlyOne

LEMMA AppendLocal ==
    ASSUME CallsInv, NEW d \in Dispatchers,
           PreflightAppend(d) \/ Record(d)
    PROVE  CallsInv'
<1>1. product[d].state \in {"failed", "outcome_unknown"}
  BY DEF PreflightAppend, Record, CallsInv, LocalInv
<1>2. /\ UNCHANGED <<call, seen, product, sent>>
      /\ pc[d] \in {"preflight", "record"}
      /\ \E p \in {"failed", "outcome_unknown", "preflight_reread", "raised"} :
            Goto(d, p) /\ (p = "preflight_reread" => pc[d] = "preflight")
  BY <1>1 DEF PreflightAppend, Record, AppendAs
<1> QED
  BY <1>2, MoveLocal DEF PCs, Reports, Unsent, Working, Publishing, Authorized

LEMMA RereadLocal ==
    ASSUME CallsInv, NEW d \in Dispatchers, RereadAfterError(d) \/ NotSent(d)
    PROVE  CallsInv'
<1>1. /\ UNCHANGED <<call, seen, product, sent>>
      /\ pc[d] \in {"preflight_reread", "claim_reread", "replayed"}
      /\ \E p \in {"not_sent", "raised"} : Goto(d, p)
  BY DEF RereadAfterError, NotSent
<1> QED
  BY <1>1, MoveLocal DEF PCs, Reports, Unsent, Working, Publishing, Authorized

LEMMA PublishLocal ==
    ASSUME CallsInv, NEW d \in Dispatchers,
           Publish(d) \/ Republish(d) \/ RepublishReread(d)
    PROVE  CallsInv'
<1>1. /\ UNCHANGED <<call, seen, product, sent>>
      /\ pc[d] \in Publishing
      /\ \E p \in {"response_received", "publish_reread", "republish_reread", "raised"} :
            Goto(d, p)
  BY DEF Publish, Republish, RepublishReread, PublishAs, Recovered, Publishing
<1> QED
  BY <1>1, MoveLocal DEF PCs, Reports, Unsent, Working, Publishing, Authorized

LEMMA CrashLocal ==
    ASSUME CallsInv, NEW d \in Dispatchers, Crash(d)
    PROVE  CallsInv'
  BY MoveLocal DEF Crash, PCs, Reports, Unsent, Working, Publishing, Authorized

LEMMA ClaimLocal ==
    ASSUME TypeOK, TypeOK', CallsInv, NEW d \in Dispatchers, Claim(d)
    PROVE  CallsInv'
<1>1. CASE /\ UNCHANGED <<call, seen, product, sent>>
           /\ \E p \in {"claim_reread", "replayed"} : Goto(d, p)
  BY <1>1, MoveLocal DEF Claim, PCs, Reports, Unsent, Working, Publishing, Authorized
<1>2. CASE /\ ClaimDispatch(ClaimOf(d), TRUE)
           /\ seen' = [seen EXCEPT ![d] = HeadOf(events'[Att(d)])]
           /\ Goto(d, "send")
           /\ UNCHANGED <<call, product, sent>>
  <2>1. Only(d)
    BY <1>2 DEF Goto, Only, CallsInv, Domains
  <2>2. /\ pc'[d] = "send"
        /\ seen'[d] = HeadOf(events'[Att(d)])
        /\ sent[d] = 0 /\ call[d] \in Calls
        /\ Att(d) \in Attempts /\ ClaimOf(d).attempt = Att(d)
    BY <1>2 DEF Claim, Goto, CallsInv, Domains, LocalInv, Unsent, Calls, Att, ClaimOf
  <2>3. /\ events'[Att(d)] \in Seq(Events)
        /\ events'[Att(d)] = Append(events[Att(d)], SubmittedEvent(ClaimOf(d)))
    BY <1>2, <2>2 DEF ClaimDispatch, TypeOK
  <2>4. Len(events'[Att(d)]) <= MaxEvents
    BY <1>2, <2>2, <2>3 DEF ClaimDispatch, ClaimCreates, LegalHistory
  <2>5. seen'[d].next \in SequenceNumbers
    <3>1. PICK h \in Seq(Events) : h = events'[Att(d)]
      BY <2>3
    <3>2. HeadOf(h).next = Len(h) + 1
      BY NextTyped
    <3>3. Len(h) \in Nat /\ Len(h) <= MaxEvents
      BY <2>4, <3>1
    <3> QED
      BY <2>2, <3>1, <3>2, <3>3 DEF SequenceNumbers, MaxEvents
  <2>6. LocalInv(d)'
    BY <1>2, <2>2, <2>5 DEF LocalInv, PCs, Authorized, Unsent, Working, Publishing
  <2> QED
    BY <2>1, <2>6, OnlyOne
<1> QED
  BY <1>1, <1>2 DEF Claim

LEMMA SendLocal ==
    ASSUME CallsInv, NEW d \in Dispatchers, Send(d)
    PROVE  CallsInv'
<1>1. Only(d)
  BY DEF Send, Goto, Only, CallsInv, Domains
<1>2. /\ pc'[d] = "transport" /\ sent'[d] = sent[d] + 1 /\ sent[d] = 0
      /\ call[d] \in Calls /\ seen[d].next \in SequenceNumbers
  BY DEF Send, Goto, CallsInv, Domains, LocalInv, Unsent, Working, Authorized
<1>3. LocalInv(d)'
  BY <1>2 DEF Send, LocalInv, PCs, Authorized, Unsent, Publishing
<1> QED
  BY <1>1, <1>3, OnlyOne

LEMMA TransportLocal ==
    ASSUME CallsInv, NEW d \in Dispatchers, TransportReturns(d)
    PROVE  CallsInv'
<1>1. Only(d)
  BY DEF TransportReturns, Goto, Only, CallsInv, Domains
<1>2. /\ call[d] \in Calls /\ Att(d) \in Attempts
      /\ seen[d].next \in SequenceNumbers /\ sent[d] \in Nat /\ sent[d] <= 1
      /\ call'[d] = call[d] /\ seen'[d] = seen[d] /\ sent'[d] = sent[d]
  BY DEF TransportReturns, CallsInv, LocalInv, Working, Authorized, Calls, Att
<1>3. PICK at \in Times, outcome \in {"exception", "rejected", "undecodable", "decoded"} :
        \/ pc'[d] = "raised"
        \/ /\ outcome # "decoded"
           /\ product'[d] = OutcomeEvent(d, outcome, at)
           /\ pc'[d] = "record"
        \/ /\ \E payload \in Payloads :
                product'[d] = [attempt |-> Att(d), payload |-> payload, at |-> at,
                               handle |-> NoHandle]
           /\ pc'[d] = "publish"
  BY DEF TransportReturns, Goto, CallsInv, Domains
<1>4. ASSUME pc'[d] = "raised"
      PROVE  LocalInv(d)'
  BY <1>2, <1>4 DEF LocalInv, PCs, Reports, Unsent, Working, Authorized, Publishing
<1>5. ASSUME outcome # "decoded", product'[d] = OutcomeEvent(d, outcome, at),
             pc'[d] = "record"
      PROVE  LocalInv(d)'
  <2>1. \/ product'[d] = Event(Att(d), seen[d].next, "outcome_unknown", at, NoHandle, "none")
        \/ product'[d] = Event(Att(d), seen[d].next, "failed", at, NoHandle,
                               "provider_rejected")
        \/ product'[d] = Event(Att(d), seen[d].next, "failed", at, NoHandle,
                               "output_invalid")
    BY <1>5 DEF OutcomeEvent
  <2>2. product'[d] \in Events /\ product'[d].state \in {"failed", "outcome_unknown"}
    BY <1>2, <2>1 DEF Event, Events, States, DetailOf, FailureCodes, HandleOf
  <2> QED
    BY <1>2, <1>5, <2>2 DEF LocalInv, PCs, Unsent, Working, Authorized, Publishing
<1>6. ASSUME NEW payload \in Payloads,
             product'[d] = [attempt |-> Att(d), payload |-> payload, at |-> at,
                            handle |-> NoHandle],
             pc'[d] = "publish"
      PROVE  LocalInv(d)'
  <2>1. product'[d] \in Receipts
    BY <1>2, <1>6 DEF Receipts
  <2> QED
    BY <1>2, <1>6, <2>1 DEF LocalInv, PCs, Unsent, Working, Authorized, Publishing
<1> QED
  BY <1>1, <1>3, <1>4, <1>5, <1>6, OnlyOne

LEMMA PublishRereadLocal ==
    ASSUME TypeOK, CallsInv, NEW d \in Dispatchers, PublishReread(d)
    PROVE  CallsInv'
<1>1. Only(d)
  BY DEF PublishReread, Goto, Only, CallsInv, Domains
<1>2. /\ call[d] \in Calls /\ Att(d) \in Attempts
      /\ seen[d].next \in SequenceNumbers /\ sent[d] \in Nat /\ sent[d] <= 1
      /\ product[d] \in Receipts
      /\ call'[d] = call[d] /\ sent'[d] = sent[d]
  BY DEF PublishReread, CallsInv, LocalInv, Working, Authorized, Publishing, Calls, Att
<1>3. ASSUME pc'[d] \in {"response_received", "raised"}
      PROVE  LocalInv(d)'
  BY <1>2, <1>3 DEF LocalInv, PCs, Reports, Unsent, Working, Authorized, Publishing
<1>4. ASSUME StateRead(d) = "outcome_unknown", pc'[d] = "republish",
             seen'[d] = Current(d), product'[d] = product[d]
      PROVE  LocalInv(d)'
  <2>1. seen'[d].next \in SequenceNumbers
    BY <1>2, <1>4, ReadableNext DEF StateRead, Current
  <2> QED
    BY <1>2, <1>4, <2>1 DEF LocalInv, PCs, Unsent, Working, Authorized, Publishing
<1>5. ASSUME pc'[d] = "record", product'[d] = PersistenceFailed(d), seen'[d] = seen[d]
      PROVE  LocalInv(d)'
  <2>1. product'[d] \in Events /\ product'[d].state = "failed"
    BY <1>2, <1>5
       DEF PersistenceFailed, Receipts, Event, Events, States, DetailOf, FailureCodes,
           HandleOf
  <2> QED
    BY <1>2, <1>5, <2>1 DEF LocalInv, PCs, Unsent, Working, Authorized, Publishing
<1>6. \/ pc'[d] \in {"response_received", "raised"}
      \/ /\ StateRead(d) = "outcome_unknown" /\ pc'[d] = "republish"
         /\ seen'[d] = Current(d) /\ product'[d] = product[d]
      \/ /\ pc'[d] = "record" /\ product'[d] = PersistenceFailed(d) /\ seen'[d] = seen[d]
  BY DEF PublishReread, Goto, Recovered, CallsInv, Domains
<1> QED
  BY <1>1, <1>3, <1>4, <1>5, <1>6, OnlyOne

-----------------------------------------------------------------------------
(* Dispatch implements the journal.                                         *)

\* What everybody else appends is an event of the schema.
LEMMA OthersAreSteps ==
    ASSUME TypeOK, Others
    PROVE  JournalNext
<1>1. CASE Register
  BY <1>1 DEF JournalNext
<1>2. ASSUME NEW a \in Attempts, NEW e \in OperatorEvents(a),
             AppendEvent(a, e, TokenOf(events[a]))
      PROVE  AppendAny
  <2>1. events[a] \in Seq(Events) /\ Len(events[a]) \in Nat
    BY DEF TypeOK
  <2>2. LegalHistory(a, Append(events[a], e))
    BY <1>2 DEF AppendEvent, AppendCreates
  <2>3. Len(events[a]) < MaxEvents
    BY <2>1, <2>2 DEF LegalHistory, MaxEvents
  <2>4. HeadOf(events[a]).next \in SequenceNumbers
    BY <2>1, <2>3, NextTyped DEF SequenceNumbers, MaxEvents
  <2>5. e \in Events
    BY <2>4 DEF OperatorEvents, Event, Events, States, DetailOf, FailureCodes,
                Authorities, HandleOf
  <2> QED
    BY <1>2, <2>5, AppendIsStep
<1>3. ASSUME NEW a \in Attempts, NEW packet \in Intents, NEW at \in Times,
             PublishSuccess(a, events[a], packet, at, TokenOf(events[a]))
      PROVE  PublishSuccessAny
  <2>1. events[a] \in Prefixes(a)
    <3>1. events[a] \in Seq(Events) /\ Len(events[a]) \in 0..Len(events[a])
      BY DEF TypeOK
    <3>2. SubSeq(events[a], 1, Len(events[a])) = events[a]
      BY <3>1
    <3> QED
      BY <3>1, <3>2 DEF Prefixes, Prefix
  <2> QED
    BY <1>3, <2>1, CurrentToken DEF PublishSuccessAny
<1> QED
  BY <1>1, <1>2, <1>3 DEF Others, JournalNext

LEMMA RunIsStep ==
    ASSUME TypeOK, CallsInv, NEW d \in Dispatchers, Run(d)
    PROVE  JournalNext \/ UNCHANGED journalVars
<1>1. CASE PreflightAppend(d) \/ Record(d)
  <2>1. Att(d) \in Attempts /\ product[d] \in Events
    BY <1>1 DEF PreflightAppend, Record, CallsInv, LocalInv, Calls, Att
  <2>2. \/ AppendEvent(Att(d), product[d], SeenToken(d))
        \/ UNCHANGED journalVars
    BY <1>1 DEF PreflightAppend, Record, AppendAs
  <2> QED
    BY <2>1, <2>2, AppendIsStep DEF JournalNext
<1>2. CASE Claim(d)
  BY <1>2, ClaimIsStep DEF Claim, JournalNext
<1>3. CASE Publish(d) \/ Republish(d)
  <2>1. product[d] \in Receipts
    BY <1>3 DEF Publish, Republish, CallsInv, LocalInv, Publishing
  <2>2. \/ PublishResponse(product[d], SeenToken(d))
        \/ UNCHANGED journalVars
    BY <1>3 DEF Publish, Republish, PublishAs
  <2> QED
    BY <2>1, <2>2, ResponseIsStep DEF JournalNext
<1>4. CASE \/ ResolveCredential(d) \/ RereadAfterError(d) \/ NotSent(d) \/ Send(d)
           \/ TransportReturns(d) \/ PublishReread(d) \/ RepublishReread(d)
  BY <1>4 DEF ResolveCredential, RereadAfterError, NotSent, Send, TransportReturns,
              PublishReread, RepublishReread
<1> QED
  BY <1>1, <1>2, <1>3, <1>4 DEF Run

LEMMA StepIsStep ==
    ASSUME TypeOK, CallsInv, [DispatchNext]_dispatchVars
    PROVE  [JournalNext]_journalVars
<1>1. CASE \E d \in Dispatchers, arguments \in Calls : Start(d, arguments)
  BY <1>1 DEF Start
<1>2. CASE \E d \in Dispatchers : Run(d)
  BY <1>2, RunIsStep
<1>3. CASE \E d \in Dispatchers : Crash(d)
  BY <1>3 DEF Crash
<1>4. CASE Others
  BY <1>4, OthersAreSteps
<1>5. CASE UNCHANGED dispatchVars
  BY <1>5 DEF dispatchVars
<1> QED
  BY <1>1, <1>2, <1>3, <1>4, <1>5 DEF DispatchNext

LEMMA StepLocal ==
    ASSUME TypeOK, TypeOK', CallsInv, [DispatchNext]_dispatchVars
    PROVE  CallsInv'
<1>1. CASE \E d \in Dispatchers, arguments \in Calls : Start(d, arguments)
  BY <1>1, StartLocal
<1>2. CASE \E d \in Dispatchers : Run(d)
  BY <1>2, CredentialLocal, AppendLocal, RereadLocal, ClaimLocal, SendLocal,
     TransportLocal, PublishLocal, PublishRereadLocal DEF Run
<1>3. CASE \E d \in Dispatchers : Crash(d)
  BY <1>3, CrashLocal
<1>4. CASE UNCHANGED callVars
  BY <1>4 DEF callVars, CallsInv, Domains, LocalInv
<1> QED
  BY <1>1, <1>2, <1>3, <1>4 DEF DispatchNext, Others, dispatchVars

LEMMA InitLocal == DispatchInit => CallsInv
  BY DEF DispatchInit, CallsInv, Domains, LocalInv, PCs, Unsent, Working, Publishing,
         Authorized

\* Whatever the interleaving, the tables keep their types and every call is in
\* order with itself: it has arguments once it runs, a usable token while it
\* works, an event or a receipt when it is about to write one, and no POST
\* before the transport step.
THEOREM DispatchTyped == DispatchSpec => [](TypeOK /\ CallsInv)
<1>1. DispatchInit => TypeOK /\ CallsInv
  BY InitTypeOK, InitLocal DEF DispatchInit
<1>2. TypeOK /\ CallsInv /\ [DispatchNext]_dispatchVars => (TypeOK /\ CallsInv)'
  BY StepIsStep, StepTypeOK, StepLocal
<1> QED
  BY <1>1, <1>2, PTL DEF DispatchSpec

\* A step of one call that leaves it in order keeps every call's variables typed.
LEMMA OneCallTyped ==
    ASSUME DispatchTypeOK, CallsInv', NEW d \in Dispatchers, NEW p, NEW c, NEW q, NEW s,
           pc' = [pc EXCEPT ![d] = p],
           call' = [call EXCEPT ![d] = c], c \in Calls \cup {NoRow},
           product' = [product EXCEPT ![d] = q],
           q \in Events \cup Receipts \cup {NoRow},
           sent' = [sent EXCEPT ![d] = s],
           UNCHANGED faults \/ Fault
    PROVE  DispatchTypeOK'
<1>1. p \in PCs /\ s \in Nat
  BY DEF CallsInv, LocalInv, DispatchTypeOK
<1>2. faults' \in 0..MaxFaults
  BY DispatchAssumption DEF Fault, DispatchTypeOK
<1> QED
  BY <1>1, <1>2 DEF DispatchTypeOK

\* The same, for a step that leaves the arguments and the POST counter alone.
LEMMA OneCallMoves ==
    ASSUME DispatchTypeOK, CallsInv', NEW d \in Dispatchers, NEW p,
           Goto(d, p), UNCHANGED <<call, product, sent>>, UNCHANGED faults \/ Fault
    PROVE  DispatchTypeOK'
<1>1. /\ call' = [call EXCEPT ![d] = call[d]] /\ call[d] \in Calls \cup {NoRow}
      /\ product' = [product EXCEPT ![d] = product[d]]
      /\ product[d] \in Events \cup Receipts \cup {NoRow}
      /\ sent' = [sent EXCEPT ![d] = sent[d]]
  BY DEF DispatchTypeOK
<1> QED
  BY <1>1, OneCallTyped DEF Goto

\* The same, for a step that builds the event or receipt to be written next.
LEMMA OneCallBuilds ==
    ASSUME DispatchTypeOK, CallsInv', NEW d \in Dispatchers, NEW p, NEW q,
           Goto(d, p), p \in {"preflight", "record", "publish"},
           product' = [product EXCEPT ![d] = q],
           UNCHANGED <<call, sent, faults>>
    PROVE  DispatchTypeOK'
<1>1. /\ call' = [call EXCEPT ![d] = call[d]] /\ call[d] \in Calls \cup {NoRow}
      /\ sent' = [sent EXCEPT ![d] = sent[d]]
      /\ pc'[d] = p /\ product'[d] = q
  BY DEF DispatchTypeOK, Goto
<1>2. q \in Events \cup Receipts
  BY <1>1 DEF CallsInv, LocalInv, Publishing
<1> QED
  BY <1>1, <1>2, OneCallTyped DEF Goto

LEMMA StepDispatchTypes ==
    ASSUME DispatchTypeOK, CallsInv', [DispatchNext]_dispatchVars
    PROVE  DispatchTypeOK'
<1>1. ASSUME NEW d \in Dispatchers, NEW arguments \in Calls, Start(d, arguments)
      PROVE  DispatchTypeOK'
  <2>1. /\ product' = [product EXCEPT ![d] = product[d]]
        /\ product[d] \in Events \cup Receipts \cup {NoRow}
        /\ sent' = [sent EXCEPT ![d] = sent[d]]
    BY <1>1 DEF Start, DispatchTypeOK
  <2>2. PICK p : pc' = [pc EXCEPT ![d] = p]
    BY <1>1 DEF Start, Goto
  <2>3. call' = [call EXCEPT ![d] = arguments] /\ UNCHANGED faults
    BY <1>1 DEF Start
  <2> QED
    BY <2>1, <2>2, <2>3, OneCallTyped
<1>2. ASSUME NEW d \in Dispatchers, ResolveCredential(d)
      PROVE  DispatchTypeOK'
  BY <1>2, OneCallMoves, OneCallBuilds DEF ResolveCredential
<1>3. ASSUME NEW d \in Dispatchers, PreflightAppend(d) \/ Record(d)
      PROVE  DispatchTypeOK'
  BY <1>3, OneCallMoves DEF PreflightAppend, Record, AppendAs
<1>4. ASSUME NEW d \in Dispatchers, RereadAfterError(d) \/ Claim(d) \/ NotSent(d)
      PROVE  DispatchTypeOK'
  BY <1>4, OneCallMoves DEF RereadAfterError, Claim, NotSent
<1>5. ASSUME NEW d \in Dispatchers, Send(d)
      PROVE  DispatchTypeOK'
  <2>1. /\ call' = [call EXCEPT ![d] = call[d]] /\ call[d] \in Calls \cup {NoRow}
        /\ product' = [product EXCEPT ![d] = product[d]]
        /\ product[d] \in Events \cup Receipts \cup {NoRow}
    BY <1>5 DEF Send, DispatchTypeOK
  <2> QED
    BY <1>5, <2>1, OneCallTyped DEF Send, Goto
<1>6. ASSUME NEW d \in Dispatchers, TransportReturns(d)
      PROVE  DispatchTypeOK'
  BY <1>6, OneCallMoves, OneCallBuilds DEF TransportReturns
<1>7. ASSUME NEW d \in Dispatchers,
             Publish(d) \/ Republish(d) \/ RepublishReread(d) \/ Crash(d)
      PROVE  DispatchTypeOK'
  BY <1>7, OneCallMoves DEF Publish, Republish, PublishAs, RepublishReread, Crash
<1>8. ASSUME NEW d \in Dispatchers, PublishReread(d)
      PROVE  DispatchTypeOK'
  BY <1>8, OneCallMoves, OneCallBuilds DEF PublishReread
<1>9. CASE Others \/ UNCHANGED dispatchVars
  BY <1>9 DEF Others, callVars, dispatchVars, DispatchTypeOK
<1> QED
  BY <1>1, <1>2, <1>3, <1>4, <1>5, <1>6, <1>7, <1>8, <1>9 DEF DispatchNext, Run

\* The arguments, products and counters of concurrent calls stay in their
\* domains, whatever fails: in particular every event a call is about to write
\* is one the closed schema admits.
THEOREM DispatchTypeCorrect == DispatchSpec => []DispatchTypeOK
<1>1. DispatchInit => DispatchTypeOK
  BY DispatchAssumption DEF DispatchInit, DispatchTypeOK, PCs
<1>2. DispatchTypeOK /\ CallsInv' /\ [DispatchNext]_dispatchVars => DispatchTypeOK'
  BY StepDispatchTypes
<1> QED
  BY <1>1, <1>2, DispatchTyped, PTL DEF DispatchSpec

\* Concurrent calls, however they fail or die, use the journal only through its
\* operations: whatever holds of every journal behaviour holds under dispatch.
THEOREM DispatchImplementsJournal == DispatchSpec => JournalSpec
<1>1. DispatchInit => JournalInit
  BY DEF DispatchInit
<1>2. TypeOK /\ CallsInv /\ [DispatchNext]_dispatchVars => [JournalNext]_journalVars
  BY StepIsStep
<1> QED
  BY <1>1, <1>2, DispatchTyped, PTL DEF DispatchSpec, JournalSpec

-----------------------------------------------------------------------------
(* One POST for each attempt.                                               *)

\* The calls that may still send, or have sent.
Holds(d) == pc[d] \in Authorized \/ sent[d] > 0

\* Each of them finds its own identifier in the claim row of its attempt, and
\* there is only one of them for each attempt.
HolderInv ==
    /\ \A d \in Dispatchers :
          Holds(d) => /\ Att(d) \in Attempts
                      /\ claims[Att(d)] # NoRow
                      /\ claims[Att(d)].id = call[d].id
    /\ \A d1, d2 \in Dispatchers :
          (Holds(d1) /\ Holds(d2) /\ Att(d1) = Att(d2)) => d1 = d2

\* No operation removes or rewrites a claim row.
LEMMA ClaimRowsKept ==
    ASSUME TypeOK, [JournalNext]_journalVars, NEW a \in Attempts, claims[a] # NoRow
    PROVE  claims'[a] = claims[a]
<1>1. CASE UNCHANGED journalVars
  BY <1>1 DEF journalVars
<1>2. CASE ClaimAny
  <2>1. ASSUME NEW claim, NEW acknowledged \in BOOLEAN, ClaimDispatch(claim, acknowledged)
        PROVE  claims'[a] = claims[a]
    BY <2>1 DEF ClaimDispatch, ClaimCreates, TypeOK
  <2> QED
    BY <1>1, <1>2, <2>1, ClaimAnySteps
<1>3. CASE ~ClaimAny /\ JournalNext
  BY <1>3, OtherSteps DEF JournalNext
<1> QED
  BY <1>1, <1>2, <1>3

\* A step after which nobody holds who did not hold before, for the same call.
LEMMA NoNewHolder ==
    ASSUME TypeOK, HolderInv, [JournalNext]_journalVars,
           \A d \in Dispatchers : Holds(d)' => Holds(d) /\ call'[d] = call[d]
    PROVE  HolderInv'
<1>1. ASSUME NEW d \in Dispatchers, Holds(d)'
      PROVE  /\ Att(d)' = Att(d)
             /\ Att(d) \in Attempts
             /\ claims'[Att(d)] = claims[Att(d)]
             /\ claims[Att(d)] # NoRow
             /\ claims[Att(d)].id = call[d].id
  <2>1. Holds(d) /\ call'[d] = call[d]
    BY <1>1
  <2>2. /\ Att(d) \in Attempts /\ claims[Att(d)] # NoRow
        /\ claims[Att(d)].id = call[d].id
    BY <2>1 DEF HolderInv
  <2>3. Att(d)' = Att(d)
    BY <2>1 DEF Att
  <2>4. claims'[Att(d)] = claims[Att(d)]
    BY <2>2, ClaimRowsKept
  <2> QED
    BY <2>2, <2>3, <2>4
<1>2. ASSUME NEW d \in Dispatchers, Holds(d)'
      PROVE  /\ Att(d)' \in Attempts
             /\ (claims[Att(d)] # NoRow)'
             /\ (claims[Att(d)].id = call[d].id)'
  BY <1>1, <1>2
<1>3. ASSUME NEW d1 \in Dispatchers, NEW d2 \in Dispatchers,
             Holds(d1)', Holds(d2)', Att(d1)' = Att(d2)'
      PROVE  d1 = d2
  BY <1>1, <1>3 DEF HolderInv
<1> QED
  BY <1>2, <1>3 DEF HolderInv

\* The acknowledged claim: it found no row, so nobody held this attempt.
LEMMA ClaimHolds ==
    ASSUME TypeOK, CallsInv, HolderInv, [JournalNext]_journalVars,
           NEW d \in Dispatchers, pc[d] = "claim",
           ClaimDispatch(ClaimOf(d), TRUE), Goto(d, "send"),
           UNCHANGED <<call, product, sent>>
    PROVE  HolderInv'
<1>1. /\ Att(d) \in Attempts /\ ClaimOf(d).attempt = Att(d)
      /\ ClaimOf(d).id = call[d].id
      /\ \A b \in Dispatchers : Att(b)' = Att(b)
  BY DEF CallsInv, LocalInv, Calls, Att, ClaimOf
<1>2. claims[Att(d)] = NoRow
  BY <1>1 DEF ClaimDispatch, ClaimCreates
<1>3. ClaimOf(d) # NoRow
  <2>1. PICK a \in Attempts, id \in ClaimIds, c \in Capabilities, at \in Times : \E token :
          /\ token = TokenOf(events[a])
          /\ ClaimOf(d) = [id |-> id, attempt |-> a, capability |-> c,
                           head |-> token.head, next |-> token.next, at |-> at]
    BY ClaimOfTyped DEF ClaimDispatch
  <2>2. ClaimOf(d) \in Claims
    BY <2>1, ClaimTyped DEF ClaimDispatch
  <2> QED
    BY <2>2, RowAssumption
<1>4. claims'[Att(d)] = ClaimOf(d)
  BY <1>1 DEF ClaimDispatch, TypeOK
<1>5. ASSUME NEW b \in Dispatchers, b # d, Holds(b)'
      PROVE  /\ Holds(b)
             /\ Att(b) \in Attempts
             /\ claims'[Att(b)] = claims[Att(b)]
             /\ claims[Att(b)] # NoRow
             /\ claims[Att(b)].id = call[b].id
  <2>1. Holds(b)
    BY <1>5 DEF Holds, Goto, CallsInv, Domains
  <2>2. /\ Att(b) \in Attempts /\ claims[Att(b)] # NoRow
        /\ claims[Att(b)].id = call[b].id
    BY <2>1 DEF HolderInv
  <2> QED
    BY <2>1, <2>2, ClaimRowsKept
<1>6. ASSUME NEW b \in Dispatchers, Holds(b)'
      PROVE  /\ Att(b)' \in Attempts
             /\ (claims[Att(b)] # NoRow)'
             /\ (claims[Att(b)].id = call[b].id)'
  <2>1. CASE b = d
    BY <1>1, <1>3, <1>4, <2>1
  <2>2. CASE b # d
    BY <1>1, <1>5, <1>6, <2>2
  <2> QED
    BY <2>1, <2>2
<1>7. ASSUME NEW d1 \in Dispatchers, NEW d2 \in Dispatchers,
             Holds(d1)', Holds(d2)', Att(d1)' = Att(d2)'
      PROVE  d1 = d2
  BY <1>1, <1>2, <1>5, <1>7 DEF HolderInv
<1> QED
  BY <1>6, <1>7 DEF HolderInv

\* The step that entitles a call: its claim was created and acknowledged.
\* Every other step of a call leaves its arguments alone once it runs, and
\* neither grants nor sends without the grant.
Granted(d) == pc[d] = "claim" /\ ClaimDispatch(ClaimOf(d), TRUE) /\ Goto(d, "send")

LEMMA OtherHolders ==
    ASSUME CallsInv,
           \/ \E d \in Dispatchers, arguments \in Calls : Start(d, arguments)
           \/ \E d \in Dispatchers : (Run(d) /\ ~Granted(d)) \/ Crash(d)
           \/ UNCHANGED callVars
    PROVE  \A d \in Dispatchers : Holds(d)' => Holds(d) /\ call'[d] = call[d]
<1>1. ASSUME NEW d \in Dispatchers, NEW arguments \in Calls, Start(d, arguments)
      PROVE  \A b \in Dispatchers : Holds(b)' => Holds(b) /\ call'[b] = call[b]
  <2>1. pc'[d] \in {"not_sent", "raised", "credential"} /\ sent'[d] = 0
    BY <1>1 DEF Start, Goto, CallsInv, Domains, LocalInv, Unsent
  <2>2. ASSUME NEW b \in Dispatchers, b # d
        PROVE  pc'[b] = pc[b] /\ sent'[b] = sent[b] /\ call'[b] = call[b]
    BY <1>1, <2>2 DEF Start, Goto, CallsInv, Domains
  <2> QED
    BY <2>1, <2>2 DEF Holds, Authorized
<1>2. ASSUME NEW d \in Dispatchers, (Run(d) /\ ~Granted(d)) \/ Crash(d)
      PROVE  \A b \in Dispatchers : Holds(b)' => Holds(b) /\ call'[b] = call[b]
  <2>1. /\ call' = call
        /\ \A b \in Dispatchers \ {d} : pc'[b] = pc[b] /\ sent'[b] = sent[b]
    BY <1>2 DEF Run, Crash, ResolveCredential, PreflightAppend, AppendAs,
         RereadAfterError, Claim, NotSent, Send, TransportReturns, Record, Publish,
         PublishAs, PublishReread, Republish, RepublishReread, Goto, CallsInv, Domains
  <2>2. ASSUME pc[d] \notin Authorized, sent[d] = 0
        PROVE  pc'[d] \notin Authorized /\ sent'[d] = 0
    <3>1. CASE Claim(d)
      BY <1>2, <3>1, <2>2 DEF Claim, Crash, Granted, Goto, Authorized, CallsInv, Domains
    <3>2. CASE PreflightAppend(d)
      <4>1. product[d].state \in {"failed", "outcome_unknown"}
        BY <3>2 DEF PreflightAppend, CallsInv, LocalInv
      <4> QED
        BY <3>2, <4>1, <2>2 DEF PreflightAppend, AppendAs, Goto, Authorized, CallsInv,
             Domains
    <3>3. CASE ResolveCredential(d) \/ RereadAfterError(d) \/ NotSent(d) \/ Crash(d)
      BY <3>3, <2>2 DEF ResolveCredential, RereadAfterError, NotSent, Crash, Goto,
           Authorized, CallsInv, Domains
    <3>4. CASE \/ Send(d) \/ TransportReturns(d) \/ Record(d) \/ Publish(d)
               \/ PublishReread(d) \/ Republish(d) \/ RepublishReread(d)
      BY <3>4, <2>2 DEF Send, TransportReturns, Record, Publish, PublishReread,
           Republish, RepublishReread, Authorized
    <3> QED
      BY <1>2, <3>1, <3>2, <3>3, <3>4 DEF Run
  <2>3. sent[d] \in Nat
    BY DEF CallsInv, LocalInv
  <2> QED
    BY <2>1, <2>2, <2>3 DEF Holds
<1>3. ASSUME UNCHANGED callVars
      PROVE  \A b \in Dispatchers : Holds(b)' => Holds(b) /\ call'[b] = call[b]
  BY <1>3 DEF callVars, Holds
<1> QED
  BY <1>1, <1>2, <1>3

LEMMA StepHolders ==
    ASSUME TypeOK, CallsInv, HolderInv, [DispatchNext]_dispatchVars
    PROVE  HolderInv'
<1>1. [JournalNext]_journalVars
  BY StepIsStep
<1>2. ASSUME NEW d \in Dispatchers, Run(d), Granted(d)
      PROVE  HolderInv'
  <2>1. Claim(d)
    BY <1>2 DEF Run, Granted, ResolveCredential, PreflightAppend, RereadAfterError,
         NotSent, Send, TransportReturns, Record, Publish, PublishReread, Republish,
         RepublishReread
  <2>2. UNCHANGED <<call, product, sent>>
    BY <2>1 DEF Claim
  <2> QED
    BY <1>1, <1>2, <2>2, ClaimHolds DEF Granted
<1>3. CASE \/ \E d \in Dispatchers, arguments \in Calls : Start(d, arguments)
           \/ \E d \in Dispatchers : (Run(d) /\ ~Granted(d)) \/ Crash(d)
           \/ UNCHANGED callVars
  BY <1>1, <1>3, OtherHolders, NoNewHolder
<1> QED
  BY <1>2, <1>3 DEF DispatchNext, Others, dispatchVars, callVars

LEMMA HoldersUnique == DispatchSpec => []HolderInv
<1>1. DispatchInit => HolderInv
  BY DEF DispatchInit, HolderInv, Holds, Authorized
<1>2. TypeOK /\ CallsInv /\ HolderInv /\ [DispatchNext]_dispatchVars => HolderInv'
  BY StepHolders
<1> QED
  BY <1>1, <1>2, DispatchTyped, PTL DEF DispatchSpec

\* However many calls run, replay, fail or die, and whichever answers are lost,
\* no two POSTs of one attempt ever leave: dispatch_openrouter_attempt sends a
\* non-idempotent request at most once.
THEOREM SentOnce == DispatchSpec => []AtMostOnePost
<1>1. CallsInv /\ HolderInv => AtMostOnePost
  BY DEF CallsInv, LocalInv, HolderInv, Holds, AtMostOnePost
<1> QED
  BY <1>1, DispatchTyped, HoldersUnique, PTL

\* Whoever sends does it under its own durable claim and after the submitted
\* event: the transport is never reached on a claim somebody else created, or
\* on one whose answer was lost.
THEOREM SentUnderClaim == DispatchSpec => []SendsUnderOwnClaim
<1>1. HolderInv /\ AuthorizationInv => SendsUnderOwnClaim
  BY DEF HolderInv, Holds, AuthorizationInv, SendsUnderOwnClaim
<1> QED
  BY <1>1, HoldersUnique, DispatchImplementsJournal, AuthorizationInductive, PTL

-----------------------------------------------------------------------------
(* What a call reports is what the journal holds.                           *)

LEMMA AlwaysLegal ==
    ASSUME TypeOK, SoundInv, NEW a \in Attempts
    PROVE  LegalHistory(a, events[a])
<1>1. CASE attempts[a] # NoRow
  BY <1>1 DEF SoundInv, Verifies
<1>2. CASE attempts[a] = NoRow
  <2>1. events[a] = <<>> /\ MaxEvents \in Nat /\ Len(<<>>) = 0
    BY <1>2 DEF SoundInv, MaxEvents
  <2>2. HandlesSeen(<<>>) = {}
    BY DEF HandlesSeen
  <2> QED
    BY <2>1, <2>2 DEF LegalHistory, LegalTrace, MaxEvents
<1> QED
  BY <1>1, <1>2

\* The attempt has left prepared: a call of it can no longer claim.
Left(a) == HeadOf(events[a]).state \notin {"none", "prepared"}

\* What a step does to one attempt's rows, as far as the reports need it.
JournalMoves(a) ==
    /\ events'[a] = events[a] \/ \E e \in Events : events'[a] = Append(events[a], e)
    /\ responses[a] # NoRow => responses'[a] = responses[a]
    /\ events[a] # <<>> => events'[a] # <<>>
    /\ Left(a) => Left(a)'
    /\ \A i \in 1..Len(events[a]) : i \in 1..Len(events'[a]) /\ events'[a][i] = events[a][i]

LEMMA StepMoves ==
    ASSUME TypeOK, TypeOK', SoundInv, SoundInv', [JournalNext]_journalVars,
           NEW a \in Attempts
    PROVE  JournalMoves(a)
<1>1. events[a] \in Seq(Events) /\ Len(events[a]) \in Nat
  BY DEF TypeOK
<1>2. CASE UNCHANGED journalVars
  BY <1>2 DEF journalVars, JournalMoves, Left
<1>3. CASE JournalNext
  <2>1. \/ events'[a] = events[a]
        \/ \E e \in Events : events'[a] = Append(events[a], e)
    BY <1>3, HistoriesExtend
  <2>2. responses[a] # NoRow => responses'[a] = responses[a]
    BY <1>3, StepKeeps DEF Keeps, RowKept, TypeOK
  <2>3. CASE events'[a] = events[a]
    BY <2>1, <2>2, <2>3 DEF JournalMoves, Left
  <2>4. ASSUME NEW e \in Events, events'[a] = Append(events[a], e)
        PROVE  JournalMoves(a)
    <3>1. LegalHistory(a, Append(events[a], e))
      <4>1. events'[a] # <<>>
        BY <1>1, <2>4
      <4>2. attempts'[a] # NoRow
        BY <4>1 DEF SoundInv
      <4> QED
        BY <2>4, <4>2 DEF SoundInv, Verifies
    <3>2. Left(a) => Left(a)'
      BY <1>1, <2>4, <3>1, HeadMoves DEF Left, LegalTransitions, States
    <3>3. /\ Append(events[a], e) # <<>>
          /\ \A i \in 1..Len(events[a]) :
                i \in 1..Len(events'[a]) /\ events'[a][i] = events[a][i]
      BY <1>1, <2>4
    <3> QED
      BY <2>2, <2>4, <3>2, <3>3 DEF JournalMoves
  <2> QED
    BY <2>1, <2>3, <2>4
<1> QED
  BY <1>2, <1>3

\* A legal history is prepared once, at its start.
LEMMA PreparedFirst ==
    ASSUME NEW a, NEW h \in Seq(Events), LegalHistory(a, h),
           NEW i \in 1..Len(h), h[i].state = "prepared"
    PROVE  i = 1
<1>1. ASSUME i # 1
      PROVE  FALSE
  <2>1. i \in 2..Len(h) /\ i - 1 \in 1..Len(h)
    BY <1>1
  <2>2. h[i - 1] \in Events
    BY <2>1
  <2>3. h[i - 1].state \in States
    BY <2>2 DEF Events
  <2>4. h[i].state \in LegalTransitions[h[i - 1].state]
    BY <2>1 DEF LegalHistory, LegalTrace
  <2> QED
    BY <2>3, <2>4 DEF LegalTransitions, States
<1> QED
  BY <1>1

\* An attempt with a claim row has left prepared.
LEMMA ClaimedLeft ==
    ASSUME TypeOK, SoundInv, NEW a \in Attempts, claims[a] # NoRow
    PROVE  Left(a)
<1>1. ClaimVerifies(a) /\ LegalHistory(a, events[a])
  BY DEF SoundInv, Verifies
<1>2. PICK i \in InState(events[a], "submitted") : i > 1
  BY <1>1 DEF ClaimVerifies
<1>3. events[a] \in Seq(Events) /\ i \in 1..Len(events[a]) /\ Len(events[a]) \in Nat
  BY <1>2 DEF InState, TypeOK
<1>4. Len(events[a]) \in 1..Len(events[a]) /\ Len(events[a]) # 1
  <2>1. \A n \in Nat : i \in 1..n => n \in 1..n /\ n # 1
    BY <1>2
  <2> QED
    BY <1>3, <2>1
<1>5. events[a][Len(events[a])].state # "prepared"
  BY <1>1, <1>3, <1>4, PreparedFirst
<1>6. events[a][Len(events[a])] \in Events
  BY <1>3, <1>4
<1>7. events[a][Len(events[a])].state \in States
  BY <1>6 DEF Events
<1>8. events[a] # <<>>
  BY <1>3
<1> QED
  BY <1>5, <1>7, <1>8 DEF Left, HeadOf, States

\* No response is stored while the head is the submitted event.
LEMMA SubmittedHasNoResponse ==
    ASSUME TypeOK, SoundInv, NEW a \in Attempts, HeadOf(events[a]).state = "submitted"
    PROVE  responses[a] = NoRow
<1> SUFFICES ASSUME responses[a] # NoRow
             PROVE  FALSE
  OBVIOUS
<1> DEFINE h == events[a]
<1>1. /\ LegalHistory(a, h) /\ ResponseVerifies(a) /\ ClaimVerifies(a)
      /\ h \in Seq(Events) /\ Len(h) \in Nat
  BY DEF SoundInv, Verifies, TypeOK
<1>2. PICK r \in 1..Len(h) : h[r].state = "response_received"
  BY <1>1 DEF ResponseVerifies, InState
<1>3. Len(h) \in 1..Len(h) /\ h # <<>>
  BY <1>1, <1>2
<1>4. h[Len(h)].state = "submitted"
  BY <1>3 DEF HeadOf
<1>5. Len(h) \in InState(h, "submitted")
  BY <1>3, <1>4 DEF InState
<1>6. Len(h) > 1 /\ h[Len(h) - 1].state = "prepared"
  <2>1. claims[a] # NoRow
    BY <1>1, <1>5 DEF ClaimVerifies
  <2> QED
    BY <1>1, <1>5, <2>1 DEF ClaimVerifies
<1>7. Len(h) - 1 \in 1..Len(h)
  BY <1>1, <1>6
<1>8. Len(h) - 1 = 1
  BY <1>1, <1>6, <1>7, PreparedFirst
<1>9. r = 1 \/ r = Len(h)
  <2>1. \A n \in Nat : r \in 1..n /\ n - 1 = 1 => r = 1 \/ r = n
    OBVIOUS
  <2> QED
    BY <1>1, <1>2, <1>8, <2>1
<1>10. h[1].state = "prepared"
  BY <1>6, <1>8
<1> QED
  BY <1>2, <1>4, <1>9, <1>10

\* Nothing follows a lost response.
LEMMA LostIsLast ==
    ASSUME NEW a, NEW h \in Seq(Events), LegalHistory(a, h), NEW i \in 1..Len(h), Lost(h[i])
    PROVE  HeadOf(h).state = "failed"
<1>1. ASSUME i # Len(h)
      PROVE  FALSE
  <2>1. i + 1 \in 2..Len(h) /\ (i + 1) - 1 = i
    BY <1>1
  <2>2. h[i + 1].state \in LegalTransitions["failed"]
    BY <2>1 DEF LegalHistory, LegalTrace, Lost
  <2> QED
    BY <2>2 DEF LegalTransitions
<1> QED
  BY <1>1 DEF HeadOf, Lost

\* What each call knows about its attempt until it reports: before it claims the
\* attempt has a history, while it holds the attempt and is not publishing again
\* it last saw the submitted event, and what it reports is there.
ReportInv(d) ==
    /\ pc[d] = "response_received" =>
          product[d] \in Receipts /\ responses[Att(d)] = product[d]
    /\ pc[d] \in {"failed", "outcome_unknown"} =>
          \E i \in 1..Len(events[Att(d)]) : events[Att(d)][i] = product[d]
    /\ pc[d] = "not_sent" => sent[d] = 0
    /\ (pc[d] = "not_sent" /\ seen[d].state # "none") => Left(Att(d))
    /\ pc[d] = "replayed" => Left(Att(d))
    /\ pc[d] \in {"credential", "preflight", "preflight_reread", "claim", "claim_reread"} =>
          events[Att(d)] # <<>>
    /\ pc[d] \in {"send", "transport", "record", "publish", "publish_reread"} =>
          seen[d].head.state = "submitted" /\ seen[d].next # 1
    /\ pc[d] \in {"credential", "claim"} => seen[d].head \in Events
    /\ pc[d] = "preflight" => ~Lost(product[d])
    /\ pc[d] \in Publishing => product[d].attempt = Att(d)

\* An attempt closed as lost has no stored response.
LostInv ==
    \A a \in Attempts :
        (\E i \in 1..Len(events[a]) : Lost(events[a][i])) => responses[a] = NoRow

\* A call that takes no step loses nothing by the steps of the others.
LEMMA ReportKept ==
    ASSUME CallsInv, NEW b \in Dispatchers, ReportInv(b),
           pc'[b] = pc[b], call'[b] = call[b], seen'[b] = seen[b],
           product'[b] = product[b], sent'[b] = sent[b],
           \A a \in Attempts : JournalMoves(a)
    PROVE  ReportInv(b)'
<1>1. CASE pc[b] = "idle"
  BY <1>1 DEF ReportInv, Publishing
<1>2. CASE pc[b] # "idle"
  <2>1. Att(b) \in Attempts /\ Att(b)' = Att(b)
    BY <1>2 DEF CallsInv, LocalInv, Calls, Att
  <2>2. PICK a \in Attempts : a = Att(b) /\ JournalMoves(a)
    BY <2>1
  <2>3. ASSUME pc[b] = "response_received"
        PROVE  product'[b] \in Receipts /\ responses'[a] = product'[b]
    BY <2>2, <2>3, RowAssumption DEF ReportInv, JournalMoves
  <2>4. ASSUME NEW i \in 1..Len(events[a]), events[a][i] = product[b]
        PROVE  i \in 1..Len(events'[a]) /\ events'[a][i] = product'[b]
    BY <2>2, <2>4 DEF JournalMoves
  <2>5. Left(a) => Left(a)'
    BY <2>2 DEF JournalMoves
  <2>6. events[a] # <<>> => events'[a] # <<>>
    BY <2>2 DEF JournalMoves
  <2>8. /\ Left(a) <=> Left(Att(b))
        /\ Left(a)' <=> Left(Att(b))'
    BY <2>1, <2>2 DEF Left
  <2>7. Lost(product[b]) <=> Lost(product'[b])
    OBVIOUS
  <2> HIDE DEF JournalMoves, Left, Lost
  <2> QED
    BY <2>1, <2>2, <2>3, <2>4, <2>5, <2>6, <2>7, <2>8 DEF ReportInv, Publishing
<1> QED
  BY <1>1, <1>2

\* A step of one call is in order when that call's reports are.
LEMMA OneReports ==
    ASSUME CallsInv, NEW d \in Dispatchers, \A b \in Dispatchers : ReportInv(b), Only(d),
           \A a \in Attempts : JournalMoves(a), ReportInv(d)'
    PROVE  \A b \in Dispatchers : ReportInv(b)'
<1>1. ASSUME NEW b \in Dispatchers, b # d
      PROVE  ReportInv(b)'
  BY <1>1, ReportKept DEF Only
<1> QED
  BY <1>1

\* A call that raises or is killed claims nothing.
LEMMA SilentReports ==
    ASSUME NEW d, pc[d] \in {"raised", "crashed", "idle"}
    PROVE  ReportInv(d)
  BY DEF ReportInv, Publishing

LEMMA StartReports ==
    ASSUME TypeOK, CallsInv, NEW d \in Dispatchers, NEW arguments \in Calls, Start(d, arguments)
    PROVE  Only(d) /\ ReportInv(d)'
<1>1. Only(d)
  BY DEF Start, Goto, Only, CallsInv, Domains
<1>2. /\ Att(d)' = arguments.attempt /\ sent'[d] = 0 /\ UNCHANGED journalVars
      /\ pc'[d] \in {"not_sent", "credential", "raised"}
  BY DEF Start, Goto, CallsInv, Domains, LocalInv, Unsent, Att
<1>3. ASSUME pc'[d] # "raised"
      PROVE  /\ seen'[d] = HeadOf(events[arguments.attempt])
             /\ pc'[d] = IF seen'[d].state = "prepared" THEN "credential" ELSE "not_sent"
  BY <1>3 DEF Start, Goto, CallsInv, Domains
<1>4. events' = events
  BY <1>2 DEF journalVars
<1>5. CASE pc'[d] = "not_sent"
  BY <1>1, <1>2, <1>3, <1>4, <1>5 DEF ReportInv, Publishing, Left
<1>6. CASE pc'[d] = "credential"
  <2>1. HeadOf(events[arguments.attempt]).state = "prepared"
    BY <1>3, <1>6
  <2>2. events[arguments.attempt] # <<>>
    BY <2>1 DEF HeadOf, EmptyHead
  <2>3. seen'[d].head \in Events
    <3>1. events[arguments.attempt] \in Seq(Events)
      BY DEF TypeOK, Calls
    <3>2. events[arguments.attempt][Len(events[arguments.attempt])] \in Events
      BY <2>2, <3>1
    <3> QED
      BY <1>3, <1>6, <2>2, <3>2 DEF HeadOf
  <2> QED
    BY <1>1, <1>2, <1>4, <1>6, <2>2, <2>3 DEF ReportInv, Publishing
<1>7. CASE pc'[d] = "raised"
  BY <1>1, <1>7 DEF ReportInv, Publishing
<1> QED
  BY <1>1, <1>2, <1>5, <1>6, <1>7

LEMMA CredentialReports ==
    ASSUME CallsInv, NEW d \in Dispatchers, ReportInv(d), ResolveCredential(d)
    PROVE  Only(d) /\ ReportInv(d)'
<1>1. Only(d)
  BY DEF ResolveCredential, Goto, Only, CallsInv, Domains
<1>2. /\ events[Att(d)] # <<>> /\ Att(d)' = Att(d) /\ events' = events
      /\ pc'[d] \in {"claim", "raised", "preflight"}
  BY DEF ResolveCredential, Goto, CallsInv, Domains, ReportInv, Att, journalVars
<1>3. ASSUME pc'[d] = "preflight"
      PROVE  ~Lost(product'[d])
  BY <1>3 DEF ResolveCredential, Goto, CallsInv, Domains, Event, Lost
<1>4. seen'[d].head \in Events
  BY DEF ResolveCredential, ReportInv
<1> QED
  BY <1>1, <1>2, <1>3, <1>4 DEF ReportInv, Publishing

\* What append_event reports as recorded is in the history.
LEMMA AppendReports ==
    ASSUME TypeOK, CallsInv, NEW d \in Dispatchers, ReportInv(d),
           \A a \in Attempts : JournalMoves(a), PreflightAppend(d) \/ Record(d)
    PROVE  Only(d) /\ ReportInv(d)'
<1>1. Only(d)
  BY DEF PreflightAppend, Record, AppendAs, Goto, Only, CallsInv, Domains
<1>2. /\ Att(d) \in Attempts /\ Att(d)' = Att(d) /\ product'[d] = product[d]
      /\ product[d].state \in {"failed", "outcome_unknown"}
      /\ product[d] \in Events /\ events[Att(d)] \in Seq(Events)
  BY DEF PreflightAppend, Record, CallsInv, LocalInv, Calls, Att, TypeOK
<1>3. ASSUME NEW onError \in {"preflight_reread", "raised"},
             AppendAs(d, onError), pc'[d] # onError
      PROVE  /\ pc'[d] \in {"failed", "outcome_unknown"}
             /\ \E i \in 1..Len(events'[Att(d)]) : events'[Att(d)][i] = product[d]
  <2>1. pc'[d] = product[d].state
    BY <1>2, <1>3 DEF AppendAs, Goto, CallsInv, Domains
  <2>2. \/ AppendEvent(Att(d), product[d], SeenToken(d))
        \/ AppendReplays(Att(d), product[d]) /\ UNCHANGED journalVars
    BY <1>3 DEF AppendAs, Goto, CallsInv, Domains
  <2>3. CASE AppendEvent(Att(d), product[d], SeenToken(d))
    <3>1. events'[Att(d)] = Append(events[Att(d)], product[d])
      BY <1>2, <2>3 DEF AppendEvent, TypeOK
    <3>2. Len(events'[Att(d)]) \in 1..Len(events'[Att(d)])
      BY <1>2, <3>1
    <3>3. events'[Att(d)][Len(events'[Att(d)])] = product[d]
      BY <1>2, <3>1
    <3> QED
      BY <1>2, <2>1, <3>2, <3>3
  <2>4. CASE AppendReplays(Att(d), product[d]) /\ UNCHANGED journalVars
    BY <1>2, <2>1, <2>4 DEF AppendReplays, journalVars
  <2> QED
    BY <2>2, <2>3, <2>4
<1>4. CASE PreflightAppend(d)
  <2>1. AppendAs(d, "preflight_reread") /\ events[Att(d)] # <<>>
    BY <1>4 DEF PreflightAppend, ReportInv
  <2>2. events'[Att(d)] # <<>>
    BY <1>2, <2>1 DEF JournalMoves
  <2>3. CASE pc'[d] = "preflight_reread"
    BY <1>1, <1>2, <2>2, <2>3 DEF ReportInv, Publishing
  <2>4. CASE pc'[d] # "preflight_reread"
    BY <1>1, <1>2, <1>3, <2>1, <2>4 DEF ReportInv, Publishing
  <2> QED
    BY <1>1, <2>3, <2>4
<1>5. CASE Record(d)
  <2>1. AppendAs(d, "raised")
    BY <1>5 DEF Record
  <2>2. CASE pc'[d] = "raised"
    BY <1>1, <2>2 DEF ReportInv, Publishing
  <2>3. CASE pc'[d] # "raised"
    BY <1>1, <1>2, <1>3, <2>1, <2>3 DEF ReportInv, Publishing
  <2> QED
    BY <1>1, <2>2, <2>3
<1> QED
  BY <1>4, <1>5

\* The head state of a history that has begun.
LEMMA StartedState ==
    ASSUME NEW h \in Seq(Events), h # <<>>
    PROVE  HeadOf(h).state \in States
<1>1. h[Len(h)] \in Events
  OBVIOUS
<1>2. h[Len(h)].state \in States
  BY <1>1 DEF Events
<1> QED
  BY <1>2 DEF HeadOf

LEMMA RereadReports ==
    ASSUME TypeOK, CallsInv, NEW d \in Dispatchers, ReportInv(d),
           RereadAfterError(d) \/ NotSent(d)
    PROVE  Only(d) /\ ReportInv(d)'
<1>1. Only(d)
  BY DEF RereadAfterError, NotSent, Goto, Only, CallsInv, Domains
<1>2. /\ Att(d)' = Att(d) /\ events' = events /\ sent'[d] = 0
      /\ pc'[d] \in {"not_sent", "raised"}
  BY DEF RereadAfterError, NotSent, Goto, CallsInv, Domains, LocalInv, Unsent, Att,
         journalVars
<1>3. ASSUME pc'[d] = "not_sent"
      PROVE  Left(Att(d))
  <2>1. CASE NotSent(d)
    BY <2>1 DEF NotSent, ReportInv
  <2>2. CASE RereadAfterError(d)
    <3>1. /\ StateRead(d) \notin {"prepared", "unreadable"}
          /\ events[Att(d)] # <<>>
      BY <1>3, <2>2 DEF RereadAfterError, ReportInv, Goto, CallsInv, Domains
    <3>2. HeadOf(events[Att(d)]).state # "prepared"
      BY <3>1 DEF StateRead, Current
    <3>3. HeadOf(events[Att(d)]).state # "none"
      <4>1. events[Att(d)] \in Seq(Events)
        BY <2>2 DEF RereadAfterError, CallsInv, LocalInv, Calls, Att, TypeOK
      <4> QED
        BY <3>1, <4>1, StartedState DEF States
    <3> QED
      BY <3>2, <3>3 DEF Left
  <2> QED
    BY <2>1, <2>2
<1>4. Left(Att(d)) <=> Left(Att(d))'
  BY <1>2 DEF Left
<1> HIDE DEF Left
<1> QED
  BY <1>1, <1>2, <1>3, <1>4 DEF ReportInv, Publishing

LEMMA ClaimReports ==
    ASSUME TypeOK, TypeOK', SoundInv, CallsInv, NEW d \in Dispatchers, ReportInv(d),
           \A a \in Attempts : JournalMoves(a), Claim(d)
    PROVE  Only(d) /\ ReportInv(d)'
<1>1. Only(d)
  BY DEF Claim, Goto, Only, CallsInv, Domains
<1>2. /\ Att(d) \in Attempts /\ Att(d)' = Att(d) /\ events[Att(d)] # <<>>
      /\ pc'[d] \in {"send", "claim_reread", "replayed"}
      /\ ClaimOf(d).attempt = Att(d)
  BY DEF Claim, Goto, CallsInv, Domains, LocalInv, Calls, Att, ReportInv, ClaimOf
<1>3. CASE pc'[d] = "claim_reread"
  <2>1. events'[Att(d)] # <<>>
    BY <1>2 DEF JournalMoves
  <2> QED
    BY <1>1, <1>2, <1>3, <2>1 DEF ReportInv, Publishing
<1>4. CASE pc'[d] = "replayed"
  <2>1. ClaimReplays(ClaimOf(d)) /\ events' = events /\ ~ClaimCreates(ClaimOf(d))
    BY <1>4 DEF Claim, Goto, CallsInv, Domains, journalVars
  <2>2. claims[Att(d)] # NoRow
    <3>1. claims[Att(d)] = ClaimOf(d) /\ CapabilityBinds(ClaimOf(d))
      BY <1>2, <2>1 DEF ClaimReplays
    <3>2. /\ ClaimOf(d).capability \in Capabilities
          /\ ClaimOf(d).capability = attempts[Att(d)].capability
      BY <3>1, JournalAssumption DEF CapabilityBinds, ClaimOf
    <3>3. /\ call[d] \in Calls /\ seen[d].next \in SequenceNumbers
          /\ seen[d].head \in Events
      BY DEF Claim, CallsInv, LocalInv, Working, ReportInv
    <3>4. ClaimOf(d) \in Claims
      BY <1>2, <3>2, <3>3 DEF ClaimOf, Claims, Calls, SequenceNumbers
    <3> QED
      BY <3>1, <3>4, RowAssumption
  <2>3. Left(Att(d))'
    BY <1>2, <2>1, <2>2, ClaimedLeft DEF Left
  <2> QED
    BY <1>1, <1>2, <1>4, <2>3 DEF ReportInv, Publishing
<1>5. CASE pc'[d] = "send"
  <2>1. /\ ClaimDispatch(ClaimOf(d), TRUE)
        /\ seen'[d] = HeadOf(events'[Att(d)])
    BY <1>5 DEF Claim, Goto, CallsInv, Domains
  <2>2. events'[Att(d)] = Append(events[Att(d)], SubmittedEvent(ClaimOf(d)))
    BY <1>2, <2>1 DEF ClaimDispatch, TypeOK
  <2>3. events[Att(d)] \in Seq(Events) /\ events'[Att(d)] \in Seq(Events)
    BY <1>2 DEF TypeOK
  <2>4. /\ events'[Att(d)] # <<>>
        /\ events'[Att(d)][Len(events'[Att(d)])] = SubmittedEvent(ClaimOf(d))
    BY <2>2, <2>3
  <2>5. seen'[d].head = SubmittedEvent(ClaimOf(d)) /\ seen'[d].next # 1
    <3>1. seen'[d].next = Len(events'[Att(d)]) + 1
      BY <2>1, <2>4 DEF HeadOf
    <3>2. Len(events'[Att(d)]) \in Nat \ {0}
      BY <2>3, <2>4
    <3> QED
      BY <2>1, <2>4, <3>1, <3>2 DEF HeadOf
  <2>7. SubmittedEvent(ClaimOf(d)).state = "submitted"
    BY DEF SubmittedEvent, Event
  <2> QED
    BY <1>1, <1>2, <1>5, <2>5, <2>7 DEF ReportInv, Publishing
<1> QED
  BY <1>2, <1>3, <1>4, <1>5

LEMMA SendReports ==
    ASSUME CallsInv, NEW d \in Dispatchers, ReportInv(d), Send(d) \/ Crash(d)
    PROVE  Only(d) /\ ReportInv(d)'
<1>1. Only(d)
  BY DEF Send, Crash, Goto, Only, CallsInv, Domains
<1>2. CASE Send(d)
  <2>1. pc[d] = "send" /\ pc'[d] = "transport" /\ seen'[d] = seen[d]
    BY <1>2 DEF Send, Goto, CallsInv, Domains
  <2> QED
    BY <1>1, <2>1 DEF ReportInv, Publishing
<1>3. CASE Crash(d)
  <2>1. pc'[d] = "crashed"
    BY <1>3 DEF Crash, Goto, CallsInv, Domains
  <2> QED
    BY <1>1, <2>1 DEF ReportInv, Publishing
<1> QED
  BY <1>2, <1>3

LEMMA TransportReports ==
    ASSUME CallsInv, NEW d \in Dispatchers, ReportInv(d), TransportReturns(d)
    PROVE  Only(d) /\ ReportInv(d)'
<1>1. Only(d)
  BY DEF TransportReturns, Goto, Only, CallsInv, Domains
<1>2. /\ pc[d] = "transport" /\ pc'[d] \in {"raised", "record", "publish"}
      /\ seen'[d] = seen[d] /\ Att(d)' = Att(d)
  BY DEF TransportReturns, Goto, CallsInv, Domains, Att
<1>3. ASSUME pc'[d] = "publish"
      PROVE  product'[d].attempt = Att(d)
  BY <1>3 DEF TransportReturns, Goto, CallsInv, Domains
<1> QED
  BY <1>1, <1>2, <1>3 DEF ReportInv, Publishing

LEMMA PublishReports ==
    ASSUME TypeOK, CallsInv, NEW d \in Dispatchers, ReportInv(d),
           Publish(d) \/ Republish(d)
    PROVE  Only(d) /\ ReportInv(d)'
<1>1. Only(d)
  BY DEF Publish, Republish, PublishAs, Goto, Only, CallsInv, Domains
<1>2. /\ product[d] \in Receipts /\ product'[d] = product[d] /\ seen'[d] = seen[d]
      /\ Att(d)' = Att(d) /\ product[d].attempt = Att(d)
      /\ pc'[d] \in {"response_received", "publish_reread", "republish_reread"}
      /\ pc'[d] = "publish_reread" => pc[d] = "publish"
  BY DEF Publish, Republish, PublishAs, Goto, CallsInv, Domains, LocalInv, Publishing, Att,
         ReportInv
<1>3. ASSUME pc'[d] = "response_received"
      PROVE  responses'[product[d].attempt] = product[d]
  <2>1. product[d].attempt \in Attempts
    BY <1>2 DEF Receipts
  <2>2. \/ PublishResponse(product[d], SeenToken(d))
        \/ ResponseReplays(product[d]) /\ UNCHANGED journalVars
    BY <1>3 DEF Publish, Republish, PublishAs, Goto, CallsInv, Domains
  <2> QED
    BY <2>1, <2>2 DEF PublishResponse, ResponseReplays, TypeOK, journalVars
<1> QED
  BY <1>1, <1>2, <1>3 DEF ReportInv, Publishing

LEMMA PublishRereadReports ==
    ASSUME TypeOK, CallsInv, NEW d \in Dispatchers, ReportInv(d),
           PublishReread(d) \/ RepublishReread(d)
    PROVE  Only(d) /\ ReportInv(d)'
<1>1. Only(d)
  BY DEF PublishReread, RepublishReread, Goto, Only, CallsInv, Domains
<1>2. /\ Att(d)' = Att(d) /\ responses' = responses /\ product[d] \in Receipts
      /\ product[d].attempt = Att(d)
      /\ pc'[d] \in {"response_received", "raised", "republish", "record"}
  BY DEF PublishReread, RepublishReread, Recovered, Goto, CallsInv, Domains, LocalInv,
         Publishing, Att, ReportInv, journalVars
<1>3. CASE pc'[d] = "response_received"
  <2>1. product'[d] = product[d] /\ Recovered(d) = "response_received"
    BY <1>3 DEF PublishReread, RepublishReread, Goto, CallsInv, Domains
  <2> QED
    BY <1>1, <1>2, <1>3, <2>1 DEF Recovered, ReportInv, Publishing
<1>4. CASE pc'[d] = "republish"
  <2>1. product'[d] = product[d]
    BY <1>4 DEF PublishReread, RepublishReread, Recovered, Goto, CallsInv, Domains
  <2> QED
    BY <1>1, <1>2, <1>4, <2>1 DEF ReportInv, Publishing
<1>5. CASE pc'[d] = "record"
  <2>1. pc[d] = "publish_reread" /\ seen'[d] = seen[d]
    BY <1>5 DEF PublishReread, RepublishReread, Recovered, Goto, CallsInv, Domains
  <2> QED
    BY <1>1, <1>5, <2>1 DEF ReportInv, Publishing
<1>6. CASE pc'[d] = "raised"
  BY <1>1, <1>6 DEF ReportInv, Publishing
<1> QED
  BY <1>2, <1>3, <1>4, <1>5, <1>6

LEMMA StepReports ==
    ASSUME TypeOK, TypeOK', SoundInv, SoundInv', CallsInv,
           \A d \in Dispatchers : ReportInv(d), [DispatchNext]_dispatchVars
    PROVE  \A d \in Dispatchers : ReportInv(d)'
<1>1. \A a \in Attempts : JournalMoves(a)
  BY StepIsStep, StepMoves
<1>2. ASSUME NEW d \in Dispatchers, NEW arguments \in Calls, Start(d, arguments)
      PROVE  \A b \in Dispatchers : ReportInv(b)'
  BY <1>1, <1>2, StartReports, OneReports
<1>3. ASSUME NEW d \in Dispatchers, Run(d) \/ Crash(d)
      PROVE  \A b \in Dispatchers : ReportInv(b)'
  <2>1. Only(d) /\ ReportInv(d)'
    BY <1>1, <1>3, CredentialReports, AppendReports, RereadReports, ClaimReports,
       SendReports, TransportReports, PublishReports, PublishRereadReports DEF Run
  <2> QED
    BY <1>1, <2>1, OneReports
<1>4. CASE UNCHANGED callVars
  BY <1>1, <1>4, ReportKept DEF callVars
<1> QED
  BY <1>2, <1>3, <1>4 DEF DispatchNext, Others, dispatchVars

-----------------------------------------------------------------------------
(* A stored response is never written off.                                  *)

\* Steps that change no stored response and append nothing that says "lost", or
\* say it where no response is stored.
LEMMA AppendLost ==
    ASSUME TypeOK, LostInv, NEW a \in Attempts, NEW e \in Events,
           events' = [events EXCEPT ![a] = Append(@, e)], UNCHANGED responses,
           Lost(e) => responses[a] = NoRow
    PROVE  LostInv'
<1>1. ASSUME NEW b \in Attempts, NEW i \in 1..Len(events'[b]), Lost(events'[b][i])
      PROVE  responses'[b] = NoRow
  <2>1. CASE b # a
    BY <1>1, <2>1 DEF LostInv, TypeOK
  <2>2. CASE b = a
    <3>1. events'[a] = Append(events[a], e) /\ events[a] \in Seq(Events)
      BY DEF TypeOK
    <3>2. CASE i = Len(events[a]) + 1
      BY <1>1, <2>2, <3>1, <3>2
    <3>3. CASE i # Len(events[a]) + 1
      <4>1. i \in 1..Len(events[a]) /\ events'[a][i] = events[a][i]
        BY <1>1, <2>2, <3>1, <3>3
      <4> QED
        BY <1>1, <2>2, <4>1 DEF LostInv
    <3> QED
      BY <3>2, <3>3
  <2> QED
    BY <2>1, <2>2
<1> QED
  BY <1>1 DEF LostInv

LEMMA ResponseLost ==
    ASSUME TypeOK, SoundInv, LostInv, NEW receipt \in Receipts, NEW token,
           PublishResponse(receipt, token)
    PROVE  LostInv'
<1> DEFINE a == receipt.attempt
           e == ResponseEvent(receipt, token.next)
<1>1. a \in Attempts /\ LegalHistory(a, events[a]) /\ events[a] \in Seq(Events)
  BY AlwaysLegal DEF Receipts, TypeOK
<1>2. \A i \in 1..Len(events[a]) : ~Lost(events[a][i])
  <2>1. HeadOf(events[a]).state # "failed"
    BY DEF PublishResponse, ResponseCreates
  <2> QED
    BY <1>1, <2>1, LostIsLast
<1>3. /\ events' = [events EXCEPT ![a] = Append(@, e)]
      /\ responses' = [responses EXCEPT ![a] = receipt]
      /\ ~Lost(e)
  BY DEF PublishResponse, ResponseEvent, Event, Lost
<1> HIDE DEF a, e
<1>4. ASSUME NEW b \in Attempts, NEW i \in 1..Len(events'[b]), Lost(events'[b][i])
      PROVE  responses'[b] = NoRow
  <2>1. CASE b # a
    BY <1>3, <1>4, <2>1 DEF LostInv, TypeOK
  <2>2. CASE b = a
    <3>1. events'[a] = Append(events[a], e)
      BY <1>1, <1>3 DEF TypeOK
    <3> QED
      BY <1>1, <1>2, <1>3, <1>4, <2>2, <3>1
  <2> QED
    BY <2>1, <2>2
<1> QED
  BY <1>4 DEF LostInv

\* A call records the loss only on the submitted head it saw.
LEMMA RecordLost ==
    ASSUME TypeOK, SoundInv, CallsInv, LostInv, NEW d \in Dispatchers, ReportInv(d),
           PreflightAppend(d) \/ Record(d)
    PROVE  LostInv'
<1>1. Att(d) \in Attempts /\ product[d] \in Events /\ events[Att(d)] \in Seq(Events)
  BY DEF PreflightAppend, Record, CallsInv, LocalInv, Calls, Att, TypeOK
<1>2. CASE UNCHANGED journalVars
  BY <1>2 DEF journalVars, LostInv
<1>3. CASE AppendEvent(Att(d), product[d], SeenToken(d))
  <2>1. Lost(product[d]) => responses[Att(d)] = NoRow
    <3>1. CASE PreflightAppend(d)
      BY <3>1 DEF PreflightAppend, ReportInv
    <3>2. CASE Record(d)
      <4>1. seen[d].head.state = "submitted" /\ seen[d].next # 1
        BY <3>2 DEF Record, ReportInv
      <4>2. SeenToken(d) = TokenOf(events[Att(d)])
        BY <1>3 DEF AppendEvent, AppendCreates, CheckHead
      <4>3. /\ HeadOf(events[Att(d)]).head.state = "submitted"
            /\ HeadOf(events[Att(d)]).next # 1
        BY <4>1, <4>2 DEF SeenToken, TokenOf
      <4>4. HeadOf(events[Att(d)]).state = "submitted"
        BY <4>3 DEF HeadOf, EmptyHead
      <4> QED
        BY <1>1, <4>4, SubmittedHasNoResponse
    <3> QED
      BY <3>1, <3>2
  <2>2. /\ events' = [events EXCEPT ![Att(d)] = Append(@, product[d])]
        /\ UNCHANGED responses
    BY <1>3 DEF AppendEvent
  <2> QED
    BY <1>1, <2>1, <2>2, AppendLost
<1> QED
  BY <1>2, <1>3 DEF PreflightAppend, Record, AppendAs

LEMMA ClaimLost ==
    ASSUME TypeOK, TypeOK', CallsInv, LostInv, NEW d \in Dispatchers, Claim(d)
    PROVE  LostInv'
<1>1. Att(d) \in Attempts /\ ClaimOf(d).attempt = Att(d) /\ events[Att(d)] \in Seq(Events)
  BY DEF Claim, CallsInv, LocalInv, Calls, Att, ClaimOf, TypeOK
<1>2. CASE UNCHANGED journalVars
  BY <1>2 DEF journalVars, LostInv
<1>3. ASSUME NEW acknowledged \in BOOLEAN, ClaimDispatch(ClaimOf(d), acknowledged)
      PROVE  LostInv'
  <2>1. events' = [events EXCEPT ![Att(d)] = Append(@, SubmittedEvent(ClaimOf(d)))]
    BY <1>1, <1>3 DEF ClaimDispatch
  <2>2. SubmittedEvent(ClaimOf(d)) \in Events
    <3>1. events'[Att(d)] = Append(events[Att(d)], SubmittedEvent(ClaimOf(d)))
      BY <1>1, <2>1 DEF TypeOK
    <3>2. events'[Att(d)] \in Seq(Events)
      BY <1>1 DEF TypeOK
    <3>3. Len(events'[Att(d)]) \in 1..Len(events'[Att(d)])
      BY <1>1, <3>1
    <3>4. events'[Att(d)][Len(events'[Att(d)])] = SubmittedEvent(ClaimOf(d))
      BY <1>1, <3>1
    <3> QED
      BY <3>2, <3>3, <3>4
  <2>3. UNCHANGED responses /\ ~Lost(SubmittedEvent(ClaimOf(d)))
    BY <1>3 DEF ClaimDispatch, SubmittedEvent, Event, Lost
  <2> QED
    BY <1>1, <2>1, <2>2, <2>3, AppendLost
<1> QED
  BY <1>2, <1>3 DEF Claim

\* Nobody else writes "lost", and a success is added to a stored response.
LEMMA OthersLost ==
    ASSUME TypeOK, TypeOK', LostInv, Others
    PROVE  LostInv'
<1>1. CASE Register
  BY <1>1 DEF Register, RegisterRun, RegisterAttempt, LostInv
<1>2. ASSUME NEW a \in Attempts, NEW e,
             events' = [events EXCEPT ![a] = Append(@, e)], UNCHANGED responses, ~Lost(e)
      PROVE  LostInv'
  <2>1. events[a] \in Seq(Events) /\ events'[a] \in Seq(Events)
    BY DEF TypeOK
  <2>2. events'[a] = Append(events[a], e)
    BY <1>2 DEF TypeOK
  <2>3. Len(events'[a]) \in 1..Len(events'[a]) /\ events'[a][Len(events'[a])] = e
    BY <2>1, <2>2
  <2>4. e \in Events
    BY <2>1, <2>3
  <2> QED
    BY <1>2, <2>4, AppendLost
<1>3. ASSUME NEW a \in Attempts, NEW e \in OperatorEvents(a),
             AppendEvent(a, e, TokenOf(events[a]))
      PROVE  LostInv'
  <2>1. ~Lost(e)
    BY <1>3 DEF OperatorEvents, Event, Lost
  <2> QED
    BY <1>2, <1>3, <2>1 DEF AppendEvent
<1>4. ASSUME NEW a \in Attempts, NEW packet \in Intents, NEW at \in Times,
             PublishSuccess(a, events[a], packet, at, TokenOf(events[a]))
      PROVE  LostInv'
  <2> DEFINE e == SucceededEvent(a, TokenOf(events[a]).next, at, responses[a].payload)
  <2>1. ~Lost(e)
    BY DEF SucceededEvent, Event, Lost
  <2>2. events' = [events EXCEPT ![a] = Append(@, e)] /\ UNCHANGED responses
    BY <1>4 DEF PublishSuccess
  <2> HIDE DEF e
  <2> QED
    BY <1>2, <2>1, <2>2
<1> QED
  BY <1>1, <1>3, <1>4 DEF Others

LEMMA StepLost ==
    ASSUME TypeOK, TypeOK', SoundInv, CallsInv, LostInv,
           \A d \in Dispatchers : ReportInv(d), [DispatchNext]_dispatchVars
    PROVE  LostInv'
<1>1. CASE UNCHANGED journalVars
  BY <1>1 DEF journalVars, LostInv
<1>2. ASSUME NEW d \in Dispatchers, Run(d)
      PROVE  LostInv'
  <2>1. CASE PreflightAppend(d) \/ Record(d)
    BY <2>1, RecordLost
  <2>2. CASE Claim(d)
    BY <2>2, ClaimLost
  <2>3. CASE Publish(d) \/ Republish(d)
    <3>1. product[d] \in Receipts
      BY <2>3 DEF Publish, Republish, CallsInv, LocalInv, Publishing
    <3> QED
      BY <1>1, <2>3, <3>1, ResponseLost DEF Publish, Republish, PublishAs, journalVars
  <2>4. CASE \/ ResolveCredential(d) \/ RereadAfterError(d) \/ NotSent(d) \/ Send(d)
             \/ TransportReturns(d) \/ PublishReread(d) \/ RepublishReread(d)
    BY <1>1, <2>4 DEF ResolveCredential, RereadAfterError, NotSent, Send,
         TransportReturns, PublishReread, RepublishReread
  <2> QED
    BY <1>2, <2>1, <2>2, <2>3, <2>4 DEF Run
<1>3. CASE Others
  BY <1>3, OthersLost
<1> QED
  BY <1>1, <1>2, <1>3 DEF DispatchNext, Start, Crash, dispatchVars

\* What a caller of dispatch_openrouter_attempt is told is what the journal holds,
\* whatever other calls, operators and finalizers did in between and whichever
\* answers were lost: a recorded outcome is in the history, a response is stored,
\* "not sent" is said neither by a call that sent nor about an attempt that can
\* still be sent, and a stored response is never written off as lost.
THEOREM ToldTheTruth == DispatchSpec => []ReportsAreTrue
<1> DEFINE Inv == (\A d \in Dispatchers : ReportInv(d)) /\ LostInv
<1>1. DispatchInit => Inv
  BY DEF DispatchInit, JournalInit, ReportInv, LostInv, Publishing
<1>2. /\ TypeOK /\ TypeOK' /\ SoundInv /\ SoundInv' /\ CallsInv /\ Inv
      /\ [DispatchNext]_dispatchVars
      => Inv'
  BY StepReports, StepLost
<1>3. Inv => ReportsAreTrue
  BY DEF ReportInv, LostInv, Left, ReportsAreTrue, Current
<1> HIDE DEF Inv
<1> QED
  BY <1>1, <1>2, <1>3, DispatchTyped, DispatchImplementsJournal, SoundInductive, PTL
     DEF DispatchSpec
=============================================================================
