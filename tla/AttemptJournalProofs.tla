------------------------ MODULE AttemptJournalProofs ------------------------
(***************************************************************************)
(* What holds of the attempt journal for every number of attempts, runs,   *)
(* capabilities, claim identifiers, responses and timestamps.              *)
(*                                                                         *)
(* Type correctness is inductive as it stands, once one knows that a new   *)
(* event is only written when the extended history is legal: its sequence  *)
(* number then stays within the schema's bound.  The authorization count   *)
(* is not: that it never exceeds one follows from "no claim row, no        *)
(* authorization", which every step preserves because the row and the      *)
(* count change together and a row is never removed.                       *)
(***************************************************************************)
EXTENDS AttemptJournal, TLAPS

-----------------------------------------------------------------------------
(* The events the journal derives are events of the schema.                 *)

LEMMA EventTyped ==
    ASSUME NEW e \in [attempt  : Attempts, sequence : SequenceNumbers, state : States,
                      at : Times, handle : Handles \cup {NoHandle},
                      detail : {"none"} \cup FailureCodes \cup Authorities \cup Payloads],
           e.detail \in DetailOf(e.state), e.handle \in HandleOf(e.state)
    PROVE  e \in Events
  BY DEF Events

\* A legal extension by e takes the next sequence number, within the bound.
LEMMA LegalAppend ==
    ASSUME NEW a, NEW h \in Seq(Events), NEW e \in Events, LegalHistory(a, Append(h, e))
    PROVE  /\ Len(h) < MaxEvents
           /\ e.sequence = Len(h) + 1
           /\ e.attempt = a
<1>1. /\ Append(h, e) \in Seq(Events)
      /\ Len(Append(h, e)) = Len(h) + 1
      /\ Append(h, e)[Len(h) + 1] = e
      /\ Len(h) \in Nat
  OBVIOUS
<1>2. Len(h) + 1 \in 1..Len(Append(h, e))
  BY <1>1
<1> QED
  BY <1>1, <1>2 DEF LegalHistory, LegalTrace, MaxEvents

\* The head and next sequence of a history the journal may still extend.
LEMMA TokenTyped ==
    ASSUME NEW h \in Seq(Events), Len(h) < MaxEvents
    PROVE  TokenOf(h) \in Token /\ TokenOf(h).next = Len(h) + 1
<1>1. HeadOf(h).head \in Events \cup {NoEvent}
  BY DEF HeadOf, EmptyHead
<1>2. HeadOf(h).next = Len(h) + 1
  <2>1. CASE h = <<>>
    BY <2>1 DEF HeadOf, EmptyHead
  <2>2. CASE h # <<>>
    BY <2>2 DEF HeadOf
  <2> QED BY <2>1, <2>2
<1>3. Len(h) + 1 \in 1..(MaxEvents + 1)
  BY DEF MaxEvents
<1> QED
  BY <1>1, <1>2, <1>3 DEF TokenOf, Token

-----------------------------------------------------------------------------
(* Type correctness, one lemma per operation.                               *)

\* Appending a schema event keeps the history a sequence of schema events.
LEMMA AppendTyped ==
    ASSUME TypeOK, NEW a \in Attempts, NEW e \in Events
    PROVE  [events EXCEPT ![a] = Append(@, e)] \in [Attempts -> Seq(Events)]
  BY DEF TypeOK

LEMMA AppendTypeOK ==
    ASSUME TypeOK, NEW a \in Attempts, NEW e \in Events, NEW token,
           AppendEvent(a, e, token)
    PROVE  TypeOK'
  BY AppendTyped DEF AppendEvent, TypeOK

\* The token of a claim that is created is the head of a typed history, so the
\* claim is a row of its table and the event derived from it fits the schema.
LEMMA ClaimTyped ==
    ASSUME TypeOK, NEW a \in Attempts, NEW id \in ClaimIds, NEW c \in Capabilities,
           NEW at \in Times, NEW head, NEW next,
           ClaimCreates([id |-> id, attempt |-> a, capability |-> c,
                         head |-> head, next |-> next, at |-> at])
    PROVE  LET claim == [id |-> id, attempt |-> a, capability |-> c,
                         head |-> head, next |-> next, at |-> at]
           IN  /\ claim \in Claims
               /\ SubmittedEvent(claim) \in Events
               /\ SubmittedEvent(claim).state = "submitted"
<1> DEFINE claim == [id |-> id, attempt |-> a, capability |-> c,
                     head |-> head, next |-> next, at |-> at]
<1>1. /\ events[a] \in Seq(Events)
      /\ Len(events[a]) \in Nat
  BY DEF TypeOK
<1>2. LegalHistory(a, Append(events[a], SubmittedEvent(claim)))
  BY DEF ClaimCreates
<1>3. Len(events[a]) < MaxEvents
  BY <1>1, <1>2 DEF LegalHistory, MaxEvents
<1>4. [head |-> head, next |-> next] = TokenOf(events[a])
  BY DEF ClaimCreates, CheckHead
<1>5. /\ head \in Events \cup {NoEvent}
      /\ next = Len(events[a]) + 1
      /\ next \in 1..(MaxEvents + 1)
  BY <1>1, <1>3, <1>4, TokenTyped DEF Token, TokenOf
<1>6. claim \in Claims
  BY <1>5 DEF Claims
<1>7. SubmittedEvent(claim) =
         [attempt |-> a, sequence |-> next, state |-> "submitted", at |-> at,
          handle |-> NoHandle, detail |-> "none"]
  BY DEF SubmittedEvent, Event
<1>8. SubmittedEvent(claim) \in Events
  BY <1>5, <1>7 DEF Events, SequenceNumbers, States, DetailOf, HandleOf
<1> QED
  BY <1>6, <1>7, <1>8

LEMMA ClaimTypeOK ==
    ASSUME TypeOK, NEW a \in Attempts, NEW id \in ClaimIds, NEW c \in Capabilities,
           NEW at \in Times, NEW head, NEW next, NEW acknowledged \in BOOLEAN,
           ClaimDispatch([id |-> id, attempt |-> a, capability |-> c,
                          head |-> head, next |-> next, at |-> at], acknowledged)
    PROVE  TypeOK'
<1> DEFINE claim == [id |-> id, attempt |-> a, capability |-> c,
                     head |-> head, next |-> next, at |-> at]
<1>1. /\ claim \in Claims
      /\ SubmittedEvent(claim) \in Events
  BY ClaimTyped DEF ClaimDispatch
<1>2. claim.attempt = a
  OBVIOUS
<1> HIDE DEF claim
<1>3. events' \in [Attempts -> Seq(Events)]
  BY <1>1, <1>2, AppendTyped DEF ClaimDispatch, claim
<1>4. claims' \in [Attempts -> Claims \cup {NoRow}]
  BY <1>1, <1>2 DEF ClaimDispatch, TypeOK, claim
<1>5. authorized' \in [Attempts -> Nat]
  BY <1>2 DEF ClaimDispatch, TypeOK, claim
<1>6. UNCHANGED <<runs, attempts, responses, successes>>
  BY DEF ClaimDispatch
<1> QED
  BY <1>3, <1>4, <1>5, <1>6 DEF TypeOK

\* The response event is derived from the receipt and the presented token, which
\* is the token of the typed history it extends.
LEMMA ResponseTyped ==
    ASSUME TypeOK, NEW receipt \in Receipts, NEW token, ResponseCreates(receipt, token)
    PROVE  /\ receipt.attempt \in Attempts
           /\ ResponseEvent(receipt, token.next) \in Events
<1> DEFINE a == receipt.attempt
           e == ResponseEvent(receipt, token.next)
<1>1. /\ a \in Attempts
      /\ receipt.payload \in Payloads
      /\ receipt.at \in Times
  BY DEF Receipts
<1>2. /\ events[a] \in Seq(Events)
      /\ Len(events[a]) \in Nat
  BY <1>1 DEF TypeOK
<1>3. /\ LegalHistory(a, Append(events[a], e))
      /\ token = TokenOf(events[a])
  BY DEF ResponseCreates, CheckHead
<1>4. Len(events[a]) < MaxEvents
  BY <1>2, <1>3 DEF LegalHistory, MaxEvents
<1>5. token.next \in SequenceNumbers
  BY <1>2, <1>3, <1>4, TokenTyped DEF SequenceNumbers, MaxEvents
<1>6. e = [attempt |-> a, sequence |-> token.next, state |-> "response_received",
           at |-> receipt.at, handle |-> NoHandle, detail |-> receipt.payload]
  BY DEF ResponseEvent, Event
<1>7. e \in Events
  BY <1>1, <1>5, <1>6 DEF Events, States, DetailOf, HandleOf
<1> QED
  BY <1>1, <1>7

LEMMA ResponseTypeOK ==
    ASSUME TypeOK, NEW receipt \in Receipts, NEW token, PublishResponse(receipt, token)
    PROVE  TypeOK'
<1>1. /\ receipt.attempt \in Attempts
      /\ ResponseEvent(receipt, token.next) \in Events
  BY ResponseTyped DEF PublishResponse
<1>2. events' \in [Attempts -> Seq(Events)]
  BY <1>1, AppendTyped DEF PublishResponse
<1>3. responses' \in [Attempts -> Receipts \cup {NoRow}]
  BY <1>1 DEF PublishResponse, TypeOK
<1> QED
  BY <1>2, <1>3 DEF PublishResponse, TypeOK

\* A success is only published over a response that is there.
LEMMA SuccessTyped ==
    ASSUME TypeOK, NEW a \in Attempts, NEW seen, NEW packet \in Intents,
           NEW at \in Times, NEW token, SuccessCreates(a, seen, packet, at, token)
    PROVE  /\ responses[a].payload \in Payloads
           /\ SucceededEvent(a, token.next, at, responses[a].payload) \in Events
<1> DEFINE e == SucceededEvent(a, token.next, at, responses[a].payload)
<1>1. /\ events[a] \in Seq(Events)
      /\ Len(events[a]) \in Nat
  BY DEF TypeOK
<1>2. /\ LegalHistory(a, Append(events[a], e))
      /\ token = TokenOf(events[a])
      /\ responses[a].payload \in Payloads
  BY JournalAssumption DEF SuccessCreates, CheckHead, SnapshotAdmits, Candidates
<1>3. Len(events[a]) < MaxEvents
  BY <1>1, <1>2 DEF LegalHistory, MaxEvents
<1>4. token.next \in SequenceNumbers
  BY <1>1, <1>2, <1>3, TokenTyped DEF SequenceNumbers, MaxEvents
<1>5. e = [attempt |-> a, sequence |-> token.next, state |-> "succeeded",
           at |-> at, handle |-> NoHandle, detail |-> responses[a].payload]
  BY DEF SucceededEvent, Event
<1>6. e \in Events
  BY <1>2, <1>4, <1>5 DEF Events, States, DetailOf, HandleOf
<1> QED
  BY <1>2, <1>6

LEMMA SuccessTypeOK ==
    ASSUME TypeOK, NEW a \in Attempts, NEW seen, NEW packet \in Intents,
           NEW at \in Times, NEW token, PublishSuccess(a, seen, packet, at, token)
    PROVE  TypeOK'
<1>1. /\ responses[a].payload \in Payloads
      /\ SucceededEvent(a, token.next, at, responses[a].payload) \in Events
  BY SuccessTyped DEF PublishSuccess
<1>2. events' \in [Attempts -> Seq(Events)]
  BY <1>1, AppendTyped DEF PublishSuccess
<1>3. [attempt |-> a, packet |-> packet, payload |-> responses[a].payload] \in Packages
  BY <1>1 DEF Packages
<1>4. successes' \in [Attempts -> Packages \cup {NoRow}]
  BY <1>3 DEF PublishSuccess, TypeOK
<1> QED
  BY <1>2, <1>4 DEF PublishSuccess, TypeOK

LEMMA RegisterTypeOK ==
    ASSUME TypeOK, Register
    PROVE  TypeOK'
<1>1. CASE \E r \in Runs, intent \in Intents : RegisterRun(r, intent)
  BY <1>1 DEF RegisterRun, TypeOK
<1>2. CASE \E a \in Attempts, d \in Descriptors : RegisterAttempt(a, d)
  BY <1>2 DEF RegisterAttempt, TypeOK
<1> QED
  BY <1>1, <1>2 DEF Register

\* Whatever anybody appends is an event of the schema.
LEMMA AppendAnyTyped ==
    ASSUME AppendAny
    PROVE  \E a \in Attempts, e \in Events, token \in UNION {Tokens(b) : b \in Attempts} :
              AppendEvent(a, e, token)
<1>1. PICK a \in Attempts, state \in States, n \in SequenceNumbers, at \in Times :
        \E handle \in HandleOf(state), detail \in DetailOf(state), token \in Tokens(a) :
          AppendEvent(a, Event(a, n, state, at, handle, detail), token)
  BY DEF AppendAny
<1>2. PICK handle \in HandleOf(state), detail \in DetailOf(state), token \in Tokens(a) :
        AppendEvent(a, Event(a, n, state, at, handle, detail), token)
  BY <1>1
<1>3. detail \in {"none"} \cup FailureCodes \cup Authorities \cup Payloads
  BY DEF DetailOf
<1>4. handle \in Handles \cup {NoHandle}
  BY DEF HandleOf
<1>5. Event(a, n, state, at, handle, detail) \in Events
  BY <1>3, <1>4 DEF Event, Events
<1> QED
  BY <1>2, <1>5

\* A caller at the claim either creates one, or changes nothing.
LEMMA ClaimAnySteps ==
    ASSUME ClaimAny
    PROVE  \/ UNCHANGED journalVars
           \/ \E a \in Attempts, id \in ClaimIds, c \in Capabilities, at \in Times,
                 acknowledged \in BOOLEAN : \E token :
                ClaimDispatch([id |-> id, attempt |-> a, capability |-> c,
                               head |-> token.head, next |-> token.next, at |-> at],
                              acknowledged)
  BY DEF ClaimAny, ReplayClaim

\* A journal step by anybody keeps every table typed.
LEMMA StepTypeOK ==
    ASSUME TypeOK, [JournalNext]_journalVars
    PROVE  TypeOK'
<1>1. CASE Register
  BY <1>1, RegisterTypeOK
<1>2. CASE AppendAny
  BY <1>2, AppendAnyTyped, AppendTypeOK
<1>3. CASE ClaimAny
  <2>1. CASE UNCHANGED journalVars
    BY <2>1 DEF journalVars, TypeOK
  <2> QED
    BY <1>3, <2>1, ClaimAnySteps, ClaimTypeOK
<1>4. CASE PublishResponseAny
  BY <1>4, ResponseTypeOK DEF PublishResponseAny
<1>5. CASE PublishSuccessAny
  BY <1>5, SuccessTypeOK DEF PublishSuccessAny
<1>6. CASE UNCHANGED journalVars
  BY <1>6 DEF journalVars, TypeOK
<1> QED
  BY <1>1, <1>2, <1>3, <1>4, <1>5, <1>6 DEF JournalNext

LEMMA InitTypeOK == JournalInit => TypeOK
  BY DEF JournalInit, TypeOK

\* Every reachable journal holds rows and events of the closed schema only:
\* the checks each transaction makes before its INSERTs are enough, for every
\* token a caller may present.
THEOREM TypeCorrect == JournalSpec => []TypeOK
<1>1. TypeOK /\ [JournalNext]_journalVars => TypeOK'
  BY StepTypeOK
<1> QED
  BY InitTypeOK, <1>1, PTL DEF JournalSpec

-----------------------------------------------------------------------------
(* One authorization per attempt.                                           *)

\* The strengthening: without a claim row nobody was authorized, and a claim
\* row never comes without its submitted event.
AuthorizationInv ==
    \A a \in Attempts :
        /\ authorized[a] \in {0, 1}
        /\ claims[a] = NoRow => authorized[a] = 0
        /\ claims[a] # NoRow => InState(events[a], "submitted") # {}

\* Appending keeps what was in a state, and adds the new event to its own.
LEMMA AppendInState ==
    ASSUME NEW h \in Seq(Events), NEW e \in Events, NEW state
    PROVE  /\ InState(h, state) \subseteq InState(Append(h, e), state)
           /\ e.state = state => InState(Append(h, e), state) # {}
<1>1. /\ Len(Append(h, e)) = Len(h) + 1
      /\ Append(h, e)[Len(h) + 1] = e
      /\ \A i \in 1..Len(h) : Append(h, e)[i] = h[i]
      /\ Len(h) \in Nat
  OBVIOUS
<1>2. ASSUME e.state = state
      PROVE  Len(h) + 1 \in InState(Append(h, e), state)
  BY <1>1, <1>2 DEF InState
<1> QED
  BY <1>1, <1>2 DEF InState

\* Steps that write no claim keep the strengthening: they only append events.
LEMMA OtherAuthorization ==
    ASSUME TypeOK, AuthorizationInv, UNCHANGED <<claims, authorized>>,
           \A a \in Attempts : \/ events'[a] = events[a]
                               \/ \E e \in Events : events'[a] = Append(events[a], e)
    PROVE  AuthorizationInv'
<1> SUFFICES ASSUME NEW a \in Attempts, claims[a] # NoRow
             PROVE  InState(events'[a], "submitted") # {}
  BY DEF AuthorizationInv
<1>1. /\ events[a] \in Seq(Events)
      /\ InState(events[a], "submitted") # {}
  BY DEF TypeOK, AuthorizationInv
<1>2. CASE events'[a] = events[a]
  BY <1>1, <1>2
<1>3. CASE \E e \in Events : events'[a] = Append(events[a], e)
  BY <1>1, <1>3, AppendInState
<1> QED
  BY <1>2, <1>3

\* A new claim finds no row, hence nobody authorized, and leaves at most one.
LEMMA ClaimAuthorization ==
    ASSUME TypeOK, AuthorizationInv,
           NEW a \in Attempts, NEW id \in ClaimIds, NEW c \in Capabilities,
           NEW at \in Times, NEW head, NEW next, NEW acknowledged \in BOOLEAN,
           ClaimDispatch([id |-> id, attempt |-> a, capability |-> c,
                          head |-> head, next |-> next, at |-> at], acknowledged)
    PROVE  AuthorizationInv'
<1> DEFINE claim == [id |-> id, attempt |-> a, capability |-> c,
                     head |-> head, next |-> next, at |-> at]
<1>1. /\ claim \in Claims
      /\ SubmittedEvent(claim) \in Events
      /\ SubmittedEvent(claim).state = "submitted"
  BY ClaimTyped DEF ClaimDispatch
<1>2. claim.attempt = a
  OBVIOUS
<1>3. ClaimDispatch(claim, acknowledged)
  OBVIOUS
<1> HIDE DEF claim
<1>4. /\ claims[a] = NoRow
      /\ authorized[a] = 0
  BY <1>2, <1>3 DEF ClaimDispatch, ClaimCreates, AuthorizationInv
<1>5. /\ claims'[a] = claim
      /\ claims'[a] # NoRow
      /\ events'[a] = Append(events[a], SubmittedEvent(claim))
      /\ authorized'[a] \in {0, 1}
  BY <1>1, <1>2, <1>3, <1>4, RowAssumption DEF ClaimDispatch, TypeOK
<1>6. InState(events'[a], "submitted") # {}
  BY <1>1, <1>5, AppendInState DEF TypeOK
<1>7. ASSUME NEW b \in Attempts, b # a
      PROVE  /\ claims'[b] = claims[b]
             /\ events'[b] = events[b]
             /\ authorized'[b] = authorized[b]
  BY <1>2, <1>3, <1>7 DEF ClaimDispatch, TypeOK
<1> QED
  BY <1>5, <1>6, <1>7 DEF AuthorizationInv

\* Steps that write no claim leave each history alone or append one event to it.
LEMMA OtherSteps ==
    ASSUME TypeOK,
           \/ Register \/ AppendAny \/ PublishResponseAny \/ PublishSuccessAny
           \/ UNCHANGED journalVars
    PROVE  /\ UNCHANGED <<claims, authorized>>
           /\ \A a \in Attempts : \/ events'[a] = events[a]
                                  \/ \E e \in Events : events'[a] = Append(events[a], e)
<1> DEFINE Extends ==
      \A b \in Attempts : \/ events'[b] = events[b]
                          \/ \E e \in Events : events'[b] = Append(events[b], e)
<1>1. ASSUME NEW a \in Attempts, NEW e \in Events,
             events' = [events EXCEPT ![a] = Append(@, e)]
      PROVE  Extends
  BY <1>1 DEF TypeOK
<1>2. CASE Register
  BY <1>2 DEF Register, RegisterRun, RegisterAttempt
<1>3. CASE AppendAny
  <2>1. PICK a \in Attempts, e \in Events : \E token : AppendEvent(a, e, token)
    BY <1>3, AppendAnyTyped
  <2> QED
    BY <2>1, <1>1 DEF AppendEvent
<1>4. CASE PublishResponseAny
  <2>1. PICK receipt \in Receipts : \E token : PublishResponse(receipt, token)
    BY <1>4 DEF PublishResponseAny
  <2>2. PICK token : PublishResponse(receipt, token)
    BY <2>1
  <2>3. /\ receipt.attempt \in Attempts
        /\ ResponseEvent(receipt, token.next) \in Events
    BY <2>2, ResponseTyped DEF PublishResponse
  <2> QED
    BY <2>2, <2>3, <1>1 DEF PublishResponse
<1>5. CASE PublishSuccessAny
  <2>1. PICK a \in Attempts, packet \in Intents, at \in Times :
          \E seen, token : PublishSuccess(a, seen, packet, at, token)
    BY <1>5 DEF PublishSuccessAny
  <2>2. PICK seen, token : PublishSuccess(a, seen, packet, at, token)
    BY <2>1
  <2>3. SucceededEvent(a, token.next, at, responses[a].payload) \in Events
    BY <2>2, SuccessTyped DEF PublishSuccess
  <2> QED
    BY <2>2, <2>3, <1>1 DEF PublishSuccess
<1>6. CASE UNCHANGED journalVars
  BY <1>6 DEF journalVars
<1> QED
  BY <1>2, <1>3, <1>4, <1>5, <1>6

LEMMA StepAuthorization ==
    ASSUME TypeOK, AuthorizationInv, [JournalNext]_journalVars
    PROVE  AuthorizationInv'
<1>1. CASE ClaimAny
  <2>1. CASE UNCHANGED journalVars
    BY <2>1, OtherSteps, OtherAuthorization
  <2> QED
    BY <1>1, <2>1, ClaimAnySteps, ClaimAuthorization
<1>2. CASE ~ClaimAny
  BY <1>2, OtherSteps, OtherAuthorization DEF JournalNext
<1> QED
  BY <1>1, <1>2

\* The strengthening holds throughout.
LEMMA AuthorizationInductive == JournalSpec => []AuthorizationInv
<1>1. JournalInit => AuthorizationInv
  BY DEF JournalInit, AuthorizationInv
<1>2. TypeOK /\ AuthorizationInv /\ [JournalNext]_journalVars => AuthorizationInv'
  BY StepAuthorization
<1> QED
  BY <1>1, <1>2, TypeCorrect, PTL DEF JournalSpec

\* However many callers hold however stale tokens, and whichever COMMIT answers
\* are lost, at most one of them is ever told to send an attempt, and only with
\* its claim row and its submitted event durable.
THEOREM AuthorizedOnce == JournalSpec => []OneAuthorization
<1>1. AuthorizationInv => OneAuthorization
  <2> SUFFICES ASSUME AuthorizationInv, NEW a \in Attempts
               PROVE  /\ authorized[a] <= 1
                      /\ authorized[a] = 1 =>
                            claims[a] # NoRow /\ InState(events[a], "submitted") # {}
    BY DEF OneAuthorization
  <2> QED
    BY DEF AuthorizationInv
<1> QED
  BY <1>1, AuthorizationInductive, PTL

\* A durable claim is final: no later step authorizes anybody for its attempt,
\* the winner whose acknowledgement was lost included.
THEOREM ClaimIsFinal == JournalSpec => NoReauthorization
<1>1. ASSUME TypeOK, JournalNext, NEW a \in Attempts, claims[a] # NoRow
      PROVE  authorized'[a] = authorized[a]
  <2>1. CASE ClaimAny
    <3>1. CASE UNCHANGED journalVars
      BY <3>1 DEF journalVars
    <3>2. ASSUME NEW claim, NEW acknowledged \in BOOLEAN, ClaimDispatch(claim, acknowledged)
          PROVE  authorized'[a] = authorized[a]
      BY <1>1, <3>2 DEF ClaimDispatch, ClaimCreates, TypeOK
    <3> QED BY <2>1, <3>1, <3>2, ClaimAnySteps
  <2>2. CASE ~ClaimAny
    BY <1>1, <2>2, OtherSteps DEF JournalNext
  <2> QED BY <2>1, <2>2
<1>2. TypeOK /\ [JournalNext]_journalVars =>
        [\A a \in Attempts : claims[a] # NoRow => authorized'[a] = authorized[a]]_journalVars
  BY <1>1
<1> QED
  BY <1>2, TypeCorrect, PTL DEF JournalSpec, NoReauthorization

-----------------------------------------------------------------------------
(* The journal never declares itself corrupt.                               *)

\* Appending leaves the earlier events, the prefixes and the other states' slots
\* alone.
LEMMA AppendKeeps ==
    ASSUME NEW h \in Seq(Events), NEW e \in Events
    PROVE  /\ Append(h, e) \in Seq(Events)
           /\ Len(Append(h, e)) = Len(h) + 1
           /\ Append(h, e)[Len(h) + 1] = e
           /\ \A i \in 1..Len(h) : Append(h, e)[i] = h[i]
           /\ \A i \in 1..(Len(h) + 1) : Prefix(Append(h, e), i - 1) = Prefix(h, i - 1)
           /\ Prefix(Append(h, e), Len(h)) = h
           /\ \A state : e.state # state => InState(Append(h, e), state) = InState(h, state)
<1>1. /\ Append(h, e) \in Seq(Events)
      /\ Len(h) \in Nat
      /\ Len(Append(h, e)) = Len(h) + 1
      /\ Append(h, e)[Len(h) + 1] = e
      /\ \A i \in 1..Len(h) : Append(h, e)[i] = h[i]
  OBVIOUS
<1>2. ASSUME NEW i \in 1..(Len(h) + 1)
      PROVE  Prefix(Append(h, e), i - 1) = Prefix(h, i - 1)
  BY <1>1 DEF Prefix
<1>3. Prefix(h, Len(h)) = h
  BY <1>1 DEF Prefix
<1>4. Prefix(Append(h, e), Len(h)) = h
  BY <1>1, <1>3 DEF Prefix
<1>5. ASSUME NEW state, e.state # state
      PROVE  InState(Append(h, e), state) = InState(h, state)
  BY <1>1, <1>5 DEF InState
<1> QED
  BY <1>1, <1>2, <1>4, <1>5

\* And adds one to the new event's own.
LEMMA AppendSlot ==
    ASSUME NEW h \in Seq(Events), NEW e \in Events, NEW state, e.state = state
    PROVE  InState(Append(h, e), state) = InState(h, state) \cup {Len(h) + 1}
<1>1. /\ Len(h) \in Nat
      /\ Len(Append(h, e)) = Len(h) + 1
      /\ Append(h, e)[Len(h) + 1] = e
      /\ \A i \in 1..Len(h) : Append(h, e)[i] = h[i]
  OBVIOUS
<1> QED
  BY <1>1 DEF InState

\* What the verification says of an attempt's rows: the strengthening adds that
\* an attempt nobody registered has none.
SoundInv ==
    \A a \in Attempts :
        IF attempts[a] # NoRow THEN Verifies(a)
        ELSE /\ events[a] = <<>>
             /\ claims[a] = NoRow
             /\ responses[a] = NoRow
             /\ successes[a] = NoRow

RowsOf(a) == <<attempts[a], events[a], claims[a], responses[a], successes[a]>>

\* An attempt whose own rows and whose run's row a step leaves alone stays sound.
LEMMA UntouchedSound ==
    ASSUME TypeOK, SoundInv, NEW a \in Attempts, UNCHANGED RowsOf(a),
           attempts[a] # NoRow => runs'[attempts[a].run] = runs[attempts[a].run]
    PROVE  IF attempts'[a] # NoRow THEN Verifies(a)'
           ELSE /\ events'[a] = <<>>
                /\ claims'[a] = NoRow
                /\ responses'[a] = NoRow
                /\ successes'[a] = NoRow
<1>1. CASE attempts[a] = NoRow
  BY <1>1 DEF SoundInv, RowsOf
<1>2. CASE attempts[a] # NoRow
  <2>1. /\ attempts'[a] = attempts[a] /\ events'[a] = events[a] /\ claims'[a] = claims[a]
        /\ responses'[a] = responses[a] /\ successes'[a] = successes[a]
    BY DEF RowsOf
  <2>2. Verifies(a)
    BY <1>2 DEF SoundInv
  <2>3. /\ attempts'[a].intent = runs'[attempts'[a].run]
        /\ LegalHistory(a, events'[a])
    BY <1>2, <2>1, <2>2 DEF Verifies
  <2>4. ClaimVerifies(a)'
    BY <2>1, <2>2 DEF Verifies, ClaimVerifies
  <2>5. ResponseVerifies(a)'
    BY <2>1, <2>2 DEF Verifies, ResponseVerifies, ReceiptBinds
  <2>6. SuccessVerifies(a)'
    BY <2>1, <2>2 DEF Verifies, SuccessVerifies, Candidates
  <2> QED
    BY <1>2, <2>1, <2>3, <2>4, <2>5, <2>6 DEF Verifies
<1> QED
  BY <1>1, <1>2

\* Registration writes only what no attempt depends on yet.
LEMMA RegisterSound ==
    ASSUME TypeOK, SoundInv, Register
    PROVE  SoundInv'
<1> SUFFICES ASSUME NEW a \in Attempts
             PROVE  IF attempts'[a] # NoRow THEN Verifies(a)'
                    ELSE /\ events'[a] = <<>>
                         /\ claims'[a] = NoRow
                         /\ responses'[a] = NoRow
                         /\ successes'[a] = NoRow
  BY DEF SoundInv
<1>1. ASSUME NEW r \in Runs, NEW intent \in Intents, RegisterRun(r, intent)
      PROVE  /\ UNCHANGED RowsOf(a)
             /\ attempts[a] # NoRow => runs'[attempts[a].run] = runs[attempts[a].run]
  <2>1. UNCHANGED RowsOf(a)
    BY <1>1 DEF RegisterRun, RowsOf
  <2>2. ASSUME attempts[a] # NoRow
        PROVE  attempts[a].run # r /\ attempts[a].run \in Runs
    <3>1. attempts[a] \in Descriptors
      BY <2>2 DEF TypeOK
    <3>2. runs[attempts[a].run] = attempts[a].intent
      BY <2>2 DEF SoundInv, Verifies
    <3> QED
      BY <1>1, <3>1, <3>2, RowAssumption DEF RegisterRun, Descriptors
  <2> QED
    BY <1>1, <2>1, <2>2 DEF RegisterRun, TypeOK
<1>2. ASSUME NEW b \in Attempts, NEW d \in Descriptors, RegisterAttempt(b, d), a # b
      PROVE  /\ UNCHANGED RowsOf(a)
             /\ runs' = runs
  BY <1>2 DEF RegisterAttempt, RowsOf, TypeOK
<1>3. ASSUME NEW d \in Descriptors, RegisterAttempt(a, d)
      PROVE  Verifies(a)' /\ attempts'[a] # NoRow
  <2>1. /\ attempts'[a] = d
        /\ runs'[d.run] = d.intent
        /\ d # NoRow
    BY <1>3, RowAssumption DEF RegisterAttempt, TypeOK
  <2>2. /\ events'[a] = <<>>
        /\ claims'[a] = NoRow
        /\ responses'[a] = NoRow
        /\ successes'[a] = NoRow
    BY <1>3 DEF RegisterAttempt, SoundInv
  <2>3. LegalHistory(a, events'[a])
    BY <2>2 DEF LegalHistory, LegalTrace, HandlesSeen, MaxEvents
  <2>4. \A state : InState(events'[a], state) = {}
    BY <2>2 DEF InState
  <2> QED
    BY <2>1, <2>2, <2>3, <2>4
       DEF Verifies, ClaimVerifies, ResponseVerifies, SuccessVerifies
<1> QED
  BY <1>1, <1>2, <1>3, UntouchedSound DEF Register

\* An event of a state whose rows the journal does not derive leaves the three
\* verifications as they were.
LEMMA ClaimStillVerifies ==
    ASSUME TypeOK, NEW a \in Attempts, NEW e \in Events, e.state # "submitted",
           events'[a] = Append(events[a], e), ClaimVerifies(a),
           UNCHANGED <<attempts[a], claims[a]>>
    PROVE  ClaimVerifies(a)'
<1>1. events[a] \in Seq(Events)
  BY DEF TypeOK
<1>2. InState(events'[a], "submitted") = InState(events[a], "submitted")
  BY <1>1, AppendKeeps
<1>3. \A i \in 1..Len(events[a]) : events'[a][i] = events[a][i]
  BY <1>1, AppendKeeps
<1>4. \A i \in InState(events[a], "submitted") :
         i \in 1..Len(events[a]) /\ (i > 1 => i - 1 \in 1..Len(events[a]))
  BY <1>1 DEF InState
<1> QED
  BY <1>2, <1>3, <1>4 DEF ClaimVerifies

LEMMA ResponseStillVerifies ==
    ASSUME TypeOK, NEW a \in Attempts, NEW e \in Events, e.state # "response_received",
           events'[a] = Append(events[a], e), ResponseVerifies(a),
           UNCHANGED responses[a]
    PROVE  ResponseVerifies(a)'
<1>1. events[a] \in Seq(Events)
  BY DEF TypeOK
<1>2. InState(events'[a], "response_received") = InState(events[a], "response_received")
  BY <1>1, AppendKeeps
<1>3. \A i \in InState(events[a], "response_received") :
         /\ events'[a][i] = events[a][i]
         /\ Prefix(events'[a], i - 1) = Prefix(events[a], i - 1)
  BY <1>1, AppendKeeps DEF InState
<1> QED
  BY <1>2, <1>3 DEF ResponseVerifies

LEMMA SuccessStillVerifies ==
    ASSUME TypeOK, NEW a \in Attempts, NEW e \in Events, e.state # "succeeded",
           events'[a] = Append(events[a], e), SuccessVerifies(a),
           UNCHANGED <<attempts[a], successes[a]>>,
           claims[a] # NoRow => claims'[a] # NoRow,
           successes[a] # NoRow => UNCHANGED responses[a]
    PROVE  SuccessVerifies(a)'
<1>1. events[a] \in Seq(Events)
  BY DEF TypeOK
<1>2. InState(events'[a], "succeeded") = InState(events[a], "succeeded")
  BY <1>1, AppendKeeps
<1>3. \A i \in InState(events[a], "succeeded") :
         /\ events'[a][i] = events[a][i]
         /\ Prefix(events'[a], i - 1) = Prefix(events[a], i - 1)
  BY <1>1, AppendKeeps DEF InState
<1>4. \A h, receipt, packet, at :
         Candidates(a, h, receipt, packet, at)' <=> Candidates(a, h, receipt, packet, at)
  BY DEF Candidates
<1>5. CASE successes[a] = NoRow
  BY <1>2, <1>5 DEF SuccessVerifies
<1>6. CASE successes[a] # NoRow
  <2>1. PICK i \in InState(events[a], "succeeded") :
          /\ InState(events[a], "succeeded") = {i}
          /\ responses[a] # NoRow
          /\ claims[a] # NoRow
          /\ successes[a].payload = responses[a].payload
          /\ events[a][i] = SucceededEvent(a, i, events[a][i].at, successes[a].payload)
          /\ Candidates(a, Prefix(events[a], i - 1), responses[a],
                        successes[a].packet, events[a][i].at)
    BY <1>6 DEF SuccessVerifies
  <2>2. Candidates(a, Prefix(events[a], i - 1), responses[a],
                   successes[a].packet, events[a][i].at)'
    BY <1>3, <1>6, <2>1 DEF Candidates
  <2> QED
    BY <1>2, <1>3, <1>6, <2>1, <2>2 DEF SuccessVerifies
<1> QED
  BY <1>5, <1>6

\* A step that writes nothing but the rows of one registered attempt leaves the
\* others sound.
LEMMA OneAttemptSound ==
    ASSUME TypeOK, SoundInv, NEW a \in Attempts,
           UNCHANGED <<runs, attempts>>, attempts[a] # NoRow,
           \A b \in Attempts : b # a => UNCHANGED RowsOf(b),
           Verifies(a)'
    PROVE  SoundInv'
<1>1. ASSUME NEW b \in Attempts, b # a
      PROVE  IF attempts'[b] # NoRow THEN Verifies(b)'
             ELSE /\ events'[b] = <<>>
                  /\ claims'[b] = NoRow
                  /\ responses'[b] = NoRow
                  /\ successes'[b] = NoRow
  BY <1>1, UntouchedSound
<1> QED
  BY <1>1 DEF SoundInv

LEMMA AppendSound ==
    ASSUME TypeOK, SoundInv, NEW a \in Attempts, NEW e \in Events, NEW token,
           AppendEvent(a, e, token)
    PROVE  SoundInv'
<1>1. /\ attempts[a] # NoRow
      /\ Verifies(a)
      /\ e.state \notin Reserved
      /\ LegalHistory(a, Append(events[a], e))
  BY DEF AppendEvent, AppendCreates, Readable
<1>2. /\ UNCHANGED <<runs, attempts, claims, responses, successes>>
      /\ events'[a] = Append(events[a], e)
      /\ \A b \in Attempts : b # a => events'[b] = events[b]
  BY DEF AppendEvent, TypeOK
<1>3. /\ ClaimVerifies(a)'
      /\ ResponseVerifies(a)'
      /\ SuccessVerifies(a)'
  BY <1>1, <1>2, ClaimStillVerifies, ResponseStillVerifies, SuccessStillVerifies
     DEF Reserved, Verifies
<1>4. Verifies(a)'
  BY <1>1, <1>2, <1>3 DEF Verifies
<1> QED
  BY <1>1, <1>2, <1>4, OneAttemptSound DEF RowsOf

\* The claim row names the prepared head it was made against and the submitted
\* event that commits with it, and there was no such event before.
LEMMA ClaimSound ==
    ASSUME TypeOK, SoundInv, NEW claim \in Claims, SubmittedEvent(claim) \in Events,
           NEW acknowledged \in BOOLEAN, ClaimDispatch(claim, acknowledged)
    PROVE  SoundInv'
<1> DEFINE a == claim.attempt
           e == SubmittedEvent(claim)
           n == Len(events[a]) + 1
<1>1. a \in Attempts /\ claim # NoRow
  BY RowAssumption DEF Claims
<1>2. e.state = "submitted"
  BY DEF SubmittedEvent, Event
<1>3. /\ attempts[a] # NoRow
      /\ Verifies(a)
      /\ claims[a] = NoRow
      /\ CapabilityBinds(claim)
      /\ [head |-> claim.head, next |-> claim.next] = TokenOf(events[a])
      /\ HeadOf(events[a]).state = "prepared"
      /\ LegalHistory(a, Append(events[a], e))
  BY DEF ClaimDispatch, ClaimCreates, Readable, CheckHead
<1>4. /\ UNCHANGED <<runs, attempts, responses, successes>>
      /\ events'[a] = Append(events[a], e)
      /\ claims'[a] = claim
      /\ \A b \in Attempts : b # a => events'[b] = events[b] /\ claims'[b] = claims[b]
  BY <1>1 DEF ClaimDispatch, TypeOK
<1>5. events[a] \in Seq(Events) /\ Len(events[a]) \in Nat
  BY <1>1 DEF TypeOK
<1>6. /\ events[a] # <<>>
      /\ events[a][n - 1].state = "prepared"
      /\ events[a][n - 1] = claim.head
      /\ claim.next = n
      /\ n > 1
  BY <1>3, <1>5 DEF HeadOf, EmptyHead, TokenOf
<1> HIDE DEF a, e
<1>7. /\ InState(events'[a], "submitted") = {n}
      /\ events'[a][n] = e
      /\ events'[a][n - 1] = events[a][n - 1]
  <2>1. InState(events[a], "submitted") = {}
    BY <1>3 DEF Verifies, ClaimVerifies
  <2>2. e \in Events
    BY DEF e
  <2>3. n - 1 \in 1..Len(events[a])
    BY <1>5, <1>6
  <2>4. /\ events'[a][n] = e
        /\ \A i \in 1..Len(events[a]) : events'[a][i] = events[a][i]
    BY <1>4, <1>5, <2>2, AppendKeeps
  <2>5. InState(Append(events[a], e), "submitted") =
           InState(events[a], "submitted") \cup {Len(events[a]) + 1}
    BY <2>2, <1>2, <1>5, AppendSlot
  <2> QED
    BY <2>1, <2>3, <2>4, <2>5, <1>4
<1>8. ClaimVerifies(a)'
  <2>1. claims'[a] # NoRow
    BY <1>1, <1>4
  <2>2. claim.capability = attempts'[a].capability /\ claim.capability \in NonIdempotent
    BY <1>3, <1>4 DEF CapabilityBinds, a
  <2> HIDE DEF n
  <2> QED
    BY <1>4, <1>6, <1>7, <2>1, <2>2 DEF ClaimVerifies, e
<1>9. ResponseVerifies(a)' /\ SuccessVerifies(a)'
  BY <1>1, <1>2, <1>3, <1>4, ResponseStillVerifies, SuccessStillVerifies DEF Verifies, e
<1>10. Verifies(a)'
  BY <1>3, <1>4, <1>8, <1>9 DEF Verifies
<1> QED
  BY <1>1, <1>3, <1>4, <1>10, OneAttemptSound DEF RowsOf

LEMMA ResponseSound ==
    ASSUME TypeOK, SoundInv, NEW receipt \in Receipts, NEW token,
           PublishResponse(receipt, token)
    PROVE  SoundInv'
<1> DEFINE a == receipt.attempt
           e == ResponseEvent(receipt, token.next)
           n == Len(events[a]) + 1
<1>1. a \in Attempts /\ receipt # NoRow /\ e \in Events
  BY RowAssumption, ResponseTyped DEF Receipts, PublishResponse
<1>2. e.state = "response_received"
  BY DEF ResponseEvent, Event
<1>3. /\ attempts[a] # NoRow
      /\ Verifies(a)
      /\ responses[a] = NoRow
      /\ ReceiptBinds(a, receipt, events[a])
      /\ token = TokenOf(events[a])
      /\ LegalHistory(a, Append(events[a], e))
  BY DEF PublishResponse, ResponseCreates, Readable, CheckHead
<1>4. /\ UNCHANGED <<runs, attempts, claims, successes>>
      /\ events'[a] = Append(events[a], e)
      /\ responses'[a] = receipt
      /\ \A b \in Attempts : b # a => events'[b] = events[b] /\ responses'[b] = responses[b]
  BY <1>1 DEF PublishResponse, TypeOK
<1>5. events[a] \in Seq(Events) /\ Len(events[a]) \in Nat
  BY <1>1 DEF TypeOK
<1>6. token.next = n
  BY <1>3, <1>5 DEF HeadOf, EmptyHead, TokenOf
<1> HIDE DEF a, e
<1>7. /\ InState(events'[a], "response_received") = {n}
      /\ events'[a][n] = e
      /\ Prefix(events'[a], n - 1) = events[a]
  <2>1. InState(events[a], "response_received") = {}
    BY <1>3 DEF Verifies, ResponseVerifies
  <2>2. n - 1 = Len(events[a])
    BY <1>5
  <2>3. events'[a][n] = e /\ Prefix(events'[a], Len(events[a])) = events[a]
    BY <1>1, <1>4, <1>5, AppendKeeps
  <2>4. InState(Append(events[a], e), "response_received") =
           InState(events[a], "response_received") \cup {Len(events[a]) + 1}
    BY <1>1, <1>2, <1>5, AppendSlot
  <2> QED
    BY <2>1, <2>2, <2>3, <2>4, <1>4
<1>8. ResponseVerifies(a)'
  <2>1. responses'[a] # NoRow
    BY <1>1, <1>4
  <2>2. ReceiptBinds(a, responses'[a], Prefix(events'[a], n - 1))
    BY <1>3, <1>4, <1>7
  <2>3. events'[a][n] = ResponseEvent(responses'[a], n)
    BY <1>4, <1>6, <1>7 DEF e
  <2> HIDE DEF n
  <2> QED
    BY <1>7, <2>1, <2>2, <2>3 DEF ResponseVerifies
<1>9. ClaimVerifies(a)' /\ SuccessVerifies(a)'
  <2>1. SuccessVerifies(a)
    BY <1>3 DEF Verifies
  <2>2. successes[a] = NoRow
    BY <1>3, <2>1 DEF SuccessVerifies
  <2> QED
    BY <1>1, <1>2, <1>3, <1>4, <2>2, ClaimStillVerifies, SuccessStillVerifies DEF Verifies
<1>10. Verifies(a)'
  BY <1>3, <1>4, <1>8, <1>9 DEF Verifies
<1> QED
  BY <1>1, <1>3, <1>4, <1>10, OneAttemptSound DEF RowsOf

\* What media admission rederives is what was checked on the snapshot, because the
\* snapshot is still the whole history.
LEMMA SuccessSound ==
    ASSUME TypeOK, SoundInv, NEW a \in Attempts, NEW seen, NEW packet \in Intents,
           NEW at \in Times, NEW token, PublishSuccess(a, seen, packet, at, token)
    PROVE  SoundInv'
<1> DEFINE payload == responses[a].payload
           e == SucceededEvent(a, token.next, at, payload)
           n == Len(events[a]) + 1
           row == [attempt |-> a, packet |-> packet, payload |-> payload]
<1>1. e \in Events /\ payload \in Payloads
  BY SuccessTyped DEF PublishSuccess
<1>2. row \in Packages /\ row # NoRow
  BY <1>1, RowAssumption DEF Packages
<1>3. /\ attempts[a] # NoRow
      /\ Verifies(a)
      /\ successes[a] = NoRow
      /\ claims[a] # NoRow
      /\ InState(events[a], "response_received") # {}
      /\ Candidates(a, events[a], responses[a], packet, at)
      /\ token = TokenOf(events[a])
      /\ LegalHistory(a, Append(events[a], e))
  BY DEF PublishSuccess, SuccessCreates, SnapshotAdmits, Readable, CheckHead
<1>4. /\ UNCHANGED <<runs, attempts, claims, responses>>
      /\ events'[a] = Append(events[a], e)
      /\ successes'[a] = row
      /\ \A b \in Attempts : b # a => events'[b] = events[b] /\ successes'[b] = successes[b]
  BY DEF PublishSuccess, TypeOK
<1>5. events[a] \in Seq(Events) /\ Len(events[a]) \in Nat
  BY DEF TypeOK
<1>6. token.next = n
  BY <1>3, <1>5 DEF HeadOf, EmptyHead, TokenOf
<1>7. e.state = "succeeded" /\ e.at = at
  BY DEF SucceededEvent, Event
<1>8. row.payload = payload /\ row.packet = packet
  OBVIOUS
<1>9. responses[a] # NoRow
  BY <1>3 DEF Verifies, ResponseVerifies
<1> HIDE DEF row
<1>10. e = SucceededEvent(a, n, at, row.payload)
  BY <1>6, <1>8
<1> HIDE DEF e, payload
<1>11. /\ InState(events'[a], "succeeded") = {n}
       /\ events'[a][n] = e
       /\ Prefix(events'[a], n - 1) = events[a]
  <2>1. InState(events[a], "succeeded") = {}
    BY <1>3 DEF Verifies, SuccessVerifies
  <2>2. n - 1 = Len(events[a])
    BY <1>5
  <2>3. events'[a][n] = e /\ Prefix(events'[a], Len(events[a])) = events[a]
    BY <1>1, <1>4, <1>5, AppendKeeps
  <2>4. InState(Append(events[a], e), "succeeded") =
           InState(events[a], "succeeded") \cup {Len(events[a]) + 1}
    BY <1>1, <1>7, <1>5, AppendSlot
  <2> QED
    BY <2>1, <2>2, <2>3, <2>4, <1>4
<1>12. SuccessVerifies(a)'
  <2>1. Candidates(a, Prefix(events'[a], n - 1), responses'[a], row.packet,
                   events'[a][n].at)
    BY <1>3, <1>4, <1>7, <1>8, <1>11
  <2>2. \A h, receipt, k, t : Candidates(a, h, receipt, k, t)' <=>
                              Candidates(a, h, receipt, k, t)
    BY <1>4 DEF Candidates
  <2>3. events'[a][n] = SucceededEvent(a, n, events'[a][n].at, row.payload)
    BY <1>7, <1>10, <1>11
  <2> HIDE DEF n
  <2> QED
    BY <1>2, <1>3, <1>4, <1>8, <1>9, <1>11, <2>1, <2>2, <2>3 DEF SuccessVerifies, payload
<1>13. ClaimVerifies(a)' /\ ResponseVerifies(a)'
  BY <1>1, <1>3, <1>4, <1>7, ClaimStillVerifies, ResponseStillVerifies DEF Verifies
<1>14. Verifies(a)'
  BY <1>3, <1>4, <1>12, <1>13 DEF Verifies
<1> QED
  BY <1>3, <1>4, <1>14, OneAttemptSound DEF RowsOf

LEMMA StepSound ==
    ASSUME TypeOK, SoundInv, [JournalNext]_journalVars
    PROVE  SoundInv'
<1>1. CASE Register
  BY <1>1, RegisterSound
<1>2. CASE AppendAny
  BY <1>2, AppendAnyTyped, AppendSound
<1>3. CASE UNCHANGED journalVars
  BY <1>3, UntouchedSound DEF journalVars, RowsOf, SoundInv
<1>4. CASE ClaimAny
  <2>1. ASSUME NEW a \in Attempts, NEW id \in ClaimIds, NEW c \in Capabilities,
               NEW at \in Times, NEW acknowledged \in BOOLEAN, NEW token,
               ClaimDispatch([id |-> id, attempt |-> a, capability |-> c,
                              head |-> token.head, next |-> token.next, at |-> at],
                             acknowledged)
        PROVE  SoundInv'
    <3> DEFINE claim == [id |-> id, attempt |-> a, capability |-> c,
                         head |-> token.head, next |-> token.next, at |-> at]
    <3>1. claim \in Claims /\ SubmittedEvent(claim) \in Events
      BY <2>1, ClaimTyped DEF ClaimDispatch
    <3>2. ClaimDispatch(claim, acknowledged)
      BY <2>1
    <3> HIDE DEF claim
    <3> QED
      BY <3>1, <3>2, ClaimSound
  <2> QED
    BY <1>3, <1>4, <2>1, ClaimAnySteps
<1>5. CASE PublishResponseAny
  BY <1>5, ResponseSound DEF PublishResponseAny
<1>6. CASE PublishSuccessAny
  BY <1>6, SuccessSound DEF PublishSuccessAny
<1> QED
  BY <1>1, <1>2, <1>3, <1>4, <1>5, <1>6 DEF JournalNext

LEMMA SoundInductive == JournalSpec => []SoundInv
<1>1. JournalInit => SoundInv
  BY DEF JournalInit, SoundInv
<1>2. TypeOK /\ SoundInv /\ [JournalNext]_journalVars => SoundInv'
  BY StepSound
<1> QED
  BY <1>1, <1>2, TypeCorrect, PTL DEF JournalSpec

\* The verification that opens every operation passes for every registered
\* attempt, whatever tokens and snapshots the callers presented: only something
\* outside the journal can make it raise JournalCorruptionError.
THEOREM NeverCorrupt == JournalSpec => []JournalSound
<1>1. SoundInv => JournalSound
  BY DEF SoundInv, JournalSound
<1> QED
  BY <1>1, SoundInductive, PTL

-----------------------------------------------------------------------------
(* A succeeded history is in order of its timestamps.                       *)

\* Recorded times are naturals.
LEMMA EventTimes ==
    ASSUME NEW h \in Seq(Events), NEW i \in 1..Len(h)
    PROVE  h[i].at \in Nat
<1>1. h[i] \in Events
  OBVIOUS
<1> HIDE DEF Events
<1>2. h[i].at \in Times
  BY <1>1 DEF Events
<1> QED
  BY <1>2, StateAssumption

\* Nothing follows a terminal event in a legal history.
LEMMA TerminalIsLast ==
    ASSUME NEW a, NEW h \in Seq(Events), LegalHistory(a, h),
           NEW i \in InState(h, "succeeded")
    PROVE  i = Len(h)
<1>1. Len(h) \in Nat /\ i \in 1..Len(h) /\ h[i].state = "succeeded"
  BY DEF InState
<1>2. LegalTransitions["succeeded"] = {}
  BY DEF LegalTransitions
<1>3. ASSUME i # Len(h)
      PROVE  FALSE
  <2>1. i + 1 \in 2..Len(h) /\ (i + 1) - 1 = i
    BY <1>1, <1>3
  <2> QED
    BY <1>1, <1>2, <2>1 DEF LegalHistory, LegalTrace
<1> QED
  BY <1>3

\* Five timestamps whose neighbours are in order are all in order.
LEMMA NeighboursOrder ==
    ASSUME NEW h \in Seq(Events), Len(h) <= 5,
           \A i \in 2..Len(h) : h[i - 1].at <= h[i].at
    PROVE  \A i, j \in 1..Len(h) : i < j => h[i].at <= h[j].at
<1>1. Len(h) \in Nat
  OBVIOUS
<1>2. \A i \in 1..Len(h) : h[i].at \in Nat
  BY EventTimes
<1> DEFINE t(i) == h[i].at
<1>3. \A i \in 2..Len(h) : t(i - 1) <= t(i)
  OBVIOUS
<1>4. \A i \in 1..Len(h) : t(i) \in Nat
  BY <1>2
<1> HIDE DEF t
<1>5. /\ 2 <= Len(h) => t(1) <= t(2)
      /\ 3 <= Len(h) => t(2) <= t(3)
      /\ 4 <= Len(h) => t(3) <= t(4)
      /\ 5 <= Len(h) => t(4) <= t(5)
  <2>1. 2 <= Len(h) => t(2 - 1) <= t(2)
    BY <1>1, <1>3
  <2>2. 3 <= Len(h) => t(3 - 1) <= t(3)
    BY <1>1, <1>3
  <2>3. 4 <= Len(h) => t(4 - 1) <= t(4)
    BY <1>1, <1>3
  <2>4. 5 <= Len(h) => t(5 - 1) <= t(5)
    BY <1>1, <1>3
  <2> QED
    BY <2>1, <2>2, <2>3, <2>4
<1>6. ASSUME NEW i \in 1..Len(h), NEW j \in 1..Len(h), i < j
      PROVE  t(i) <= t(j)
  <2>1. i \in {1, 2, 3, 4} /\ j \in {2, 3, 4, 5}
    BY <1>1, <1>6
  <2>2. CASE j = 2
    BY <1>1, <1>4, <1>5, <1>6, <2>1, <2>2
  <2>3. CASE j = 3
    BY <1>1, <1>4, <1>5, <1>6, <2>1, <2>3
  <2>4. CASE j = 4
    BY <1>1, <1>4, <1>5, <1>6, <2>1, <2>4
  <2>5. CASE j = 5
    BY <1>1, <1>4, <1>5, <1>6, <2>1, <2>5
  <2> QED
    BY <2>1, <2>2, <2>3, <2>4, <2>5
<1> QED
  BY <1>6 DEF t

\* A history whose timestamps run backwards anywhere can never succeed: media
\* admission reads them all again, although append_event and the claim do not.
THEOREM SucceedsInOrder == JournalSpec => []SuccessInOrder
<1>1. ASSUME TypeOK, SoundInv, NEW a \in Attempts, successes[a] # NoRow
      PROVE  \A i, j \in 1..Len(events[a]) : i < j => events[a][i].at <= events[a][j].at
  <2> DEFINE h == events[a]
  <2>1. h \in Seq(Events) /\ Len(h) \in Nat
    BY <1>1 DEF TypeOK
  <2>2. LegalHistory(a, h) /\ SuccessVerifies(a)
    BY <1>1 DEF SoundInv, Verifies
  <2>3. PICK n \in InState(h, "succeeded") :
          Candidates(a, Prefix(h, n - 1), responses[a], successes[a].packet, h[n].at)
    BY <1>1, <2>2 DEF SuccessVerifies
  <2>4. n = Len(h) /\ n \in 1..Len(h)
    BY <2>1, <2>2, <2>3, TerminalIsLast DEF InState
  <2> DEFINE before == Prefix(h, n - 1)
  <2>5. /\ before \in Seq(Events)
        /\ Len(before) = n - 1
        /\ \A i \in 1..(n - 1) : before[i] = h[i]
    BY <2>1, <2>4 DEF Prefix
  <2>6. /\ \A i \in 2..Len(before) : before[i - 1].at <= before[i].at
        /\ h[n].at >= before[Len(before)].at
    BY <2>3 DEF Candidates
  <2>7. Len(h) <= 5
    BY <2>2 DEF LegalHistory, MaxEvents
  <2> HIDE DEF h, before
  <2>8. ASSUME NEW i \in 2..Len(h)
        PROVE  h[i - 1].at <= h[i].at
    <3>1. CASE i = n
      <4>1. Len(before) \in 1..(n - 1) /\ Len(before) = i - 1
        BY <2>4, <2>5, <3>1
      <4>2. h[n].at \in Nat /\ h[i - 1].at \in Nat
        BY <2>1, <2>4, <2>5, <4>1, EventTimes
      <4> QED
        BY <2>5, <2>6, <3>1, <4>1, <4>2
    <3>2. CASE i # n
      <4>1. i \in 2..Len(before) /\ i \in 1..(n - 1) /\ i - 1 \in 1..(n - 1)
        BY <2>4, <2>5, <3>2
      <4> QED
        BY <2>5, <2>6, <4>1
    <3> QED
      BY <3>1, <3>2
  <2> QED
    BY <2>1, <2>7, <2>8, NeighboursOrder DEF h
<1>2. TypeOK /\ SoundInv => SuccessInOrder
  BY <1>1 DEF SuccessInOrder
<1> QED
  BY <1>2, TypeCorrect, SoundInductive, PTL

-----------------------------------------------------------------------------
(* One send for each run.                                                   *)

\* No two registered attempts share a run.
RunInv ==
    \A a, b \in Attempts :
        (attempts[a] # NoRow /\ attempts[b] # NoRow /\ attempts[a].run = attempts[b].run)
            => a = b

LEMMA StepRun ==
    ASSUME TypeOK, RunInv, [JournalNext]_journalVars
    PROVE  RunInv'
<1>1. ASSUME NEW a \in Attempts, NEW d \in Descriptors, RegisterAttempt(a, d)
      PROVE  RunInv'
  <2>1. /\ attempts'[a] = d
        /\ \A b \in Attempts : b # a => attempts'[b] = attempts[b]
        /\ \A b \in Attempts : attempts[b] # NoRow => attempts[b].run # d.run
    BY <1>1 DEF RegisterAttempt, TypeOK
  <2> QED
    BY <2>1 DEF RunInv
<1>2. CASE \A a \in Attempts, d \in Descriptors : ~RegisterAttempt(a, d)
  <2>1. attempts' = attempts
    <3>1. CASE Register
      BY <1>2, <3>1 DEF Register, RegisterRun
    <3>2. CASE AppendAny
      BY <3>2 DEF AppendAny, AppendEvent
    <3>3. CASE ClaimAny
      BY <3>3 DEF ClaimAny, ClaimDispatch, ReplayClaim, journalVars
    <3>4. CASE PublishResponseAny
      BY <3>4 DEF PublishResponseAny, PublishResponse
    <3>5. CASE PublishSuccessAny
      BY <3>5 DEF PublishSuccessAny, PublishSuccess
    <3> QED
      BY <3>1, <3>2, <3>3, <3>4, <3>5 DEF JournalNext, journalVars
  <2> QED
    BY <2>1 DEF RunInv
<1> QED
  BY <1>1, <1>2

\* The run's one ordinal carries over to the network: two attempts that were both
\* told to send belong to different runs.
THEOREM OneSendPerRun == JournalSpec => []RunSentOnce
<1>1. JournalInit => RunInv
  BY DEF JournalInit, RunInv
<1>2. TypeOK /\ RunInv /\ [JournalNext]_journalVars => RunInv'
  BY StepRun
<1>3. TypeOK /\ RunInv /\ AuthorizationInv /\ SoundInv => RunSentOnce
  <2> SUFFICES ASSUME RunInv, AuthorizationInv, SoundInv, NEW a \in Attempts,
                      NEW b \in Attempts, authorized[a] > 0, authorized[b] > 0,
                      attempts[a].run = attempts[b].run
               PROVE  a = b
    BY DEF RunSentOnce
  <2>1. claims[a] # NoRow /\ claims[b] # NoRow
    BY DEF AuthorizationInv
  <2>2. attempts[a] # NoRow /\ attempts[b] # NoRow
    BY <2>1 DEF SoundInv
  <2> QED
    BY <2>2 DEF RunInv
<1> QED
  BY <1>1, <1>2, <1>3, TypeCorrect, AuthorizationInductive, SoundInductive, PTL
     DEF JournalSpec

-----------------------------------------------------------------------------
(* Nothing recorded is rewritten.                                           *)

LEMMA HistoriesGrow ==
    ASSUME TypeOK, NEW a \in Attempts,
           \/ events'[a] = events[a]
           \/ \E e \in Events : events'[a] = Append(events[a], e)
    PROVE  /\ Len(events'[a]) >= Len(events[a])
           /\ Prefix(events'[a], Len(events[a])) = events[a]
<1>1. events[a] \in Seq(Events) /\ Len(events[a]) \in Nat
  BY DEF TypeOK
<1>2. CASE events'[a] = events[a]
  BY <1>1, <1>2 DEF Prefix
<1>3. CASE \E e \in Events : events'[a] = Append(events[a], e)
  BY <1>1, <1>3, AppendKeeps
<1> QED
  BY <1>2, <1>3

\* A claim that is created appends its own submitted event, and only there.
LEMMA ClaimExtends ==
    ASSUME TypeOK, ClaimAny
    PROVE  \A a \in Attempts : \/ events'[a] = events[a]
                               \/ \E e \in Events : events'[a] = Append(events[a], e)
<1>1. CASE UNCHANGED journalVars
  BY <1>1 DEF journalVars
<1>2. ASSUME NEW a \in Attempts, NEW id \in ClaimIds, NEW c \in Capabilities,
             NEW at \in Times, NEW acknowledged \in BOOLEAN, NEW token,
             ClaimDispatch([id |-> id, attempt |-> a, capability |-> c,
                            head |-> token.head, next |-> token.next, at |-> at],
                           acknowledged)
      PROVE  \A b \in Attempts : \/ events'[b] = events[b]
                                 \/ \E e \in Events : events'[b] = Append(events[b], e)
  <2> DEFINE claim == [id |-> id, attempt |-> a, capability |-> c,
                       head |-> token.head, next |-> token.next, at |-> at]
  <2>1. SubmittedEvent(claim) \in Events
    BY <1>2, ClaimTyped DEF ClaimDispatch
  <2>2. events' = [events EXCEPT ![a] = Append(@, SubmittedEvent(claim))]
    BY <1>2 DEF ClaimDispatch
  <2> HIDE DEF claim
  <2> QED
    BY <2>1, <2>2 DEF TypeOK
<1> QED
  BY <1>1, <1>2, ClaimAnySteps

\* One transaction keeps every row and every event that is there.
Keeps ==
    /\ RowKept(runs, runs')
    /\ RowKept(attempts, attempts')
    /\ RowKept(claims, claims')
    /\ RowKept(responses, responses')
    /\ RowKept(successes, successes')
    /\ \A a \in Attempts :
          /\ Len(events'[a]) >= Len(events[a])
          /\ Prefix(events'[a], Len(events[a])) = events[a]

LEMMA HistoriesExtend ==
    ASSUME TypeOK, JournalNext
    PROVE  \A a \in Attempts : \/ events'[a] = events[a]
                               \/ \E e \in Events : events'[a] = Append(events[a], e)
  BY OtherSteps, ClaimExtends DEF JournalNext

LEMMA StepKeeps ==
    ASSUME TypeOK, JournalNext
    PROVE  Keeps
<1>1. \A a \in Attempts : \/ events'[a] = events[a]
                          \/ \E e \in Events : events'[a] = Append(events[a], e)
  BY HistoriesExtend
<1>2. \A a \in Attempts : /\ Len(events'[a]) >= Len(events[a])
                          /\ Prefix(events'[a], Len(events[a])) = events[a]
  BY <1>1, HistoriesGrow
<1>3. CASE Register
  <2>1. RowKept(runs, runs') /\ RowKept(attempts, attempts')
    BY <1>3 DEF Register, RegisterRun, RegisterAttempt, RowKept, TypeOK
  <2>2. UNCHANGED <<claims, responses, successes>>
    BY <1>3 DEF Register, RegisterRun, RegisterAttempt
  <2> QED
    BY <1>2, <2>1, <2>2 DEF RowKept, Keeps
<1>4. CASE AppendAny
  <2>1. UNCHANGED <<runs, attempts, claims, responses, successes>>
    BY <1>4 DEF AppendAny, AppendEvent
  <2> QED
    BY <1>2, <2>1 DEF RowKept, Keeps
<1>5. CASE ClaimAny
  <2>1. UNCHANGED <<runs, attempts, responses, successes>> /\ RowKept(claims, claims')
    BY <1>5
       DEF ClaimAny, ClaimDispatch, ClaimCreates, ReplayClaim, journalVars, RowKept, TypeOK
  <2> QED
    BY <1>2, <2>1 DEF RowKept, Keeps
<1>6. CASE PublishResponseAny
  <2>1. UNCHANGED <<runs, attempts, claims, successes>> /\ RowKept(responses, responses')
    BY <1>6
       DEF PublishResponseAny, PublishResponse, ResponseCreates, RowKept, TypeOK
  <2> QED
    BY <1>2, <2>1 DEF RowKept, Keeps
<1>7. CASE PublishSuccessAny
  <2>1. UNCHANGED <<runs, attempts, claims, responses>> /\ RowKept(successes, successes')
    BY <1>7
       DEF PublishSuccessAny, PublishSuccess, SuccessCreates, RowKept, TypeOK
  <2> QED
    BY <1>2, <2>1 DEF RowKept, Keeps
<1> QED
  BY <1>3, <1>4, <1>5, <1>6, <1>7 DEF JournalNext

\* No operation, no replay and no lost answer rewrites or drops a row or an event
\* an earlier caller was told about.
THEOREM NothingRewritten == JournalSpec => AppendOnly
<1>1. TypeOK /\ [JournalNext]_journalVars => [Keeps]_tables
  <2>1. UNCHANGED journalVars => UNCHANGED tables
    BY DEF journalVars, tables
  <2> QED
    BY <2>1, StepKeeps
<1> QED
  BY <1>1, TypeCorrect, PTL DEF JournalSpec, AppendOnly, Keeps

-----------------------------------------------------------------------------
(* The journal implements the abstract lifecycle.                           *)

\* A legal extension moves the head along an edge of the transition graph.
LEMMA HeadMoves ==
    ASSUME NEW a, NEW h \in Seq(Events), NEW e \in Events, LegalHistory(a, Append(h, e))
    PROVE  /\ HeadOf(Append(h, e)).state = e.state
           /\ \/ HeadOf(h).state = "none" /\ e.state = "prepared"
              \/ /\ HeadOf(h).state \in States
                 /\ e.state \in LegalTransitions[HeadOf(h).state]
<1> DEFINE g == Append(h, e)
<1>1. /\ g # <<>> /\ Len(h) \in Nat /\ Len(g) = Len(h) + 1
      /\ g[Len(h) + 1] = e
      /\ \A i \in 1..Len(h) : g[i] = h[i]
  OBVIOUS
<1>2. LegalTrace(a, g)
  BY DEF LegalHistory
<1> HIDE DEF g
<1>3. HeadOf(g).state = e.state
  BY <1>1 DEF HeadOf
<1>4. CASE h = <<>>
  <2>1. g[1] = e
    BY <1>1, <1>4
  <2>2. e.state = "prepared"
    BY <1>1, <1>2, <2>1 DEF LegalTrace
  <2> QED
    BY <1>3, <1>4, <2>2 DEF HeadOf, EmptyHead, g
<1>5. CASE h # <<>>
  <2>1. Len(h) \in 1..Len(h) /\ Len(h) + 1 \in 2..Len(g) /\ (Len(h) + 1) - 1 = Len(h)
    BY <1>1, <1>5
  <2>2. HeadOf(h).state = h[Len(h)].state
    BY <1>5 DEF HeadOf
  <2>3. e.state \in LegalTransitions[h[Len(h)].state]
    BY <1>1, <1>2, <2>1 DEF LegalTrace
  <2>4. h[Len(h)] \in Events
    BY <2>1
  <2>5. h[Len(h)].state \in States
    BY <2>4 DEF Events
  <2> QED
    BY <1>3, <2>2, <2>3, <2>5 DEF g
<1> QED
  BY <1>4, <1>5

\* A step on one attempt's rows moves that attempt's phase and no other.
LEMMA OnePhaseMoves ==
    ASSUME NEW a \in Attempts,
           \A b \in Attempts : b # a => attempts'[b] = attempts[b] /\ events'[b] = events[b]
    PROVE  [b \in Attempts |-> Phase(b)]' =
              [[b \in Attempts |-> Phase(b)] EXCEPT ![a] = Phase(a)']
<1>1. \A b \in Attempts : b # a => Phase(b)' = Phase(b)
  BY DEF Phase
<1> QED
  BY <1>1

\* Steps that append one event to a registered attempt's history.
LEMMA AppendPhase ==
    ASSUME TypeOK, NEW a \in Attempts, NEW e \in Events,
           attempts[a] # NoRow, UNCHANGED attempts,
           events' = [events EXCEPT ![a] = Append(@, e)],
           LegalHistory(a, Append(events[a], e))
    PROVE  /\ [b \in Attempts |-> Phase(b)]' =
                 [[b \in Attempts |-> Phase(b)] EXCEPT ![a] = e.state]
           /\ \/ Phase(a) = "none" /\ e.state = "prepared"
              \/ Phase(a) \in States /\ e.state \in LegalTransitions[Phase(a)]
<1>1. /\ events[a] \in Seq(Events)
      /\ events'[a] = Append(events[a], e)
      /\ \A b \in Attempts : b # a => events'[b] = events[b]
  BY DEF TypeOK
<1>2. Phase(a) = HeadOf(events[a]).state /\ Phase(a)' = HeadOf(events'[a]).state
  BY DEF Phase
<1>3. Phase(a)' = e.state
  BY <1>1, <1>2, HeadMoves
<1>4. [b \in Attempts |-> Phase(b)]' =
         [[b \in Attempts |-> Phase(b)] EXCEPT ![a] = Phase(a)']
  BY <1>1, OnePhaseMoves
<1>5. \/ Phase(a) = "none" /\ e.state = "prepared"
      \/ Phase(a) \in States /\ e.state \in LegalTransitions[Phase(a)]
  BY <1>1, <1>2, HeadMoves
<1> HIDE DEF Phase
<1> QED
  BY <1>3, <1>4, <1>5

LEMMA LifecycleStep ==
    ASSUME TypeOK, SoundInv, [JournalNext]_journalVars
    PROVE  [Lifecycle!LifecycleNext]_(Lifecycle!lifecycleVars)
<1> USE DEF Lifecycle!Become
<1>1. CASE Register
  <2>1. ASSUME NEW r \in Runs, NEW intent \in Intents, RegisterRun(r, intent)
        PROVE  UNCHANGED Lifecycle!lifecycleVars
    BY <2>1 DEF RegisterRun, Lifecycle!lifecycleVars, Phase
  <2>2. ASSUME NEW a \in Attempts, NEW d \in Descriptors, RegisterAttempt(a, d)
        PROVE  Lifecycle!Register(a)
    <3>1. /\ attempts[a] = NoRow /\ attempts'[a] = d /\ d # NoRow
          /\ \A b \in Attempts : b # a => attempts'[b] = attempts[b] /\ events'[b] = events[b]
          /\ events'[a] = <<>>
          /\ authorized' = authorized
      BY <2>2, RowAssumption DEF RegisterAttempt, TypeOK, SoundInv
    <3>2. Phase(a) = "unregistered" /\ Phase(a)' = "none"
      BY <3>1 DEF Phase, HeadOf, EmptyHead
    <3>3. [b \in Attempts |-> Phase(b)]' =
             [[b \in Attempts |-> Phase(b)] EXCEPT ![a] = Phase(a)']
      BY <3>1, OnePhaseMoves
    <3> HIDE DEF Phase
    <3> QED
      BY <3>1, <3>2, <3>3 DEF Lifecycle!Register
  <2> QED
    BY <1>1, <2>1, <2>2 DEF Register, Lifecycle!LifecycleNext
<1>2. CASE AppendAny
  <2>1. PICK a \in Attempts, e \in Events : \E token : AppendEvent(a, e, token)
    BY <1>2, AppendAnyTyped
  <2>2. /\ attempts[a] # NoRow /\ UNCHANGED <<attempts, authorized>>
        /\ events' = [events EXCEPT ![a] = Append(@, e)]
        /\ LegalHistory(a, Append(events[a], e))
        /\ e.state \notin Reserved
    BY <2>1 DEF AppendEvent, AppendCreates, Readable
  <2>3. /\ [b \in Attempts |-> Phase(b)]' =
              [[b \in Attempts |-> Phase(b)] EXCEPT ![a] = e.state]
        /\ \/ Phase(a) = "none" /\ e.state = "prepared"
           \/ Phase(a) \in States /\ e.state \in LegalTransitions[Phase(a)]
    BY <2>2, AppendPhase
  <2>4. \/ Phase(a) = "none" /\ e.state = "prepared"
        \/ Phase(a) = "submitted" /\ e.state = "outcome_unknown"
        \/ Phase(a) \in Lifecycle!Open /\ e.state = "failed"
        \/ Phase(a) \in Lifecycle!Open \ {"response_received"} /\ e.state = "cancelled"
    BY <2>2, <2>3 DEF States, LegalTransitions, Reserved, Lifecycle!Open
  <2>5. \/ Lifecycle!Prepare(a) \/ Lifecycle!LoseTrack(a)
        \/ Lifecycle!Fail(a) \/ Lifecycle!Cancel(a)
    BY <2>2, <2>3, <2>4
       DEF Lifecycle!Prepare, Lifecycle!LoseTrack, Lifecycle!Fail, Lifecycle!Cancel
  <2> QED
    BY <2>5 DEF Lifecycle!LifecycleNext
<1>3. CASE ClaimAny
  <2>1. CASE UNCHANGED journalVars
    BY <2>1 DEF journalVars, Lifecycle!lifecycleVars, Phase
  <2>2. ASSUME NEW a \in Attempts, NEW id \in ClaimIds, NEW c \in Capabilities,
               NEW at \in Times, NEW acknowledged \in BOOLEAN, NEW token,
               ClaimDispatch([id |-> id, attempt |-> a, capability |-> c,
                              head |-> token.head, next |-> token.next, at |-> at],
                             acknowledged)
        PROVE  Lifecycle!Authorize(a)
    <3> DEFINE claim == [id |-> id, attempt |-> a, capability |-> c,
                         head |-> token.head, next |-> token.next, at |-> at]
    <3>1. SubmittedEvent(claim) \in Events /\ SubmittedEvent(claim).state = "submitted"
      BY <2>2, ClaimTyped DEF ClaimDispatch
    <3>2. claim.attempt = a
      OBVIOUS
    <3>3. ClaimDispatch(claim, acknowledged)
      BY <2>2
    <3> HIDE DEF claim
    <3>4. /\ attempts[a] # NoRow /\ UNCHANGED attempts
          /\ events' = [events EXCEPT ![a] = Append(@, SubmittedEvent(claim))]
          /\ LegalHistory(a, Append(events[a], SubmittedEvent(claim)))
          /\ HeadOf(events[a]).state = "prepared"
          /\ \/ authorized' = [authorized EXCEPT ![a] = @ + 1]
             \/ authorized' = authorized
      BY <3>2, <3>3 DEF ClaimDispatch, ClaimCreates, Readable
    <3>5. /\ [b \in Attempts |-> Phase(b)]' =
                [[b \in Attempts |-> Phase(b)] EXCEPT ![a] = SubmittedEvent(claim).state]
      BY <3>1, <3>4, AppendPhase
    <3>6. Phase(a) = "prepared"
      BY <3>4 DEF Phase
    <3> QED
      BY <3>1, <3>4, <3>5, <3>6 DEF Lifecycle!Authorize
  <2> QED
    BY <1>3, <2>1, <2>2, ClaimAnySteps DEF Lifecycle!LifecycleNext
<1>4. CASE PublishResponseAny
  <2>1. PICK receipt \in Receipts : \E token : PublishResponse(receipt, token)
    BY <1>4 DEF PublishResponseAny
  <2>2. PICK token : PublishResponse(receipt, token)
    BY <2>1
  <2> DEFINE a == receipt.attempt
             e == ResponseEvent(receipt, token.next)
  <2>3. a \in Attempts /\ e \in Events /\ e.state = "response_received"
    BY <2>2, ResponseTyped DEF PublishResponse, ResponseEvent, Event
  <2>4. /\ attempts[a] # NoRow /\ UNCHANGED <<attempts, authorized>>
        /\ events' = [events EXCEPT ![a] = Append(@, e)]
        /\ LegalHistory(a, Append(events[a], e))
        /\ HeadOf(events[a]).state \in {"submitted", "outcome_unknown"}
    BY <2>2 DEF PublishResponse, ResponseCreates, Readable
  <2> HIDE DEF a, e
  <2>5. [b \in Attempts |-> Phase(b)]' =
           [[b \in Attempts |-> Phase(b)] EXCEPT ![a] = e.state]
    BY <2>3, <2>4, AppendPhase
  <2>6. Phase(a) \in {"submitted", "outcome_unknown"}
    BY <2>4 DEF Phase
  <2>7. Lifecycle!Answer(a)
    BY <2>3, <2>4, <2>5, <2>6 DEF Lifecycle!Answer
  <2> QED
    BY <2>3, <2>7 DEF Lifecycle!LifecycleNext
<1>5. CASE PublishSuccessAny
  <2>1. PICK a \in Attempts, packet \in Intents, at \in Times :
          \E seen, token : PublishSuccess(a, seen, packet, at, token)
    BY <1>5 DEF PublishSuccessAny
  <2>2. PICK seen, token : PublishSuccess(a, seen, packet, at, token)
    BY <2>1
  <2> DEFINE e == SucceededEvent(a, token.next, at, responses[a].payload)
  <2>3. e \in Events /\ e.state = "succeeded"
    BY <2>2, SuccessTyped DEF PublishSuccess, SucceededEvent, Event
  <2>4. /\ attempts[a] # NoRow /\ UNCHANGED <<attempts, authorized>>
        /\ events' = [events EXCEPT ![a] = Append(@, e)]
        /\ LegalHistory(a, Append(events[a], e))
        /\ HeadOf(events[a]).state = "response_received"
    BY <2>2 DEF PublishSuccess, SuccessCreates, Readable
  <2> HIDE DEF e
  <2>5. [b \in Attempts |-> Phase(b)]' =
           [[b \in Attempts |-> Phase(b)] EXCEPT ![a] = e.state]
    BY <2>3, <2>4, AppendPhase
  <2>6. Phase(a) = "response_received"
    BY <2>4 DEF Phase
  <2>7. Lifecycle!Succeed(a)
    BY <2>3, <2>4, <2>5, <2>6 DEF Lifecycle!Succeed
  <2> QED
    BY <2>7 DEF Lifecycle!LifecycleNext
<1>6. CASE UNCHANGED journalVars
  BY <1>6 DEF journalVars, Lifecycle!lifecycleVars, Phase
<1> QED
  BY <1>1, <1>2, <1>3, <1>4, <1>5, <1>6 DEF JournalNext

\* Whoever knows only the promise knows enough: every run of the journal, with its
\* tokens, replays and evidence, walks each attempt forward through the ADR-0014
\* graph and hands the one permission out in the step that submits it.
THEOREM JournalImplementsLifecycle == JournalSpec => ImplementsLifecycle
<1>1. JournalInit => Lifecycle!LifecycleInit
  BY DEF JournalInit, Lifecycle!LifecycleInit, Phase
<1>2. TypeOK /\ SoundInv /\ [JournalNext]_journalVars =>
        [Lifecycle!LifecycleNext]_(Lifecycle!lifecycleVars)
  BY LifecycleStep
<1> QED
  BY <1>1, <1>2, TypeCorrect, SoundInductive, PTL
     DEF JournalSpec, ImplementsLifecycle, Lifecycle!LifecycleSpec
=============================================================================
