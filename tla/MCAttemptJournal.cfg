CONSTANTS
  Attempts = {a1, a2}
  Times = {0, 1}
  Handles = {h1}
  NoHandle = NoHandle
  Payloads = {p1, p2}
  NoEvent = NoEvent
  Runs = {r1}
  Intents = {i1, i2}
  Capabilities = {c1, c2}
  NonIdempotent = {c1}
  ClaimIds = {k1, k2}
  Admissible = {p1}
  NoRow = NoRow
SYMMETRY IdSymmetry
SPECIFICATION JournalSpec
INVARIANTS TypeOK JournalSound OneAuthorization SuccessInOrder RunSentOnce
PROPERTIES AppendOnly NoReauthorization ImplementsLifecycle
CHECK_DEADLOCK FALSE
