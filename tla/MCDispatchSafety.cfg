CONSTANTS
  Attempts = {a1}
  Times = {0, 1}
  Handles = {h1}
  NoHandle = NoHandle
  Payloads = {p1}
  NoEvent = NoEvent
  Runs = {r1}
  Intents = {i1}
  Capabilities = {c1}
  NonIdempotent = {c1}
  ClaimIds = {k1, k2}
  Admissible = {p1}
  NoRow = NoRow
  Dispatchers = {d1, d2}
  MaxFaults = 2
  MonotoneClock = FALSE
  Crashes = TRUE
SYMMETRY CallSymmetry
SPECIFICATION DispatchSpec
INVARIANTS AtMostOnePost SendsUnderOwnClaim ReportsAreTrue
CHECK_DEADLOCK FALSE
