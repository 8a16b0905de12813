CONSTANTS
  Attempts = {a1}
  Times = {0, 1}
  Handles = {h1}
  NoHandle = NoHandle
  Payloads = {p1}
  NoEvent = NoEvent
  Runs = {r1}
  Intents = {i1}
  Capabilities = {c1}
  NonIdempotent = {c1}
  ClaimIds = {k1}
  Admissible = {p1}
  NoRow = NoRow
  Dispatchers = {d1}
  MaxFaults = 0
  MonotoneClock = FALSE
  Crashes = FALSE
SPECIFICATION DispatchSpec
INVARIANT BoundaryIsRecorded
CHECK_DEADLOCK FALSE
