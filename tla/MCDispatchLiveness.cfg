CONSTANTS
  Attempts = {a1}
  Times = {0, 1}
  Handles = {}
  NoHandle = NoHandle
  Payloads = {p1}
  NoEvent = NoEvent
  Runs = {r1}
  Intents = {i1}
  Capabilities = {c1}
  NonIdempotent = {c1}
  ClaimIds = {k1}
  Admissible = {p1}
  NoRow = NoRow
  Dispatchers = {d1, d2}
  MaxFaults = 1
  MonotoneClock = TRUE
  Crashes = FALSE
SPECIFICATION FairDispatchSpec
PROPERTIES DecodedResponseSettles EveryPostSettles
CHECK_DEADLOCK FALSE
