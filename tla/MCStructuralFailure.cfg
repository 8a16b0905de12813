CONSTANTS
  Attempts = {a1, a2}
  Times = {0}
  Handles = {h1, h2}
  NoHandle = NoHandle
  Payloads = {p1}
  NoEvent = NoEvent
  Subject = a1
  MaxSide = 4
  MaxPixels = 12
  MaxParts = 5
SPECIFICATION AlgorithmsSpec
INVARIANT FailureIsRecorded
CHECK_DEADLOCK FALSE
