CONSTANTS
  m1 = m1
  m2 = m2
  m3 = m3
  u1 = u1
  u2 = u2
  u3 = u3
  u4 = u4
  u5 = u5
  Commands = {c1}
  Clients = {c1, Replay}
  Contents = {m1, m2, m3}
  Descriptors = {d1, d2}
  TrainMinimum = 1
  Failed = Failed
  Nil = Nil
  MaxFiles = 4
  Size <- Sizes
  RequestMaxImages = 3
  RequestMaxBytes = 4
  ProcessMaxUnique = 2
  Absent = Absent
  Torn = Torn
  Replay = Replay
  Pools <- MCPools
  Minimum = 1
  ForeignJudgments <- MCForeign
  MaxForeign = 2
  Unused = Unused
SPECIFICATION MCSpec
INVARIANTS MatrixIsOfLoadedBytes ScopeIsPublished LabelsFollowPolicy DocumentExplainsModels
CHECK_DEADLOCK FALSE
