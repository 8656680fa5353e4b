SPECIFICATION MCSpec
CONSTANTS
  Topic = {t1, t2, t3}
  Payload = {0, 1, 2, 3, 4}
  Overhead = 1
  MsgMax = 3
  Limits = {2, 7}
  Ttl = 2
  StatsEvery = 1
  ClockWrap = 6
  UptimeMax = 6
  Client = {c1, c2}
  NInflight = 2
  Size = {1, 2}
  BytesMax = 3
  FrameMax = 2
  RetryInitial = 1
  RetryCap = 4
  RetryMax = 5
  NoMsg = NoMsg
  NConsumers = 2
  Conn = {w1, w2, w3}
  Buffer = {b1, b2, b3}
  NoBuffer = NoBuffer
  PieceCount = 2
  NEvents = 1
  MaxEvents = 3
SYMMETRY Symmetry
PROPERTY SendsOnlyToLive
CHECK_DEADLOCK FALSE
