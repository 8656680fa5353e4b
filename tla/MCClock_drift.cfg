SPECIFICATION ClockSpec
CONSTANTS
  ClientSlot = {s1, s2}
  KeepAlives = {0, 1, 2}
  Grace = 1
  CheckEvery = 2
  ClockWrap = 11
  UptimeMax = 16
  Unit = 100
  Oscillators <- MCOscillators
  Noises <- MCExact
  Poll = 1
  Ring = 3
  MinBase = 2
  Clamp = 5
  Epoch = 700
  NtpTimeMax = 6
  Source = {"a", "b", "c"}
  Places = 2
  Rate = 2
  RateWindow = 2
  RateTimeMax = 6
  EchoTopic = {"a", "b", "c"}
  MaxTopics = 2
  MinCounts = {1, 2}
  Window = 2
  EchoWrap = 4
  EchoTimeMax = 5
  PublishMax = 5
INVARIANT CorrectionHelps
CHECK_DEADLOCK FALSE
