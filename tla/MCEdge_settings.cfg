SPECIFICATION MCSpec
CONSTANTS
  ClientSlot = {s1, s2}
  KeepAlives = {0, 1, 2}
  Grace = 1
  CheckEvery = 2
  ClockWrap = 11
  UptimeMax = 16
  Unit = 100
  Oscillators <- MCOscillators
  Noises <- MCNoises
  Poll = 1
  Ring = 3
  MinBase = 2
  Clamp = 5
  Epoch = 700
  NtpTimeMax = 6
  Source = {"a", "b", "c"}
  Places = 2
  Rate = 2
  RateWindow = 2
  RateTimeMax = 6
  EchoTopic = {"a", "b", "c"}
  MaxTopics = 2
  MinCounts = {1, 2}
  Window = 2
  EchoWrap = 4
  EchoTimeMax = 5
  PublishMax = 5
  Base = 4
  LengthMax = 2
  Packets <- MCPackets
  PacketsMax = 3
  RecvSize = 17
  StringMax = 3
  SubsMax = 2
  TopicChar = {"a", "/", "$"}
  FilterMax = 5
  TopicMax = 4
  Forms <- MCForms
  SavesMax = 1
  WifiMaxRetries = 2
  RetriesMax = 2
  EventsMax = 2
  Old <- MCOld
  New <- MCNew
  Uploads <- MCUploads
  Downloads <- MCDownloads
  ChunkMax = 3
  NSlots = 2
  ScriptMax = 1
  Script <- MCScript
  Legacy <- MCLegacy
  RestartsMax = 2
  ScriptSavesMax = 2
INVARIANT SavedWhole
CHECK_DEADLOCK FALSE
