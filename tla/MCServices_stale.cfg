SPECIFICATION MCSpec
CONSTANTS
  NSlots = 1
  MinutesPerDay = 6
  DaysPerWeek = 2
  FallBack = 11
  Shift = 2
  Config <- MCConfig
  Hash <- MCHash
  WindowMax = 1
  StepMax = 3
  StepsMax = 1
  UtcMax = 15
  BlobSlots = 2
  Days = {0}
  BlobWindowMax = 1
  MinuteMax = 1
  Length <- MCLength
  BlobMax = 40
  Char <- MCChar
  Forms <- MCForms
  Bodies <- MCBodies
  Topic = {"t"}
  Filter = {"f1", "f2"}
  Match <- MCMatch
  QueueSize = 2
  PubQueueSize = 1
  DrainMax = 1
  SubsMax = 2
  CallMax = 2
INVARIANT NoDeadCommand
CHECK_DEADLOCK FALSE
