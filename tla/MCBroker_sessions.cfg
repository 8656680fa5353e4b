SPECIFICATION FairSpec
CONSTANTS
  NClients = 3
  NSubs = 1
  NInflight = 1
  MaxPacketId = 2
  RetryMax = 1
  MaxConnects = 3
  ClientId = {a, b}
  Filter = {f1}
  t1 = t1
  f1 = f1
  f2 = f2
  f3 = f3
  NoId = NoId
  NoSub = NoSub
  NoMsg = NoMsg
  Topic <- MCTopic
  Match <- MCMatch
INVARIANTS
  TypeOK
  OneSessionPerClientId
  CountNeverLow
PROPERTIES
  NewSessionIsClean
  
