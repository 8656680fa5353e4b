SPECIFICATION Spec
CONSTANTS
  NClients = 2
  NSubs = 2
  NInflight = 1
  MaxPacketId = 2
  RetryMax = 1
  MaxConnects = 2
  ClientId = {a, b}
  Filter = {f1, f2}
  t1 = t1
  f1 = f1
  f2 = f2
  f3 = f3
  NoId = NoId
  NoSub = NoSub
  NoMsg = NoMsg
  Topic <- MCTopic
  Match <- MCMatch
SYMMETRY Symmetry
INVARIANTS
  CountExact
