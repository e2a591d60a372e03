SPECIFICATION NotifSpec
CONSTANTS
  t1 = t1
  t2 = t2
  g1 = g1
  Everyone = Everyone
  Nothing = Nothing
  Groups = {}
  Tabs = {t1}
  GroupOf <- OneTab
  Messages = {m1, m2}
  Conns = {c1, c2}
  BufferSize = 1
  HistoryCapacity = 2
  ListMax = 2
  MaxCrashes = 0
  MaxCalls = 0
SYMMETRY Symmetric
INVARIANT MissedAreResent
CHECK_DEADLOCK FALSE
