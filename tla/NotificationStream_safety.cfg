SPECIFICATION NotifSpec
CONSTANTS
  t1 = t1
  t2 = t2
  g1 = g1
  Everyone = Everyone
  Nothing = Nothing
  Groups = {g1}
  Tabs = {t1, t2}
  GroupOf <- TwoTabs
  Messages = {m1}
  Conns = {c1, c2}
  BufferSize = 1
  HistoryCapacity = 2
  ListMax = 2
  MaxCrashes = 1
  MaxCalls = 1
SYMMETRY Symmetric
INVARIANT TabsSafe
CHECK_DEADLOCK FALSE
