SPECIFICATION MCSpec
CONSTANTS
  Modals = {m1, m2}
  Guarded = {m1}
  NumEditors = 2
  MaxNavs = 2
  MaxPolls = 2
  MaxMoves = 3
  Overrides = {"none", "rejects", "holds"}
  Tabs = {t1, t2}
  MaxLogins = 2
  MaxActs = 3
  MaxTime = 4
  Life = 3
  WarnBefore = 1
  MinLead = 1
  Slack = 1
  MaxDelay = 2
INVARIANTS PopupsSafe
PROPERTIES EditsAreAsked ModalsLeave SessionSafe 
CHECK_DEADLOCK FALSE
