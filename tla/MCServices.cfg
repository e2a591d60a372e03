SPECIFICATION MCSpec
CONSTANTS
  Jobs = {j1, j2}
  NoMail = NoMail
  TaskCap = 1
  MailCap = 1
  MaxAttempts = 2
  MaxStops = 1
  Requests = {r1, r2, r3}
  Keys = {k1, k2}
  Slots = 1
  None = None
  MaxFaults = 1
  Callers = {q1, q2, q3}
  Variants = {v1, v2}
  DecodeSlots = 1
  NoCall = NoCall
  MaxDecodeFaults = 1
  Calls = {c1, c2}
INVARIANTS JobsSafe CacheSafe OutcomesSafe
PROPERTIES RequestsAnswered CallsEnd OutcomesEnd ProcessEnds
CHECK_DEADLOCK FALSE
