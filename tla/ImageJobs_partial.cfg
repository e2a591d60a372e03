SPECIFICATION Spec
CONSTANTS
  Requests = {r1, r2}
  Keys = {k1}
  Slots = 1
  None = None
  MaxFaults = 0
INVARIANT NoPartialImage
CHECK_DEADLOCK FALSE
