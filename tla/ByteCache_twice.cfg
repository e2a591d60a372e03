SPECIFICATION CacheSpec
CONSTANTS
  Callers = {r1, r2, r3, r4}
  Variants = {k1}
  DecodeSlots = 2
  NoCall = NoCall
  MaxDecodeFaults = 1
INVARIANT OneDecodePerKey
CHECK_DEADLOCK FALSE
