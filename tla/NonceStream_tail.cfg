SPECIFICATION StreamSpec
CONSTANTS
  Bytes = {"<", "a", "r"}
  Needle <- MCNeedle
  Nonce = "nonce"
  MaxPage = 5
INVARIANT PageArrives
CHECK_DEADLOCK FALSE
