CONSTANTS
  Slugs = {s1, s2}
  Users = {ann}
  Admins = {}
  Requests = {r1, r2}
  Legacy = {}
  NoSlug = NoSlug
  MaxLogins = 1
  MaxFaults = 0
SPECIFICATION Spec
INVARIANTS
  ErasedIdNotRecorded
CHECK_DEADLOCK FALSE
