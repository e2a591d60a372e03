CONSTANTS
  Slugs = {s1, s2, s3}
  Users = {ann}
  Admins = {}
  Requests = {r1, r2}
  Legacy = {s1}
  NoSlug = NoSlug
  MaxLogins = 2
  MaxFaults = 2
SPECIFICATION FairSpec
INVARIANTS
  ErasureForgets
PROPERTIES
  DeletedFileEventuallyGone
  RequestsEnd
CHECK_DEADLOCK FALSE
