CONSTANTS
  Slugs = {s1, s2, s3}
  Users = {ann, adm}
  Admins = {adm}
  Requests = {r1, r2, r3}
  Legacy = {s1}
  NoSlug = NoSlug
  MaxLogins = 1
  MaxFaults = 2
SYMMETRY SaveSymmetry
SPECIFICATION Spec
INVARIANTS
  PresentRowHasFile
  DeletedFilesAreSwept
  AnswersHold
  ReplaceKeepsOneCopy
  OnlyOwnerOrAdminDeletes
PROPERTIES
  SweepSparesUntracked
  ImplementsCatalog
CHECK_DEADLOCK FALSE
