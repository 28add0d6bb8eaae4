SPECIFICATION Spec
CONSTANTS
  a = a
  b = b
  Ids = {a, b}
  MaxJournals = 1
  Faulty = TRUE
INVARIANT FilesWithinQuota
