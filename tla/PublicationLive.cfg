SPECIFICATION FairSpec
CONSTANTS
  a = a
  b = b
  Ids = {a, b}
  MaxJournals = 2
  Faulty = FALSE
PROPERTY PublishingSettles
