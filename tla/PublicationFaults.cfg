SPECIFICATION Spec
CONSTANTS
  a = a
  b = b
  Ids = {a, b}
  MaxJournals = 2
  Faulty = TRUE
SYMMETRY Symmetry
INVARIANT TypeOK
INVARIANT Fenced
INVARIANT Truthful
INVARIANT RecordsHaveFiles
INVARIANT AnswersAreDurable
PROPERTY PublishesOnce
PROPERTY OutcomesSurvive
