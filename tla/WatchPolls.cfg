SPECIFICATION Spec
CONSTANTS
  s1 = s1
  Subs = {s1}
  Polls = {p1, p2}
  QueueCap = 1
  MaxSubs = 1
  MaxRetained = 2
  MaxBytes = 2
  MaxLifetime = 2
  MaxTombs = 2
  PageEvents = 2
  PageBytes = 2
  SizeOf <- Sizes
INVARIANTS
  TypeOK
  NoSilentLoss
  AnswersContinue
  NoLostWakeup
PROPERTIES
  AnswersComplete
  PollsAnswered
  WatchersReleased
