SPECIFICATION FairSpec
CONSTANTS
  c1 = c1
  c2 = c2
  w1 = w1
  w2 = w2
  NoClient = none
  Clients = {c1, c2}
  Workers = {w1, w2}
  Scenarios <- Sessions
CHECK_DEADLOCK FALSE
INVARIANTS
  TypeOK
  ExecutedInOrder
  AnswersInOrder
  SessionsApart
PROPERTY
  CallsReturn
