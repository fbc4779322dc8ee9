SPECIFICATION Spec
CONSTANTS
  c1 = c1
  c2 = c2
  w1 = w1
  w2 = w2
  NoClient = none
  Clients = {c1, c2}
  Workers = {w1, w2}
  Scenarios <- Creates
CHECK_DEADLOCK FALSE
INVARIANT
  AnswersMatch
