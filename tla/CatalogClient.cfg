SPECIFICATION Spec
CONSTANTS
  Requests = {r1, r2}
  Brief = {r2}
  Tiles = {t1, t2}
  Workers = 2
  MaxMishaps = 1
INVARIANTS AnswerIsAsAsked NothingIsLeftBehind
PROPERTIES AnsweredUnlessDropped
CHECK_DEADLOCK FALSE
