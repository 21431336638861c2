SPECIFICATION Spec
CONSTANTS
  Requests = {r1}
  Brief = {}
  Tiles = {t1, t2}
  Workers = 1
  MaxMishaps = 0
PROPERTIES AnsweredUnlessDropped
CHECK_DEADLOCK FALSE
