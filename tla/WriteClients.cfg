SPECIFICATION Spec
CONSTANTS
  Ops = {o1, o2}
  Brief = {o2}
CHECK_DEADLOCK FALSE
INVARIANTS
  AtMostOneAnswer
  StoredBeforeListed
  
PROPERTIES
  StreamIsAnswered
