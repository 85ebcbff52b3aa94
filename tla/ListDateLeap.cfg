SPECIFICATION Spec
CONSTANTS
  Years = {2027, 2028}
  Diffs = {0, 1, 30, 90}
INVARIANTS
  DateReturned
CHECK_DEADLOCK FALSE
