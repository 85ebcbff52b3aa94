SPECIFICATION Spec
CONSTANTS
  Years = {2027, 2028, 2099, 2100}
  Diffs <- EveryDiff
INVARIANTS
  SameDay
  DateOrLeapDay
PROPERTIES
  Returns
CHECK_DEADLOCK FALSE
