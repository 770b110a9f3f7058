CONSTANTS
  Keys = {k1}
  MaxCalls = 2
SPECIFICATION Spec
INVARIANT CountedOnce
CHECK_DEADLOCK FALSE
