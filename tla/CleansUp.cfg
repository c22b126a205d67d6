SPECIFICATION Spec
CONSTANTS
  Caller = {}
  Resetter = {}
CHECK_DEADLOCK FALSE
INVARIANTS CleansUp
