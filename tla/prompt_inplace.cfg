SPECIFICATION Spec
CONSTANTS
  None = None
  Callers = {c1, c2}
  Versions = {1, 2}
  Texts = {t1, t2}
  Policies = {"keep_first", "update_unused", "error"}
  Exclusive = {}
  MaxCalls = 3
SYMMETRY Interchangeable
CHECK_DEADLOCK FALSE
PROPERTIES CitedTextFrozen
