SPECIFICATION Spec
CONSTANTS
  e1 = e1
  e2 = e2
  r1 = r1
  f1 = f1
  Calls = {e1, e2, r1, f1}
  Flusher = Flusher
  MaxMessages = 2
  Kind <- MCKind
  Faults = {"java", "redis", "loss", "restart"}
CHECK_DEADLOCK FALSE
INVARIANTS
  TypeOK
  NothingForgotten
  JavaKeepsOrder
PROPERTIES
  AppendOnly
  Flushed
