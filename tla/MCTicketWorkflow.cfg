SPECIFICATION Spec
CONSTANTS
  x1 = x1
  x2 = x2
  x3 = x3
  o = o
  None = None
  Unopened = Unopened
  Requests = {x1, x2, x3, o}
  Executions = {x1, x2, x3}
  WithOrder = {x2}
  Fingerprint <- MCFingerprint
  Faults = {"redis", "commit"}
CHECK_DEADLOCK FALSE
INVARIANTS
  TypeOK
  AnswersTrue
  RetryFinds
  ToldTrue
PROPERTIES
  EveryExecutionEnds
