SPECIFICATION Spec
CONSTANTS
  amy = amy
  sue = sue
  c1 = c1
  c2 = c2
  c3 = c3
  c4 = c4
  c5 = c5
  c6 = c6
  Calls = {c1, c2, c3, c4, c5, c6}
  Staff = {amy, sue}
  Managers = {sue}
  Nobody = Nobody
  Op <- MCOp
CHECK_DEADLOCK FALSE
INVARIANTS
  TypeOK
  OneRow
PROPERTIES
  LawfulUnlessOvertaken
  EveryCallAnswered
