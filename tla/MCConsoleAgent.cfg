SPECIFICATION Spec
CONSTANTS
  Requests = {q1, q2, q3}
  Asks = {"reply", "stream", "human", "handoff", "decide", "correct"}
  Drafts = {d1, d2}
  NoDraft = NoDraft
  Staff = {amy, ben}
  Supervisors = {}
  Nobody = Nobody
  McpTools = TRUE
  LookupMayFail = TRUE
SYMMETRY AllSymmetry
VIEW Live
INVARIANTS
  TypeOK
  YieldsDuringTakeover
  RepliesFromHolder
  NothingUnapproved
