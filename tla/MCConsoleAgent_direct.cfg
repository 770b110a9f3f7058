SPECIFICATION Spec
CONSTANTS
  Requests = {q1, q2, q3, q4}
  Asks = {"reply", "handoff", "decide", "correct"}
  Drafts = {d1, d2}
  NoDraft = NoDraft
  Staff = {}
  Supervisors = {}
  Nobody = Nobody
  McpTools = FALSE
  LookupMayFail = FALSE
SYMMETRY DraftSymmetry
INVARIANTS
  NothingUnapproved
