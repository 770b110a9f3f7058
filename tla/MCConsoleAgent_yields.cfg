SPECIFICATION Spec
CONSTANTS
  Requests = {q1, q2, q3}
  Asks = {"reply", "stream", "human"}
  Drafts = {}
  NoDraft = NoDraft
  Staff = {amy, ben}
  Supervisors = {}
  Nobody = Nobody
  McpTools = FALSE
  LookupMayFail = FALSE
SYMMETRY StaffSymmetry
INVARIANTS
  AiYields
