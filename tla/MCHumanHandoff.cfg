SPECIFICATION Spec
CONSTANTS
  Nobody = Nobody
  Creators = {q1, q2}
  Staff = {amy, ben, sue}
  Supervisors = {sue}
SYMMETRY CreatorSymmetry
INVARIANTS
  TypeOK
  OneClaimant
PROPERTIES
  TransferredByOwner
  Lifecycle
