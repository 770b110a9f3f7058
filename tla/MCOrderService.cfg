SPECIFICATION Spec
CONSTANTS
  o1 = o1
  o2 = o2
  o3 = o3
  k1 = k1
  alice = alice
  bob = bob
  n1 = n1
  TooLong = TooLong
  NoKey = NoKey
  Clients = {c1, c2, c3}
  Orders = {o1, o2, o3}
  Users = {alice, bob}
  Keys = {k1}
  Notes = {n1}
  Owner <- MCOwner
  Requests <- MCRequests
  Seeds <- MCSeeds
  Faults = {"redis", "expiry", "db"}
SYMMETRY Symmetry
INVARIANTS
  TypeOK
  SettledOnce
  LedgerComplete
  NoFalseSuccess
  KeyBindsOneRequest
  NoStandoff
PROPERTY AtomicSettlement
