SPECIFICATION Spec
CONSTANTS
  a = a
  b = b
  Calls = {c1, c2, c3}
  Docs = {a, b}
  Seeded = a
  MaxSize = 2
  MaxRunning = 2
  MaxLapses = 2
  MaxTrouble = 3
  Asks <- MCAsks
  Slot <- MCSlot
  Faults = {"parse", "embedding", "qdrant", "java", "crash"}
SYMMETRY Symmetry
CONSTRAINT Bounds
INVARIANTS
  TypeOK
  SavedIsServed
  DeletedIsGone
  NothingOrphaned
  RowHasFile
CHECK_DEADLOCK FALSE
