CONSTANTS
  Orders = {o1, o2}
  NoOrder = NoOrder
  Modes = {FALSE, TRUE}
  MaxTurns = 3
SPECIFICATION Spec
INVARIANTS TypeOK DraftIsCurrent HandoffIsOfThisTurn DraftIsAsAsked
PROPERTY ShownThenApprovedThenRun
CHECK_DEADLOCK FALSE
SYMMETRY OrderSymmetry
