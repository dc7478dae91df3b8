SPECIFICATION Spec
CONSTANTS
  Sources = {cia, cart}
  JamMoves = TRUE
INVARIANTS
  CountsMatch
  IrqFollowsLine
  LateIrqExpires
  IrqIsAllowed
PROPERTY NmiIsLatched
SYMMETRY Symmetry
