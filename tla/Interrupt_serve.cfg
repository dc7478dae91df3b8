SPECIFICATION FairSpec
CONSTANTS
  Sources = {cia}
  JamMoves = FALSE
PROPERTIES
  NmiServed
  IrqServed
