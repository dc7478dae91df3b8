SPECIFICATION FairSpec
CONSTANTS
  Traps = {t1, t2, t3}
  Garbage = Garbage
  None = None
  MaxSlots = 4
  LateTriggers = FALSE
PROPERTIES
  HiddenOnlyByLoads
  ImplementsTrapFifo
  TrapsAreServed
