SPECIFICATION FairSpec
CONSTANTS
  FrameDelta = 2
  Players = {"client"}
  Suspenders = {"server"}
INVARIANT TypeOK
PROPERTIES
  ImplementsLockstep
  OutOfSyncIsReal
  FramesGoOn
