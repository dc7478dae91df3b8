SPECIFICATION FairSpec
CONSTANTS
  MAX_BACKBUFFERS = 2
  MaxJobs = 3
INVARIANTS
  FrameHasJob
  NoJobAfterJoin
PROPERTIES
  ImplementsBackbuffers
  FrameLeaves
  ExitCompletes
