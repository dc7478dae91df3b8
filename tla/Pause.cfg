SPECIFICATION PauseFairSpec
CONSTANTS
  MaxCallbacks = 4
  MaxTraps = 2
INVARIANT PauseHolds
PROPERTIES
  FrameEndsInPause
  Resumes
  JobsServed
