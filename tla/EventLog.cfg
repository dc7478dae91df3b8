SPECIFICATION FairSpec
CONSTANTS
  MaxRequests = 5
  MaxEvents = 3
  MaxClk = 2
  Second = 1
  NoFile = NoFile
INVARIANT
  HistoryIsComplete
PROPERTIES
  PlaybackReproduces
  PlaybackEnds
CHECK_DEADLOCK FALSE
