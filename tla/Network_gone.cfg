SPECIFICATION FairSpec
CONSTANTS
  FrameDelta = 2
  Players = {}
  Suspenders = {}
PROPERTY PeerLossIsNoticed
