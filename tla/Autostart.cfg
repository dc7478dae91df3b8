SPECIFICATION FairSpec
CONSTANTS
  MaxRequests = 3
  Users = {{"TDE", "Device1", "TapePort", "DriveType"}, {"Traps", "TapePort", "FSDir"}, {"Traps", "IEC", "Warp", "Device1", "DriveType", "FSDir"}}
CHECK_DEADLOCK FALSE
INVARIANT RestoredUnlessOverwritten
PROPERTIES NoRunAfterReset LoadEnds ErrorEnds
