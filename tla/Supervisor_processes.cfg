SPECIFICATION FairSpec
CONSTANTS
  Modes <- MCModes
  ExitCodes <- MCExitCodes
  MaxSaves = 3
  MaxSignals = 2
CHECK_DEADLOCK FALSE
INVARIANTS
  OneChild
  RestartsPaid
  NoOrphan
  NoChangeLost
PROPERTIES
  LastChangeRuns
  ShutsDown
