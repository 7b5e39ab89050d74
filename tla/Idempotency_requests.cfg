SPECIFICATION Spec
CONSTANTS
  a = a
  b = b
  c = c
  NoRecord = NoRecord
  Requests <- MCThree
  Fingerprint <- MCMixed
  Ttl = 2
  Backends <- MCBoth
  MaxFailures = 3
  MaxCrashes = 2
CHECK_DEADLOCK FALSE
INVARIANTS
  NoOverlap
  ThirdNeeded
  ClaimHasOwner
  ReplayIsFaithful
PROPERTIES
  ImplementsKey
