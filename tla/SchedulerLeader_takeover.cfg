SPECIFICATION FairSpec
CONSTANTS
  w1 = w1
  w2 = w2
  w3 = w3
  Nobody = Nobody
  Workers <- MCWorkers
  LeaseSec = 2
  Minute = 2
  Start = 2
  MaxClock = 5
  MaxCrashes = 2
INVARIANTS
  AtMostOncePerMinute
PROPERTIES
  NoStolenLease
  LeaseKept
  LeaderReplaced
