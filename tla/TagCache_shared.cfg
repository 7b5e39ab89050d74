SPECIFICATION Spec
CONSTANTS
  i1 = i1
  i2 = i2
  k1 = k1
  k2 = k2
  t1 = t1
  r1 = r1
  r2 = r2
  w1 = w1
  w2 = w2
  Shared = Shared
  NoEntry = NoEntry
  Procs <- MCTwo
  Keys <- MCKey
  Tags <- MCTag
  TagsOf <- MCOneTagOf
  Readers <- MCReaders
  Writers <- MCWriters
  Home <- MCApart
  SharedTags = TRUE
  Persistent = TRUE
  MaxRecorded = 1
  MaxVersion = 2
  MaxRestarts = 1
INVARIANTS
  NeverStale
