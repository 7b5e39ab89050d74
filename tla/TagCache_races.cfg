SPECIFICATION Spec
CONSTANTS
  i1 = i1
  i2 = i2
  k1 = k1
  k2 = k2
  t1 = t1
  r1 = r1
  r2 = r2
  w1 = w1
  w2 = w2
  Shared = Shared
  NoEntry = NoEntry
  Procs <- MCOne
  Keys <- MCKeys
  Tags <- MCTag
  TagsOf <- MCOneTagEach
  Readers <- MCReaders
  Writers <- MCWriter
  Home <- MCTogetherOne
  SharedTags = FALSE
  Persistent = FALSE
  MaxRecorded = 1
  MaxVersion = 1
  MaxRestarts = 0
SYMMETRY MCSymmetry
INVARIANTS
  TypeOK
  NeverStale
  NoOrphan
