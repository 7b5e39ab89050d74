SPECIFICATION Spec
CONSTANTS
  p1 = p1
  p2 = p2
  n1 = n1
  n2 = n2
  v1 = v1
  None = None
  Procs <- MCProcs
  Names <- MCNames
  Values <- MCValues
  EnvKeys <- MCEnvKeys
  MaxKeys = 3
  MaxCrashes = 1
SYMMETRY MCSymmetry
INVARIANTS
  TypeOK
  Readable
  Durable
