SPECIFICATION Spec
CONSTANTS
  j1 = j1
  j2 = j2
  w1 = w1
  w2 = w2
  p1 = p1
  p2 = p2
  n1 = n1
  n2 = n2
  k1 = k1
  NoKey = NoKey
  NoReq = NoReq
  Nobody = Nobody
  NoJob = NoJob
  Jobs <- MCJobs
  Workers <- MCWorkers
  Producers <- MCProducers
  Names <- MCNames
  Keys <- MCKeys
  Queues <- MCOneQueue
  Priorities <- MCPriorities
  Requests <- MCKeyed
  NameFilter <- MCSweeper
  HandlerMax <- MCHandler
  MaxAttempts = 2
  Backoff <- MCBackoff
  ReclaimAfter = 1
  Horizon = 2
  PartialIndex <- MCEither
  DrainOnce <- MCNone
  Shutdowns <- MCNone
  SlowWorkers = TRUE
  LostReplies = TRUE
  MaxFaults = 1
  MaxDlqOps = 1
SYMMETRY MCSymmetry
INVARIANTS
  TypeOK
  DuplicatesExcused
