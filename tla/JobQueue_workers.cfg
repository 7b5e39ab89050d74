SPECIFICATION FairSpec
CONSTANTS
  j1 = j1
  j2 = j2
  w1 = w1
  w2 = w2
  p1 = p1
  p2 = p2
  n1 = n1
  n2 = n2
  k1 = k1
  NoKey = NoKey
  NoReq = NoReq
  Nobody = Nobody
  NoJob = NoJob
  Jobs <- MCOneJob
  Workers <- MCWorkers
  Producers <- MCOneProducer
  Names <- MCNames
  Keys <- MCKeys
  Queues <- MCTwoQueues
  Priorities <- MCPriorities
  Requests <- MCMixed
  NameFilter <- MCFilter
  HandlerMax <- MCHandler
  MaxAttempts = 2
  Backoff <- MCBackoff
  ReclaimAfter = 1
  Horizon = 2
  PartialIndex <- MCIndexed
  DrainOnce <- MCOneWorker
  Shutdowns <- MCOneWorker
  SlowWorkers = FALSE
  LostReplies = FALSE
  MaxFaults = 2
  MaxDlqOps = 1
INVARIANTS
  OwnerWrites
  Overshoot
PROPERTIES
  ImplementsLifecycle
  EventuallySettles
