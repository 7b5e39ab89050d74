SPECIFICATION FairSpec
CONSTANTS
  r1 = r1
  r2 = r2
  f1 = f1
  f2 = f2
  f3 = f3
  bad = bad
  Runners <- MCRunners
  Deployed <- MCDeployed
  Files <- MCFiles
  VersionOf <- MCVersionOf
  Malformed <- MCMalformed
  Content <- MCContent
  Strict <- MCStrict
  Targets <- MCTargets
  Steps <- MCSteps
  Schemes <- MCSchemes
  MaxDowns = 1
  MaxFaults = 1
INVARIANTS
  TypeOK
  AppliedOnce
  RecordMatches
  NoGap
PROPERTIES
  ExitZeroMeansDone
  UpConverges
  ImplementsLog
