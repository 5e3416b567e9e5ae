SPECIFICATION FairSpec
CONSTANTS
  c1 = c1
  c2 = c2
  NoLimit = NoLimit
  NoResult = NoResult
  NoReply = NoReply
  Failed = Failed
  Calls <- MCCalls
  Number <- MCNumber
  Kinds <- AllKinds
  IterationLimits <- Iterations
  TimeLimits <- Times
  Interval = 2
  Inclusion = 2
  MaxBlock = 3
  MaxFailures = 1
INVARIANTS
  OnlyLimitsCutShort
  FreshResult
PROPERTIES
  WaitsEnd
