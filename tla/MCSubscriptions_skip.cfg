SPECIFICATION Spec
CONSTANTS
  p1 = p1
  p2 = p2
  p3 = p3
  l1 = l1
  l2 = l2
  t1 = t1
  t2 = t2
  t3 = t3
  h1 = h1
  h2 = h2
  g1 = g1
  NoPoll = NoPoll
  NoTimer = NoTimer
  NoId = NoId
  Polls <- TwoPolls
  Timers <- TwoTimers
  StopOnError <- TwoPolls
  ErrorListened <- NoPolls
  Loops <- TwoLoops
  MaxIterations = 0
  MaxStarts = 1
  HeadIds <- OneHead
  LogIds <- NoLogs
  LogBlocks <- NoBlocks
  MaxBlock = 3
  MaxPending = 1
  MaxDestroys = 0
  MaxFailures = 0
INVARIANT InOrderFeeds
