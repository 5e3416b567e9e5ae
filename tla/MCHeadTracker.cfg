SPECIFICATION FairSpec
CONSTANTS
  l1 = l1
  l2 = l2
  t1 = t1
  t2 = t2
  NoPoll = NoPoll
  NoTimer = NoTimer
  HeadPoll = HeadPoll
  NoBlock = NoBlock
  NoReply = NoReply
  Failed = Failed
  Polls <- MCPolls
  Loops <- MCLoops
  Timers <- MCTimers
  StopOnError <- MCPolls
  ErrorListened <- MCPolls
  MaxIterations = 2
  MaxStarts = 1
  MaxBlock = 3
  MaxFailures = 1
PROPERTIES
  NoOlderThanAsked
  HeadSettles
  HeadFollows
