SPECIFICATION PollSpec
CONSTANTS
  p1 = p1
  p2 = p2
  l1 = l1
  l2 = l2
  l3 = l3
  t1 = t1
  t2 = t2
  NoPoll = NoPoll
  NoTimer = NoTimer
  Polls <- MCPolls
  Loops <- MCLoops
  Timers <- MCTimers
  StopOnError <- MCStopOnError
  ErrorListened <- MCErrorListened
  MaxIterations = 3
  MaxStarts = 1
PROPERTY StopListens
