SPECIFICATION ContractFairSpec
CONSTANTS
  g = g
  b1 = b1
  b2 = b2
  c1 = c1
  c2 = c2
  h = h
  h1 = h1
  t1 = t1
  t2 = t2
  a1 = a1
  a2 = a2
  bob = bob
  eve = eve
  E = E
  F = F
  Malformed = Malformed
  Null = Null
  Refused = Refused
  Tolerance = 2
  MaxMoves = 2
  MaxTime = 4
  Requests <- FiveRequests
  Calls <- AllCalls
  Functions <- MCFunctions
  Events <- MCEvents
  Signers <- MCSigners
  AddressOf <- MCAddressOf
  ReadOptions <- MCReadOptions
  TransactOptions <- MCTransactOptions
  ContractAddress = a1
  MaxChanges = 1
  s1 = s1
  s2 = s2
  Trunks <- MCTrunks
  Content <- MCContent
  Trace <- MCTrace
  Logs <- MCLogs
  Time <- MCTime
  Registered <- MCRegistered
  Registries <- MCRegistries
  Simulated <- MCSimulated
INVARIANTS
  KeptLogsAreFound
  NamesOfOneBlock
  CallerOfTheCall
  RevertIsTold
PROPERTIES
  BegunIsNotAborted
  OpsEnd
CHECK_DEADLOCK FALSE
