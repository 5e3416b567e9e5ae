SPECIFICATION ProviderFairSpec
CONSTANTS
  v = v
  w = w
  x = x
  y = y
  z = z
  g0 = g0
  a1 = a1
  a2 = a2
  b1 = b1
  b2 = b2
  c1 = c1
  k1 = k1
  k2 = k2
  A = A
  B = B
  Null = Null
  Txs <- MCTxs
  BlockIds <- MCBlockIds
  Content <- MCContent
  Height <- MCHeight
  Events <- MCEvents
  Clauses <- MCClauses
  Branches <- MCBranches
  MaxReorgs = 3
  Calls <- MCCalls
  Batches <- MCBatches
  Topics <- MCTopics
  LogAddress <- MCLogAddress
  LogTopics <- MCLogTopics
  MaxLimit = 5
  MaxFailures = 1
INVARIANTS
  LogIndicesDisjoint
  ReceiptsOfBlock
  PlaceOfTransaction
  LogsAsFiltered
  AnsweredOnce
PROPERTY SessionsEnd
CHECK_DEADLOCK FALSE
