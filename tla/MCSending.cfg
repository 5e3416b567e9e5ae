SPECIFICATION FairSpec
CONSTANTS
  c1 = c1
  c2 = c2
  w1 = w1
  r1 = r1
  a1 = a1
  a2 = a2
  Absent = Absent
  Given = Given
  NoDeployment = NoDeployment
  Calls <- MCCalls
  Waiters <- MCWaiters
  Requests <- MCRequests
  Accounts <- MCAccounts
  Wallet <- MCWallet
  Gas <- MCGas
  Shapes <- MCShapes
  Options <- MCOptions
  Owner = a1
  MaxBlock = 1
INVARIANTS
  SentAsAsked
  FullySigned
  FixedIsSentOnce
  FreshBlockRef
  WaitGivesContract
PROPERTIES
  CallsEnd
CHECK_DEADLOCK FALSE
