SPECIFICATION CoreSpec
CONSTANTS
  k1 = k1
  k2 = k2
  w1 = w1
  w2 = w2
  words1 = words1
  main = main
  bad = bad
  say = say
  tell = tell
  b1 = b1
  t1 = t1
  t2 = t2
  t3 = t3
  Slots = {x, y}
  Expressions <- MCExpressions
  IdDigits = 4
  AddressDigits = 3
  MaxSafe = 257
  MaxDigits = 5
  Precision = 4
  Amounts <- MCAmounts
  WordBytes = 4
  Words <- MCWords
  BloomKeys <- MCBloomKeys
  Addresses <- MCAddresses
  HashOf <- MCHashOf
  WordBits = 8
  Rotation = 3
  Ks = {0, 1, 3, 31}
  BitsPerKeys = {0, 2, 44}
  MaxFilters = 2
  PrivateKeys = {k1, k2}
  Zeros32 = Zeros32
  Short = Short
  Buffers = {b1}
  Passwords = {w1, w2}
  Mnemonics = {words1}
  NoMnemonic = NoMnemonic
  Paths = {main, bad}
  ChildOf <- MCChildOf
  BadPath = BadPath
  Contents = {say, tell}
  MaxStores = 1
  MaxCerts = 2
  Networks <- MCNetworks
  HdKeyOf <- MCHdKeyOf
  Whiches <- MCWhiches
  AddressText <- MCAddressText
  Intentions <- MCIntentions
  Messages = {say}
  AddressTexts = {t1, t2, t3}
  NoAddressText = NoAddressText
  Nobody = Nobody
  Unset = Unset
  NotInteger = NotInteger
INVARIANTS
  OrderOfValues
  ReadAsWritten
  NoFalseNegatives
  KeystoreOpens
  CertificatesAreSigned
  SignedByTheAccount
  SimulatedAsWritten
CHECK_DEADLOCK FALSE
