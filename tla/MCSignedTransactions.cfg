SPECIFICATION Spec
CONSTANTS
  Base = 4
  MaxSafe = 9
  Null = Null
  Stranger = Stranger
  Name = Name
  Absent = Absent
  k1 = k1
  k2 = k2
  Keys <- MCKeys
  Width <- MCWidth
  Gas <- MCGas
  Bodies <- MCBodies
  Foreign <- MCForeign
INVARIANTS
  OneEncoding
  ReadAsSigned
  GasOfEncoding
CHECK_DEADLOCK FALSE
