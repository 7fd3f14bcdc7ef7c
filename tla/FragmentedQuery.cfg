SPECIFICATION FragmentedSpec
CONSTANTS
  q1 = q1
  q2 = q2
  a1 = a1
  Address = {a1}
  Query = {q1,q2}
  AddressOf <- MCAddressOf
  PiecesOf <- MCPiecesOf
  Burst = 3
  IdleTimeout = 3
  MaxWindow = 4
  None = None
INVARIANTS
  WindowBound
  RefusalDooms
  QuotaEnough
PROPERTIES
  RefinesTokenBucket
