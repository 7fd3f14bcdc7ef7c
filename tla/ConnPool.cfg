SPECIFICATION FairSpec
CONSTANTS
  Worker = {w1,w2,w3}
  Conn = {c1,c2,c3}
  Max = 1
  None = None
INVARIANTS
  Accounting
  Exclusive
  IdleClean
PROPERTIES
  RequestsEnd
