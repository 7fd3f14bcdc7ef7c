SPECIFICATION FairSpec
CONSTANTS
  Conn = {c1,c2,c3}
  MaxConnections = 1
  Protected = TRUE
  HandshakeBudget = 1
  ServeBudget = 2
  WorkBudget = 1
  PingBudget = 1
INVARIANTS
  SlotsAccounted
  OnlyAdmitted
  LifeBounded
PROPERTIES
  ConnectionsEnd
