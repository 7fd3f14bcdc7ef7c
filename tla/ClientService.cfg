SPECIFICATION ServiceSpec
CONSTANTS
  n1 = n1
  n2 = n2
  a1 = a1
  a2 = a2
  Connection = {n1,n2}
  WireGuard = {n1}
  Address = {a1,a2}
  ServersOf <- TwoConnections
  MaxBusy = 1
INVARIANTS
  NothingLeft
PROPERTIES
  SnapshotRegular
  SnapshotFollows
  ServiceStops
