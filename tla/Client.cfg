SPECIFICATION Spec
CONSTANTS
  n1 = n1
  a1 = a1
  a2 = a2
  s1 = s1
  s2 = s2
  Connection = {n1}
  WireGuard = {n1}
  Address = {a1,a2}
  ServersOf <- TwoAddresses
  Query = {q1,q2}
  Servers <- TwoServers
  None = None
SYMMETRY Symmetric
INVARIANTS
  VpnFirst
  FailoverAlone
