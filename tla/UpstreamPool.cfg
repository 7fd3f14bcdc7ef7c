SPECIFICATION FailoverSpec
CONSTANTS
  Caller = {r1,r2}
  Upstreams = 3
  Priority <- TwoTiers
  DoHs = {2,3}
  Timeout <- DefaultTimeouts
  Budget = 2
  MaxTime = 2
SYMMETRY Symmetric
INVARIANTS
  FailoverFits
  TiersInOrder
  EachTriedOnce
