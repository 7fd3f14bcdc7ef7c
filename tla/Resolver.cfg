SPECIFICATION Spec
CONSTANTS
  n1 = n1
  n2 = n2
  n3 = n3
  Request = {r1,r2}
  Name = {n1,n2,n3}
  Owned = {n1}
  MaxTracked = 2
  KeepTop = 1
  Performance = FALSE
  Analytics = TRUE
  MaxRequests = 4
  None = None
SYMMETRY Symmetric
INVARIANTS
  EachCountedOnce
  AnswersGenuine
  AllTimeBounded
PROPERTIES
  TopKept
