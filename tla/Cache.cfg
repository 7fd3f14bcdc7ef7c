SPECIFICATION Spec
CONSTANTS
  Entry = {e1,e2,e3}
  Getter = {g1,g2}
  Key = {k1,k2,k3}
  MaxSize = 2
  MaxTTL = 2
  NegativeTTL = 1
  RecordTTLs = {3}
  NoAnswer = NoAnswer
  None = None
SYMMETRY Symmetric
INVARIANTS
  Consistent
  TTLNotTooLong
PROPERTIES
  LiveEntriesStay
