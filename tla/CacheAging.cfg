SPECIFICATION Spec
CONSTANTS
  Entry = {e1,e2}
  Getter = {g1}
  Key = {k1}
  MaxSize = 1
  MaxTTL = 4
  NegativeTTL = 1
  RecordTTLs = {4}
  NoAnswer = NoAnswer
  None = None
INVARIANTS
  HitTTLExact
